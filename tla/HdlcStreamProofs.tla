------------------------- MODULE HdlcStreamProofs -------------------------
(***************************************************************************)
(* The stream decoder cuts the line into frames, for any transmission, any *)
(* limits and any chunks.  Scan, the loop of Push, is defined by recursion *)
(* over what the buffer holds: behind a frame it goes on with fewer        *)
(* octets.  The proofs first show that this defines a function (there is   *)
(* exactly one for the shorter sequences of octets, so there is one for    *)
(* the longer ones), then reason about it by a shortest counterexample.    *)
(***************************************************************************)
EXTENDS HdlcStream, TLAPS, SequenceTheorems, WellFoundedInduction

-----------------------------------------------------------------------------
(***************************************************************************)
(* Numbers and sequences.                                                  *)
(***************************************************************************)
\* Every set of numbers has a least one.
LEMMA LeastNumber ==
    ASSUME NEW S \in SUBSET Nat, S # {}
    PROVE  \E m \in S : \A n \in S : m <= n
<1> DEFINE R == OpToRel(<, Nat)
<1>1. IsWellFoundedOn(R, Nat)
  BY NatLessThanWellFounded, Zenon
<1>2. \A p : p \in R <=> p \in {ss \in Nat \X Nat : ss[1] < ss[2]}
  BY DEF OpToRel
<1> HIDE DEF R
<1>3. \A x, y \in Nat : <<y, x>> \in R <=> y < x
  BY <1>2, SMT
<1>4. PICK x \in S : \A y \in S : ~(<<y, x>> \in R)
  BY <1>1, WFMin
<1>5. ASSUME NEW y \in S
      PROVE  x <= y
  <2>1. x \in Nat /\ y \in Nat
    OBVIOUS
  <2>2. ~(y < x)
    BY <1>3, <1>4, <2>1
  <2> QED
    BY <2>1, <2>2, SMT
<1> QED
  BY <1>5

\* A set of numbers that has zero and with each number the next one has them all.
LEMMA Induction ==
    ASSUME NEW S, S \subseteq Nat, 0 \in S, \A n \in S : n + 1 \in S
    PROVE  S = Nat
<1>1. SUFFICES ASSUME Nat \ S # {}
               PROVE  FALSE
  OBVIOUS
<1>2. PICK m \in Nat \ S : \A n \in Nat \ S : m <= n
  BY <1>1, LeastNumber
<1>3. m # 0
  BY <1>2
<1>4. m - 1 \in Nat
  BY <1>3, SMT
<1>5. m - 1 \in S
  BY <1>2, <1>4, SMT
<1>6. m - 1 + 1 = m
  BY SMT
<1> QED
  BY <1>5, <1>6

\* Among sequences of octets of some kind there is a shortest one.
LEMMA Shortest ==
    ASSUME NEW S \in SUBSET Seq(Octet), S # {}
    PROVE  \E a \in S : \A b \in S : Len(a) <= Len(b)
<1> DEFINE L == {Len(a) : a \in S}
<1>1. L \in SUBSET Nat /\ L # {}
  BY LenProperties
<1>2. PICK m \in L : \A n \in L : m <= n
  <2> HIDE DEF L
  <2> QED
    BY <1>1, LeastNumber
<1> QED
  BY <1>2

\* Least finds the least.
LEMMA LeastIs ==
    ASSUME NEW S \in SUBSET Nat, NEW n \in S, \A m \in S : n <= m
    PROVE  Least(S) = n
<1>1. \A k \in S : (\A m \in S : k <= m) => k = n
  BY SMT
<1> QED
  BY <1>1 DEF Least

\* Concatenation is associative.
LEMMA Joined ==
    ASSUME NEW a \in Seq(Octet), NEW b \in Seq(Octet), NEW c \in Seq(Octet)
    PROVE  (a \o b) \o c = a \o (b \o c) /\ b \o c \in Seq(Octet)
<1>1. (a \o b) \o c = a \o (b \o c)
  BY ConcatAssociative
<1>2. b \o c \in Seq(Octet)
  BY ConcatProperties
<1> QED
  BY <1>1, <1>2

\* What stands from a place on.
LEMMA Behind ==
    ASSUME NEW b \in Seq(Octet), NEW i \in Nat \ {0}
    PROVE  /\ From(b, i) \in Seq(Octet)
           /\ i <= Len(b) + 1 => /\ Len(From(b, i)) = Len(b) - i + 1
                                 /\ \A j \in 1 .. Len(b) - i + 1 : From(b, i)[j] = b[i + j - 1]
           /\ i > Len(b) => From(b, i) = <<>>
<1>1. Len(b) \in Nat /\ i \in Int /\ Len(b) \in Int
  BY LenProperties, SMT
<1>2. \A j \in i .. Len(b) : b[j] \in Octet
  <2> TAKE j \in i .. Len(b)
  <2>1. j \in 1 .. Len(b)
    BY <1>1, SMT
  <2> QED
    BY <2>1, ElementOfSeq
<1>3. /\ SubSeq(b, i, Len(b)) \in Seq(Octet)
      /\ Len(SubSeq(b, i, Len(b))) = IF i <= Len(b) THEN Len(b) - i + 1 ELSE 0
      /\ \A j \in 1 .. Len(b) - i + 1 : SubSeq(b, i, Len(b))[j] = b[i + j - 1]
  BY <1>1, <1>2, SubSeqProperties
<1>4. i <= Len(b) + 1 => Len(SubSeq(b, i, Len(b))) = Len(b) - i + 1
  BY <1>1, <1>3, SMT
<1>5. i > Len(b) => SubSeq(b, i, Len(b)) = <<>>
  BY <1>1, SubSeqEmpty, SMT
<1> QED
  BY <1>3, <1>4, <1>5 DEF From

-----------------------------------------------------------------------------
(***************************************************************************)
(* Noise.                                                                  *)
(***************************************************************************)
Flags(b) == {i \in DOMAIN b : b[i] = Flag}

\* The flags of a sequence stand at its places.
LEMMA FlagsAreNumbers ==
    ASSUME NEW b \in Seq(Octet)
    PROVE  Flags(b) = {i \in 1 .. Len(b) : b[i] = Flag} /\ Flags(b) \in SUBSET (Nat \ {0})
<1>1. DOMAIN b = 1 .. Len(b) /\ Len(b) \in Nat
  BY LenProperties
<1> QED
  BY <1>1 DEF Flags

\* Where there is a flag there is a first one.
LEMMA FirstFlag ==
    ASSUME NEW b \in Seq(Octet), Flags(b) # {}
    PROVE  /\ Least(Flags(b)) \in 1 .. Len(b) /\ b[Least(Flags(b))] = Flag
           /\ \A i \in Flags(b) : Least(Flags(b)) <= i
<1>1. Flags(b) = {i \in 1 .. Len(b) : b[i] = Flag} /\ Flags(b) \in SUBSET Nat
  BY FlagsAreNumbers
<1>2. PICK n \in Flags(b) : \A m \in Flags(b) : n <= m
  BY <1>1, LeastNumber
<1>3. Least(Flags(b)) = n
  BY <1>1, <1>2, LeastIs
<1> QED
  BY <1>1, <1>2, <1>3

\* What is left begins with a flag and is not longer.
LEMMA SkippedNoise ==
    ASSUME NEW b \in Seq(Octet)
    PROVE  /\ SkipNoise(b) \in Seq(Octet) /\ Len(SkipNoise(b)) <= Len(b)
           /\ SkipNoise(b) = <<>> <=> Flags(b) = {}
           /\ SkipNoise(b) # <<>> => SkipNoise(b)[1] = Flag
<1>1. CASE Flags(b) = {}
  <2>1. SkipNoise(b) = <<>>
    BY <1>1 DEF SkipNoise, Flags
  <2>2. <<>> \in Seq(Octet) /\ Len(<<>>) = 0 /\ Len(b) \in Nat
    BY EmptySeq, LenProperties
  <2> QED
    BY <1>1, <2>1, <2>2
<1>2. CASE Flags(b) # {}
  <2> DEFINE m == Least(Flags(b))
  <2>1. SkipNoise(b) = From(b, m)
    BY <1>2 DEF SkipNoise, Flags
  <2>2. m \in 1 .. Len(b) /\ b[m] = Flag /\ Len(b) \in Nat
    BY <1>2, FirstFlag, LenProperties
  <2> HIDE DEF m
  <2>3. m \in Nat \ {0} /\ m <= Len(b) + 1
    BY <2>2, SMT
  <2>4. /\ From(b, m) \in Seq(Octet) /\ Len(From(b, m)) = Len(b) - m + 1
        /\ \A j \in 1 .. Len(b) - m + 1 : From(b, m)[j] = b[m + j - 1]
    BY <2>3, Behind
  <2>5. 1 \in 1 .. Len(b) - m + 1 /\ m + 1 - 1 = m /\ Len(b) - m + 1 <= Len(b) /\ Len(b) - m + 1 # 0
    BY <2>2, SMT
  <2>6. From(b, m)[1] = Flag
    BY <2>2, <2>4, <2>5
  <2>7. From(b, m) # <<>>
    BY <2>4, <2>5, EmptySeq
  <2> QED
    BY <1>2, <2>1, <2>4, <2>5, <2>6, <2>7
<1> QED
  BY <1>1, <1>2

\* Nothing is skipped where a flag is the first octet.
LEMMA NothingSkipped ==
    ASSUME NEW b \in Seq(Octet), b # <<>>, b[1] = Flag
    PROVE  SkipNoise(b) = b
<1>1. Len(b) \in Nat \ {0}
  BY EmptySeq
<1>2. 1 \in Flags(b)
  BY <1>1, FlagsAreNumbers, SMT
<1>3. Flags(b) \in SUBSET Nat /\ \A i \in Flags(b) : 1 <= i
  BY FlagsAreNumbers, SMT
<1>4. Least(Flags(b)) = 1
  BY <1>2, <1>3, LeastIs
<1>5. SkipNoise(b) = From(b, 1)
  BY <1>2, <1>4 DEF SkipNoise, Flags
<1> QED
  BY <1>5, SubSeqFull DEF From

\* Octets that come later do not change what is skipped.
LEMMA SkippedEarly ==
    ASSUME NEW b \in Seq(Octet), NEW x \in Seq(Octet), SkipNoise(b) # <<>>
    PROVE  SkipNoise(b \o x) = SkipNoise(b) \o x
<1> DEFINE m == Least(Flags(b))
           s == b \o x
<1>1. Flags(b) # {}
  BY SkippedNoise
<1>2. /\ m \in 1 .. Len(b) /\ b[m] = Flag /\ \A i \in Flags(b) : m <= i
  BY <1>1, FirstFlag
<1>3. SkipNoise(b) = From(b, m)
  BY <1>1 DEF SkipNoise, Flags
<1> HIDE DEF m
<1>4. /\ s \in Seq(Octet) /\ Len(s) = Len(b) + Len(x)
      /\ \A i \in 1 .. Len(b) + Len(x) : s[i] = IF i <= Len(b) THEN b[i] ELSE x[i - Len(b)]
  BY ConcatProperties
<1>5. Len(b) \in Nat /\ Len(x) \in Nat
  BY LenProperties
<1> HIDE DEF s
<1>6. m \in Flags(s)
  <2>1. m \in 1 .. Len(s) /\ m <= Len(b) /\ m \in 1 .. Len(b) + Len(x)
    BY <1>2, <1>4, <1>5, SMT
  <2>2. s[m] = Flag
    BY <1>2, <1>4, <2>1
  <2> QED
    BY <1>4, <2>1, <2>2, FlagsAreNumbers
<1>7. \A i \in Flags(s) : m <= i
  <2> SUFFICES ASSUME NEW i \in Flags(s), ~(m <= i)
               PROVE  FALSE
    OBVIOUS
  <2>1. i \in 1 .. Len(s) /\ s[i] = Flag
    BY <1>4, FlagsAreNumbers
  <2>2. i \in 1 .. Len(b) /\ i <= Len(b) /\ i \in 1 .. Len(b) + Len(x)
    BY <1>2, <1>4, <1>5, <2>1, SMT
  <2>3. b[i] = Flag
    BY <1>4, <2>1, <2>2
  <2>4. i \in Flags(b)
    BY <2>2, <2>3, FlagsAreNumbers
  <2> QED
    BY <1>2, <2>4
<1>8. Flags(s) \in SUBSET Nat
  BY <1>4, FlagsAreNumbers
<1>9. SkipNoise(s) = From(s, m)
  <2>1. Least(Flags(s)) = m
    BY <1>6, <1>7, <1>8, LeastIs
  <2> QED
    BY <1>6, <2>1 DEF SkipNoise, Flags
<1>10. From(s, m) = From(b, m) \o x
  <2> DEFINE u == From(s, m)
             v == From(b, m)
             w == v \o x
  <2>1. m \in Nat \ {0} /\ m <= Len(b) + 1 /\ m <= Len(s) + 1
    BY <1>2, <1>4, <1>5, SMT
  <2>2. /\ u \in Seq(Octet) /\ Len(u) = Len(s) - m + 1
        /\ \A j \in 1 .. Len(s) - m + 1 : u[j] = s[m + j - 1]
    BY <1>4, <2>1, Behind
  <2>3. /\ v \in Seq(Octet) /\ Len(v) = Len(b) - m + 1
        /\ \A j \in 1 .. Len(b) - m + 1 : v[j] = b[m + j - 1]
    BY <2>1, Behind
  <2> HIDE DEF u, v
  <2>4. /\ w \in Seq(Octet) /\ Len(w) = Len(v) + Len(x)
        /\ \A i \in 1 .. Len(v) + Len(x) : w[i] = IF i <= Len(v) THEN v[i] ELSE x[i - Len(v)]
    BY <2>3, ConcatProperties
  <2> HIDE DEF w
  <2>5. Len(u) = Len(w)
    BY <1>2, <1>4, <1>5, <2>2, <2>3, <2>4, SMT
  <2>6. ASSUME NEW j \in 1 .. Len(u)
        PROVE  u[j] = w[j]
    <3>1. CASE j <= Len(v)
      <4>1. /\ j \in 1 .. Len(b) - m + 1 /\ m + j - 1 <= Len(b)
            /\ m + j - 1 \in 1 .. Len(b) + Len(x)
            /\ j \in 1 .. Len(v) + Len(x) /\ j \in 1 .. Len(s) - m + 1
        BY <1>2, <1>4, <1>5, <2>2, <2>3, <3>1, SMT
      <4>2. u[j] = s[m + j - 1] /\ s[m + j - 1] = b[m + j - 1] /\ v[j] = b[m + j - 1] /\ w[j] = v[j]
        BY <1>4, <2>2, <2>3, <2>4, <3>1, <4>1
      <4> QED
        BY <4>2
    <3>2. CASE ~(j <= Len(v))
      <4> DEFINE k == m + j - 1
      <4>1. /\ Len(v) = Len(b) - m + 1 /\ Len(s) = Len(b) + Len(x) /\ Len(u) = Len(s) - m + 1
            /\ m \in Nat /\ m <= Len(b)
        BY <1>2, <1>4, <1>5, <2>2, <2>3, SMT
      <4>2. j \in Nat /\ 1 <= j /\ j <= Len(u)
        BY <1>5, <4>1, SMT
      <4>3. ~(k <= Len(b)) /\ k \in Nat /\ 1 <= k /\ k <= Len(b) + Len(x) /\ k - Len(b) = j - Len(v)
        BY <1>5, <3>2, <4>1, <4>2, SMT
      <4>4. j <= Len(v) + Len(x) /\ j <= Len(s) - m + 1
        BY <1>5, <4>1, <4>2, SMT
      <4>5. u[j] = s[k]
        BY <1>5, <2>2, <4>1, <4>2, <4>4, SMT
      <4>6. w[j] = x[j - Len(v)]
        BY <1>5, <2>4, <3>2, <4>1, <4>2, <4>4, SMT
      <4> HIDE DEF k
      <4>7. s[k] = x[k - Len(b)]
        BY <1>4, <1>5, <4>3, SMT
      <4> QED
        BY <4>3, <4>5, <4>6, <4>7
    <3> QED
      BY <3>1, <3>2
  <2>7. u = w
    BY <2>2, <2>4, <2>5, <2>6, SeqEqual
  <2> QED
    BY <2>7 DEF u, v, w
<1> QED
  BY <1>3, <1>9, <1>10 DEF s

\* Octets without a flag are skipped, whatever comes later.
LEMMA SkippedLate ==
    ASSUME NEW b \in Seq(Octet), NEW x \in Seq(Octet), SkipNoise(b) = <<>>
    PROVE  SkipNoise(b \o x) = SkipNoise(x)
<1> DEFINE s == b \o x
           n == Len(b)
<1>1. Flags(b) = {}
  BY SkippedNoise
<1>2. /\ s \in Seq(Octet) /\ Len(s) = n + Len(x)
      /\ \A i \in 1 .. n + Len(x) : s[i] = IF i <= n THEN b[i] ELSE x[i - n]
  BY ConcatProperties
<1>3. n \in Nat /\ Len(x) \in Nat
  BY LenProperties
<1> HIDE DEF s
<1>4. \A i \in Flags(s) : i - n \in Flags(x)
  <2> TAKE i \in Flags(s)
  <2>1. i \in 1 .. Len(s) /\ s[i] = Flag
    BY <1>2, FlagsAreNumbers
  <2>2. i \in 1 .. n + Len(x)
    BY <1>2, <2>1
  <2>3. ~(i <= n)
    <3> SUFFICES ASSUME i <= n PROVE FALSE
      OBVIOUS
    <3>1. i \in 1 .. n /\ b[i] = Flag
      BY <1>2, <1>3, <2>1, <2>2, SMT
    <3>2. i \in Flags(b)
      BY <3>1, FlagsAreNumbers
    <3> QED
      BY <1>1, <3>2
  <2>4. i - n \in 1 .. Len(x)
    BY <1>3, <2>2, <2>3, SMT
  <2>5. x[i - n] = Flag
    BY <1>2, <2>1, <2>2, <2>3
  <2> QED
    BY <2>4, <2>5, FlagsAreNumbers
<1>5. \A j \in Flags(x) : n + j \in Flags(s)
  <2> TAKE j \in Flags(x)
  <2>1. j \in 1 .. Len(x) /\ x[j] = Flag
    BY FlagsAreNumbers
  <2>2. n + j \in 1 .. n + Len(x) /\ ~(n + j <= n) /\ n + j - n = j
    BY <1>3, <2>1, SMT
  <2>3. s[n + j] = Flag
    BY <1>2, <2>1, <2>2
  <2> QED
    BY <1>2, <2>2, <2>3, FlagsAreNumbers
<1>6. CASE Flags(x) = {}
  <2>1. Flags(s) = {}
    BY <1>4, <1>6
  <2>2. SkipNoise(s) = <<>> /\ SkipNoise(x) = <<>>
    BY <1>2, <1>6, <2>1, SkippedNoise
  <2> QED
    BY <2>2 DEF s
<1>7. CASE Flags(x) # {}
  <2> DEFINE m == Least(Flags(x))
  <2>1. m \in 1 .. Len(x) /\ m \in Flags(x) /\ \A i \in Flags(x) : m <= i
    <3>1. m \in 1 .. Len(x) /\ x[m] = Flag /\ \A i \in Flags(x) : m <= i
      BY <1>7, FirstFlag
    <3> QED
      BY <3>1, FlagsAreNumbers
  <2>2. SkipNoise(x) = From(x, m)
    BY <1>7 DEF SkipNoise, Flags
  <2> HIDE DEF m
  <2>3. Flags(s) \in SUBSET Nat /\ n + m \in Flags(s)
    BY <1>2, <1>5, <2>1, FlagsAreNumbers
  <2>4. \A i \in Flags(s) : n + m <= i
    <3> TAKE i \in Flags(s)
    <3>1. m <= i - n /\ i \in Nat
      BY <1>4, <2>1, <2>3
    <3> QED
      BY <1>3, <2>1, <3>1, SMT
  <2>5. SkipNoise(s) = From(s, n + m)
    <3>1. Least(Flags(s)) = n + m
      BY <2>3, <2>4, LeastIs
    <3> QED
      BY <2>3, <3>1 DEF SkipNoise, Flags
  <2>6. From(s, n + m) = From(x, m)
    <3> DEFINE u == From(s, n + m)
               v == From(x, m)
    <3>1. m \in Nat \ {0} /\ m <= Len(x) + 1 /\ n + m \in Nat \ {0} /\ n + m <= Len(s) + 1
      BY <1>2, <1>3, <2>1, SMT
    <3>2. /\ u \in Seq(Octet) /\ Len(u) = Len(s) - (n + m) + 1
          /\ \A j \in 1 .. Len(s) - (n + m) + 1 : u[j] = s[n + m + j - 1]
      BY <1>2, <3>1, Behind
    <3>3. /\ v \in Seq(Octet) /\ Len(v) = Len(x) - m + 1
          /\ \A j \in 1 .. Len(x) - m + 1 : v[j] = x[m + j - 1]
      BY <3>1, Behind
    <3> HIDE DEF u, v
    <3>4. Len(u) = Len(v)
      BY <1>2, <1>3, <2>1, <3>2, <3>3, SMT
    <3>5. ASSUME NEW j \in 1 .. Len(u)
          PROVE  u[j] = v[j]
      <4> DEFINE k == n + m + j - 1
      <4>1. j \in 1 .. Len(s) - (n + m) + 1 /\ j \in 1 .. Len(x) - m + 1
        BY <1>2, <1>3, <2>1, <3>2, SMT
      <4>2. k \in 1 .. n + Len(x) /\ ~(k <= n) /\ k - n = m + j - 1
        BY <1>2, <1>3, <2>1, <3>2, SMT
      <4>3. u[j] = s[k] /\ v[j] = x[m + j - 1]
        BY <3>2, <3>3, <4>1
      <4> HIDE DEF k
      <4>4. s[k] = x[k - n]
        BY <1>2, <4>2
      <4> QED
        BY <4>2, <4>3, <4>4
    <3>6. u = v
      BY <3>2, <3>3, <3>4, <3>5, SeqEqual
    <3> QED
      BY <3>6 DEF u, v
  <2> QED
    BY <2>2, <2>5, <2>6 DEF s
<1> QED
  BY <1>6, <1>7

-----------------------------------------------------------------------------
(***************************************************************************)
(* What a successful decoding says of the octets and of the frame.         *)
(***************************************************************************)
\* The format field is a number of sixteen bits, its length one of eleven.
LEMMA FormatNumbers ==
    ASSUME NEW b \in Seq(Octet), Len(b) >= 3
    PROVE  /\ FrameFormat(b) \in Nat /\ FormatFieldLength(b) \in Nat /\ FullFrameSize(b) \in Nat
           /\ FullFrameSize(b) = FormatFieldLength(b) + 2
<1>1. Len(b) \in Nat
  BY LenProperties
<1>2. 2 \in 1 .. Len(b) /\ 3 \in 1 .. Len(b)
  BY <1>1, SMT
<1>3. b[2] \in Octet /\ b[3] \in Octet
  BY <1>2, ElementOfSeq
<1>4. FrameFormat(b) \in Nat
  <2>1. \A v \in Octet : v \in Nat
    BY SMT DEF Octet
  <2>2. b[2] \in Nat /\ b[3] \in Nat
    BY <1>3, <2>1
  <2>3. \A v, w \in Nat : v * 256 + w \in Nat
    BY SMT
  <2> QED
    BY <2>2, <2>3 DEF FrameFormat
<1>5. \A n \in Nat : n % 2048 \in Nat /\ (n % 2048) + 2 \in Nat
  BY SMT
<1> QED
  BY <1>4, <1>5 DEF FormatFieldLength, FullFrameSize

\* It does not change with the octets behind it.
LEMMA FormatKept ==
    ASSUME NEW b \in Seq(Octet), NEW x \in Seq(Octet), Len(b) >= 3
    PROVE  /\ FrameFormat(b \o x) = FrameFormat(b) /\ FormatType3(b \o x) = FormatType3(b)
           /\ FormatFieldLength(b \o x) = FormatFieldLength(b)
           /\ FullFrameSize(b \o x) = FullFrameSize(b)
           /\ Len(b \o x) >= 3 /\ Refused(b \o x) = Refused(b)
<1>1. Len(b) \in Nat /\ Len(x) \in Nat
  BY LenProperties
<1>2. /\ Len(b \o x) = Len(b) + Len(x)
      /\ \A i \in 1 .. Len(b) + Len(x) : (b \o x)[i] = IF i <= Len(b) THEN b[i] ELSE x[i - Len(b)]
  BY ConcatProperties
<1>3. 2 \in 1 .. Len(b) + Len(x) /\ 3 \in 1 .. Len(b) + Len(x) /\ 2 <= Len(b) /\ 3 <= Len(b)
      /\ Len(b) + Len(x) >= 3
  BY <1>1, SMT
<1>4. (b \o x)[2] = b[2] /\ (b \o x)[3] = b[3]
  BY <1>2, <1>3
<1>5. FrameFormat(b \o x) = FrameFormat(b)
  BY <1>4 DEF FrameFormat
<1>6. /\ FormatType3(b \o x) = FormatType3(b)
      /\ FormatFieldLength(b \o x) = FormatFieldLength(b)
      /\ FullFrameSize(b \o x) = FullFrameSize(b)
  BY <1>5 DEF FormatType3, FormatFieldLength, FullFrameSize
<1>7. Len(b \o x) >= 3
  BY <1>2, <1>3
<1> QED
  BY <1>5, <1>6, <1>7 DEF Refused

\* An address that was read is one that the factories could have handed out.
LEMMA AddressRead ==
    ASSUME NEW o \in Seq(Octet), AddressFromBytes(o).status = "Ok"
    PROVE  /\ AddressFromBytes(o).address \in HdlcAddress
           /\ AddressFromBytes(o).address.size \in Nat \ {0}
<1> DEFINE ends == {i \in DOMAIN o : i <= 4 /\ o[i] % 2 = 1}
           size == Least(ends)
<1>1. DOMAIN o = 1 .. Len(o) /\ Len(o) \in Nat
  BY LenProperties
<1>2. ends # {} /\ size \in SupportedEncodedSize
      /\ AddressFromBytes(o).address = [raw |-> RawValue(o, size), size |-> size]
  BY DEF AddressFromBytes, Failure
<1>3. size \in ends
  <2>1. ends \in SUBSET Nat
    BY <1>1, SMT
  <2> HIDE DEF ends
  <2>2. PICK n \in ends : \A m \in ends : n <= m
    BY <1>2, <2>1, LeastNumber
  <2> QED
    BY <2>1, <2>2, LeastIs
<1>4. size \in 1 .. Len(o)
  BY <1>1, <1>3
<1> HIDE DEF size
<1>5. size \in {1, 2, 4}
  BY <1>2 DEF SupportedEncodedSize
<1>6. ASSUME NEW i \in 1 .. size
      PROVE  o[i] \div 2 \in Nat /\ o[i] \div 2 <= 127
  <2>1. i \in 1 .. Len(o)
    BY <1>1, <1>4, SMT
  <2>2. o[i] \in Octet
    BY <2>1, ElementOfSeq
  <2>3. o[i] \in Nat /\ o[i] <= 255
    <3>1. \A v \in Octet : v \in Nat /\ v <= 255
      BY SMT DEF Octet
    <3> QED
      BY <2>2, <3>1
  <2>4. \A n \in Nat : n <= 255 => n \div 2 \in Nat /\ n \div 2 <= 127
    BY SMT
  <2> QED
    BY <2>3, <2>4
<1>7. RawValue(o, size) \in Nat /\ RawValue(o, size) <= MaximumRawValue(size)
  <2>1. CASE size = 1
    <3>1. 1 \in 1 .. size
      BY <2>1, SMT
    <3>2. RawValue(o, size) = o[1] \div 2
      BY <2>1 DEF RawValue
    <3>3. MaximumRawValue(size) = 127
      BY <2>1, SMT DEF MaximumRawValue, Weight
    <3> QED
      BY <1>6, <3>1, <3>2, <3>3
  <2>2. CASE size = 2
    <3>1. 1 \in 1 .. size /\ 2 \in 1 .. size /\ size # 1
      BY <2>2, SMT
    <3> DEFINE a == o[1] \div 2
               b == o[2] \div 2
    <3>2. RawValue(o, size) = a * 128 + b
      BY <2>2, <3>1 DEF RawValue
    <3>3. MaximumRawValue(size) = 16383
      BY <2>2, SMT DEF MaximumRawValue, Weight
    <3>4. a \in Nat /\ a <= 127 /\ b \in Nat /\ b <= 127
      BY <1>6, <3>1
    <3> HIDE DEF a, b
    <3>5. a * 128 + b \in Nat /\ a * 128 + b <= 16383
      BY <3>4, SMT
    <3> QED
      BY <3>2, <3>3, <3>5
  <2>3. CASE size = 4
    <3>1. 1 \in 1 .. size /\ 2 \in 1 .. size /\ 3 \in 1 .. size /\ 4 \in 1 .. size
          /\ size # 1 /\ size # 2
      BY <2>3, SMT
    <3> DEFINE a == o[1] \div 2
               b == o[2] \div 2
               c == o[3] \div 2
               d == o[4] \div 2
    <3>2. RawValue(o, size) = a * 2097152 + b * 16384 + c * 128 + d
      BY <3>1 DEF RawValue
    <3>3. MaximumRawValue(size) = 268435455
      BY <2>3, SMT DEF MaximumRawValue, Weight
    <3>4. /\ a \in Nat /\ a <= 127 /\ b \in Nat /\ b <= 127
          /\ c \in Nat /\ c <= 127 /\ d \in Nat /\ d <= 127
      BY <1>6, <3>1
    <3> HIDE DEF a, b, c, d
    <3>5. /\ a * 2097152 + b * 16384 + c * 128 + d \in Nat
          /\ a * 2097152 + b * 16384 + c * 128 + d <= 268435455
      BY <3>4, SMT
    <3> QED
      BY <3>2, <3>3, <3>5, SMT
  <2> QED
    BY <1>5, <2>1, <2>2, <2>3
<1>8. size \in Nat \ {0}
  BY <1>5, SMT
<1> QED
  BY <1>2, <1>7, <1>8 DEF HdlcAddress

\* The whole of the octets is one frame, and the frame has its type.
LEMMA DecodedFrame ==
    ASSUME NEW q \in Seq(Octet), DecodeFrame(q, Limits).status = "Ok"
    PROVE  /\ FormatStatus(q, Limits) = "Ok" /\ DecodeFrame(q, Limits).frame \in HdlcFrame
           /\ DecodeFrame(q, Limits) = [status |-> "Ok", frame |-> DecodeFrame(q, Limits).frame]
<1> DEFINE addresses == DecodeAddresses(q)
           control == 4 + addresses.destination.size + addresses.source.size
           last == Len(q) - 3
           information == SubSeq(q, control + 3, last)
           frame == [segmented |-> Segmented(q),
                     destination |-> addresses.destination, source |-> addresses.source,
                     control |-> q[control], information |-> information]
<1>1. /\ FormatStatus(q, Limits) = "Ok" /\ addresses.status = "Ok" /\ ~(control > last)
      /\ DecodeFrame(q, Limits) = [status |-> "Ok", frame |-> frame]
  BY DEF DecodeFrame, DecodeFrameFromBuffer, Failure
<1>2. Len(q) \in Nat /\ ~(Len(q) < 4)
  BY <1>1, LenProperties DEF FormatStatus
<1>3. \A i \in 1 .. Len(q) : q[i] \in Octet
  BY ElementOfSeq
<1>4. ASSUME NEW lo \in Nat \ {0}
      PROVE  SubSeq(q, lo, Len(q) - 1) \in Seq(Octet) /\ SubSeq(q, lo, last) \in Seq(Octet)
  <2>1. lo \in Int /\ Len(q) - 1 \in Int /\ last \in Int
    BY <1>2, SMT
  <2>2. \A i \in lo .. Len(q) - 1 : q[i] \in Octet
    <3>1. \A i \in lo .. Len(q) - 1 : i \in 1 .. Len(q)
      BY <1>2, SMT
    <3> QED
      BY <1>3, <3>1
  <2>3. \A i \in lo .. last : q[i] \in Octet
    <3>1. \A i \in lo .. last : i \in 1 .. Len(q)
      BY <1>2, SMT
    <3> QED
      BY <1>3, <3>1
  <2> QED
    BY <2>1, <2>2, <2>3, SubSeqProperties
<1>5. /\ addresses.destination \in HdlcAddress /\ addresses.source \in HdlcAddress
      /\ addresses.destination.size \in Nat \ {0} /\ addresses.source.size \in Nat \ {0}
  <2> DEFINE destination == AddressFromBytes(SubSeq(q, 4, Len(q) - 1))
             source == AddressFromBytes(SubSeq(q, 4 + destination.address.size, Len(q) - 1))
  <2>1. /\ destination.status = "Ok" /\ source.status = "Ok"
        /\ addresses = [status |-> "Ok", destination |-> destination.address,
                        source |-> source.address]
    BY <1>1 DEF DecodeAddresses
  <2>2. 4 \in Nat \ {0}
    BY SMT
  <2>3. SubSeq(q, 4, Len(q) - 1) \in Seq(Octet)
    BY <1>4, <2>2
  <2>4. destination.address \in HdlcAddress /\ destination.address.size \in Nat \ {0}
    BY <2>1, <2>3, AddressRead
  <2>5. 4 + destination.address.size \in Nat \ {0}
    BY <2>4, SMT
  <2>6. SubSeq(q, 4 + destination.address.size, Len(q) - 1) \in Seq(Octet)
    BY <1>4, <2>5
  <2>7. source.address \in HdlcAddress /\ source.address.size \in Nat \ {0}
    BY <2>1, <2>6, AddressRead
  <2> QED
    BY <2>1, <2>4, <2>7
<1> HIDE DEF addresses
<1>6. control \in 1 .. Len(q) /\ control + 3 \in Nat \ {0}
  <2> DEFINE d == addresses.destination.size
             s == addresses.source.size
  <2>1. d \in Nat /\ s \in Nat /\ control = 4 + d + s /\ ~(control > Len(q) - 3)
    BY <1>1, <1>5
  <2> HIDE DEF control, d, s
  <2> QED
    BY <1>2, <2>1, SMT
<1> HIDE DEF control
<1>7. q[control] \in Octet /\ information \in Seq(Octet)
  BY <1>3, <1>4, <1>6
<1>8. Segmented(q) \in BOOLEAN
  BY DEF Segmented
<1>9. frame \in HdlcFrame
  <2> HIDE DEF information
  <2> QED
    BY <1>5, <1>7, <1>8 DEF HdlcFrame
<1> QED
  BY <1>1, <1>9

\* What the tests up to the closing flag say.
LEMMA FormatOk ==
    ASSUME NEW q \in Seq(Octet), FormatStatus(q, Limits) = "Ok"
    PROVE  /\ Len(q) >= 4 /\ q[1] = Flag /\ ~Refused(q) /\ Len(q) = FullFrameSize(q) /\ Complete(q)
<1>1. /\ ~(Len(q) < 4) /\ q[1] = Flag /\ FormatType3(q) /\ ~(FormatFieldLength(q) < 6)
      /\ ~(FullFrameSize(q) > EffectiveMaximumFrameSize(Limits)) /\ Len(q) = FullFrameSize(q)
  BY DEF FormatStatus
<1>2. Len(q) \in Nat
  BY LenProperties
<1>3. Len(q) >= 4 /\ Len(q) >= 3 /\ Len(q) >= Len(q)
  BY <1>1, <1>2, SMT
<1> QED
  BY <1>1, <1>3 DEF Refused, Complete

-----------------------------------------------------------------------------
(***************************************************************************)
(* Push is well defined: the loop of Push goes on only behind a frame.     *)
(***************************************************************************)
\* One round of the loop: it fails, waits for more, or has a first frame and goes
\* on with what is beyond it.
Front(b) == SubSeq(SkipNoise(b), 1, FullFrameSize(SkipNoise(b)))

Fails(policy, b) ==
    \/ policy = "ReportError" /\ Noisy(b)
    \/ Refused(SkipNoise(b))
    \/ Complete(SkipNoise(b)) /\ DecodeFrame(Front(b), Limits).status # "Ok"

Waits(b) == ~Complete(SkipNoise(b))

FirstFrame(b) == DecodeFrame(Front(b), Limits).frame

Beyond(b) == AfterFrame(SkipNoise(b))

Round(policy, b, rest) ==
    IF Fails(policy, b) THEN ResetOnError
    ELSE IF Waits(b) THEN Incomplete(SkipNoise(b))
    ELSE [rest EXCEPT !.frames = <<FirstFrame(b)>> \o @]

\* Scan for any policy.
Reading(policy) ==
    CHOOSE f : f = [b \in Seq(Octet) |->
        LET c == SkipNoise(b)
            decoded == DecodeFrame(SubSeq(c, 1, FullFrameSize(c)), Limits)
            rest == f[AfterFrame(c)]
        IN  IF (policy = "ReportError" /\ Noisy(b)) \/ Refused(c) THEN ResetOnError
            ELSE IF ~Complete(c) THEN Incomplete(c)
            ELSE IF decoded.status # "Ok" THEN ResetOnError
            ELSE [rest EXCEPT !.frames = <<decoded.frame>> \o @]]

\* Scan is Reading under the policy of the decoder.
LEMMA ScanIsReading == Scan = Reading(noisePolicy)
BY DEF Scan, Reading

\* A frame that was decoded was all there, and fewer octets than before are beyond it.
LEMMA Forward ==
    ASSUME NEW policy, NEW b \in Seq(Octet), ~Fails(policy, b), ~Waits(b)
    PROVE  /\ Beyond(b) \in Seq(Octet) /\ Len(Beyond(b)) < Len(b)
           /\ Front(b) \in Seq(Octet) /\ DecodeFrame(Front(b), Limits).status = "Ok"
           /\ SkipNoise(b) \in Seq(Octet) /\ SkipNoise(b) # <<>>
           /\ FullFrameSize(SkipNoise(b)) \in 1 .. Len(SkipNoise(b))
<1> DEFINE c == SkipNoise(b)
           n == FullFrameSize(c)
<1>1. c \in Seq(Octet) /\ Len(c) <= Len(b) /\ Len(c) \in Nat /\ Len(b) \in Nat
  BY SkippedNoise, LenProperties
<1>2. /\ Len(c) >= 3 /\ Len(c) >= n /\ ~(FormatFieldLength(c) < 6)
      /\ DecodeFrame(Front(b), Limits).status = "Ok"
  BY DEF Fails, Waits, Complete, Refused
<1>3. n = FormatFieldLength(c) + 2 /\ FormatFieldLength(c) \in Nat
  BY <1>1, <1>2, FormatNumbers
<1> HIDE DEF c, n
<1>4. n \in Nat /\ 1 <= n /\ n <= Len(c) /\ n + 1 \in Nat \ {0} /\ n + 1 <= Len(c) + 1
      /\ Len(c) - (n + 1) + 1 < Len(b)
  BY <1>1, <1>2, <1>3, SMT
<1>5. From(c, n + 1) \in Seq(Octet) /\ Len(From(c, n + 1)) = Len(c) - (n + 1) + 1
  BY <1>1, <1>4, Behind
<1>6. SubSeq(c, 1, n) \in Seq(Octet)
  <2>1. \A i \in 1 .. n : c[i] \in Octet
    <3> TAKE i \in 1 .. n
    <3>1. i \in 1 .. Len(c)
      BY <1>1, <1>4, SMT
    <3> QED
      BY <1>1, <3>1, ElementOfSeq
  <2>2. 1 \in Int /\ n \in Int
    BY <1>4, SMT
  <2> QED
    BY <2>1, <2>2, SubSeqProperties
<1>7. c # <<>>
  BY <1>1, <1>2, EmptySeq, SMT
<1>8. n \in 1 .. Len(c)
  BY <1>1, <1>4, SMT
<1> QED
  BY <1>1, <1>2, <1>4, <1>5, <1>6, <1>7, <1>8 DEF Beyond, AfterFrame, Front, c, n

\* What the rest is read as matters only where there is one.
LEMMA SameRound ==
    ASSUME NEW policy, NEW b, NEW r, NEW s, ~Fails(policy, b) /\ ~Waits(b) => r = s
    PROVE  Round(policy, b, r) = Round(policy, b, s)
BY DEF Round

\* A function that reads sequences of fewer than k octets as the loop does.
Right(policy, h, k) ==
    \A b \in Seq(Octet) : Len(b) < k => h[b] = Round(policy, b, h[Beyond(b)])

\* There is at most one way to read the shorter sequences,
LEMMA OneReading ==
    ASSUME NEW policy, NEW g, NEW h, NEW k \in Nat, Right(policy, g, k), Right(policy, h, k),
           NEW a \in Seq(Octet), Len(a) < k
    PROVE  g[a] = h[a]
<1> DEFINE S == {b \in Seq(Octet) : Len(b) < k /\ g[b] # h[b]}
<1>1. SUFFICES ASSUME S # {}
               PROVE  FALSE
  OBVIOUS
<1>2. PICK b \in S : \A d \in S : Len(b) <= Len(d)
  <2>1. S \in SUBSET Seq(Octet)
    OBVIOUS
  <2> HIDE DEF S
  <2> QED
    BY <1>1, <2>1, Shortest
<1>3. b \in Seq(Octet) /\ Len(b) < k /\ g[b] # h[b] /\ Len(b) \in Nat
  BY <1>2, LenProperties
<1>4. ~Fails(policy, b) /\ ~Waits(b) => g[Beyond(b)] = h[Beyond(b)]
  <2> SUFFICES ASSUME ~Fails(policy, b), ~Waits(b)
               PROVE  g[Beyond(b)] = h[Beyond(b)]
    OBVIOUS
  <2>1. Beyond(b) \in Seq(Octet) /\ Len(Beyond(b)) < Len(b) /\ Len(Beyond(b)) \in Nat
    BY <1>3, Forward, LenProperties
  <2>2. Len(Beyond(b)) < k /\ ~(Len(b) <= Len(Beyond(b)))
    BY <1>3, <2>1, SMT
  <2> QED
    BY <1>2, <2>1, <2>2
<1>5. Round(policy, b, g[Beyond(b)]) = Round(policy, b, h[Beyond(b)])
  BY <1>4, SameRound
<1> QED
  BY <1>3, <1>5 DEF Right

\* and there is one.
LEMMA RightExists ==
    ASSUME NEW policy
    PROVE  \A k \in Nat : \E h : Right(policy, h, k)
<1> DEFINE T == {k \in Nat : \E h : Right(policy, h, k)}
<1>1. 0 \in T
  <2>1. \A b \in Seq(Octet) : ~(Len(b) < 0)
    <3> TAKE b \in Seq(Octet)
    <3>1. Len(b) \in Nat
      BY LenProperties
    <3> QED
      BY <3>1, SMT
  <2>2. Right(policy, <<>>, 0)
    BY <2>1 DEF Right
  <2> QED
    BY <2>2
<1>2. ASSUME NEW k \in T
      PROVE  k + 1 \in T
  <2>1. PICK h : Right(policy, h, k)
    OBVIOUS
  <2> DEFINE g == [b \in Seq(Octet) |-> Round(policy, b, h[Beyond(b)])]
  <2>2. ASSUME NEW b \in Seq(Octet), Len(b) < k + 1
        PROVE  g[b] = Round(policy, b, g[Beyond(b)])
    <3>1. ~Fails(policy, b) /\ ~Waits(b) => h[Beyond(b)] = g[Beyond(b)]
      <4> SUFFICES ASSUME ~Fails(policy, b), ~Waits(b)
                   PROVE  h[Beyond(b)] = g[Beyond(b)]
        OBVIOUS
      <4>1. /\ Beyond(b) \in Seq(Octet) /\ Len(Beyond(b)) < Len(b) /\ Len(Beyond(b)) \in Nat
            /\ Len(b) \in Nat /\ k \in Nat
        BY Forward, LenProperties
      <4>2. Len(Beyond(b)) < k
        <5> HIDE DEF T, g
        <5> QED
          BY <2>2, <4>1, SMT
      <4>3. h[Beyond(b)] = Round(policy, Beyond(b), h[Beyond(Beyond(b))])
        BY <2>1, <4>1, <4>2 DEF Right
      <4> QED
        BY <4>1, <4>3
    <3>2. g[b] = Round(policy, b, h[Beyond(b)])
      OBVIOUS
    <3> HIDE DEF g
    <3> QED
      BY <3>1, <3>2, SameRound
  <2> HIDE DEF g
  <2>3. Right(policy, g, k + 1)
    BY <2>2 DEF Right
  <2>4. k + 1 \in Nat
    <3>1. k \in Nat
      OBVIOUS
    <3> HIDE DEF T
    <3> QED
      BY <3>1, SMT
  <2> QED
    BY <2>3, <2>4
<1>3. T \subseteq Nat
  OBVIOUS
<1>4. T = Nat
  <2> HIDE DEF T
  <2> QED
    BY <1>1, <1>2, <1>3, Induction
<1> QED
  BY <1>4

\* The recursive definition of Scan has a value, and that satisfies it.
LEMMA ReadingStep ==
    ASSUME NEW policy, NEW a \in Seq(Octet)
    PROVE  Reading(policy)[a] = Round(policy, a, Reading(policy)[Beyond(a)])
<1> DEFINE H(b) == CHOOSE h : Right(policy, h, Len(b) + 1)
           F == [b \in Seq(Octet) |-> H(b)[b]]
<1>1. ASSUME NEW b \in Seq(Octet)
      PROVE  Right(policy, H(b), Len(b) + 1) /\ Len(b) \in Nat /\ Len(b) + 1 \in Nat
  <2>1. Len(b) \in Nat
    BY LenProperties
  <2>2. Len(b) + 1 \in Nat
    BY <2>1, SMT
  <2>3. \E h : Right(policy, h, Len(b) + 1)
    BY <2>2, RightExists
  <2> QED
    BY <2>1, <2>2, <2>3
<1>2. ASSUME NEW b \in Seq(Octet)
      PROVE  F[b] = Round(policy, b, F[Beyond(b)])
  <2>1. Right(policy, H(b), Len(b) + 1) /\ Len(b) \in Nat /\ F[b] = H(b)[b]
    BY <1>1
  <2>2. H(b)[b] = Round(policy, b, H(b)[Beyond(b)])
    <3>1. Len(b) < Len(b) + 1
      BY <2>1, SMT
    <3> HIDE DEF H
    <3> QED
      BY <2>1, <3>1 DEF Right
  <2>3. ~Fails(policy, b) /\ ~Waits(b) => H(b)[Beyond(b)] = F[Beyond(b)]
    <3> SUFFICES ASSUME ~Fails(policy, b), ~Waits(b)
                 PROVE  H(b)[Beyond(b)] = F[Beyond(b)]
      OBVIOUS
    <3> DEFINE r == Beyond(b)
    <3>1. r \in Seq(Octet) /\ Len(r) < Len(b) /\ Len(b) \in Nat
      BY <1>1, Forward
    <3>2. Right(policy, H(r), Len(r) + 1) /\ Len(r) \in Nat /\ Len(r) + 1 \in Nat
      BY <1>1, <3>1
    <3>3. F[r] = H(r)[r]
      BY <3>1
    <3> HIDE DEF H, F, r
    <3>4. Right(policy, H(b), Len(r) + 1)
      <4>1. ASSUME NEW d \in Seq(Octet), Len(d) < Len(r) + 1
            PROVE  H(b)[d] = Round(policy, d, H(b)[Beyond(d)])
        <5>1. Len(d) \in Nat
          BY LenProperties
        <5>2. Len(d) < Len(b) + 1
          BY <3>1, <3>2, <4>1, <5>1, SMT
        <5> QED
          BY <2>1, <5>2 DEF Right
      <4> QED
        BY <4>1 DEF Right
    <3>5. Len(r) < Len(r) + 1
      BY <3>2, SMT
    <3>6. H(b)[r] = H(r)[r]
      BY <3>1, <3>2, <3>4, <3>5, OneReading
    <3> QED
      BY <3>3, <3>6 DEF r
  <2> HIDE DEF H, F
  <2> QED
    BY <2>1, <2>2, <2>3, SameRound
<1> DEFINE Body(f, b) ==
        LET c == SkipNoise(b)
            decoded == DecodeFrame(SubSeq(c, 1, FullFrameSize(c)), Limits)
            rest == f[AfterFrame(c)]
        IN  IF (policy = "ReportError" /\ Noisy(b)) \/ Refused(c) THEN ResetOnError
            ELSE IF ~Complete(c) THEN Incomplete(c)
            ELSE IF decoded.status # "Ok" THEN ResetOnError
            ELSE [rest EXCEPT !.frames = <<decoded.frame>> \o @]
<1>3. ASSUME NEW f, NEW b
      PROVE  Body(f, b) = Round(policy, b, f[Beyond(b)])
  BY DEF Round, Fails, Waits, FirstFrame, Front, Beyond
<1>4. F = [b \in Seq(Octet) |-> F[b]]
  OBVIOUS
<1>5. Reading(policy) = CHOOSE f : f = [b \in Seq(Octet) |-> Body(f, b)]
  BY DEF Reading
<1> HIDE DEF F, H, Body
<1>6. F = [b \in Seq(Octet) |-> Body(F, b)]
  <2>1. \A b \in Seq(Octet) : F[b] = Body(F, b)
    BY <1>2, <1>3
  <2> QED
    BY <1>4, <2>1
<1>7. Reading(policy) = [b \in Seq(Octet) |-> Body(Reading(policy), b)]
  BY <1>5, <1>6
<1>8. Reading(policy)[a] = Body(Reading(policy), a)
  BY <1>7
<1> QED
  BY <1>3, <1>8

-----------------------------------------------------------------------------
(***************************************************************************)
(* What Push leaves behind.                                                *)
(***************************************************************************)
\* What the buffer may hold between calls.
Kept(b) ==
    /\ b \in Seq(Octet) /\ ~Noisy(b) /\ ~Complete(b)
    /\ 3 <= EffectiveMaximumFrameSize(Limits) => Len(b) < EffectiveMaximumFrameSize(Limits)

Results == [ok : BOOLEAN, buffer : {b \in Seq(Octet) : Kept(b)}, frames : Seq(HdlcFrame)]

\* The effective limit is a number.
LEMMA LimitIsNumber == EffectiveMaximumFrameSize(Limits) \in Nat
<1>1. Limits.maximumFrameSize \in Nat
  BY StreamAssumption
<1> QED
  BY <1>1, SMT DEF EffectiveMaximumFrameSize, OrDefault

\* The empty buffer, after a reset, is one of them.
LEMMA EmptyKept == <<>> \in Seq(Octet) /\ Kept(<<>>)
<1>1. <<>> \in Seq(Octet) /\ Len(<<>>) = 0
  BY EmptySeq
<1>2. ~(Len(<<>>) >= 3)
  BY <1>1, SMT
<1>3. EffectiveMaximumFrameSize(Limits) \in Nat
  BY LimitIsNumber
<1>4. 3 <= EffectiveMaximumFrameSize(Limits) => Len(<<>>) < EffectiveMaximumFrameSize(Limits)
  <2> DEFINE m == EffectiveMaximumFrameSize(Limits)
  <2>1. m \in Nat
    BY <1>3
  <2> HIDE DEF m
  <2>2. 3 <= m => 0 < m
    BY <2>1, SMT
  <2> QED
    BY <1>1, <2>2 DEF m
<1> QED
  BY <1>1, <1>2, <1>4 DEF Kept, Noisy, Complete

\* A buffer whose frame is not complete is shorter than the length it announces,
\* and that was compared with the limit.
LEMMA WaitingKept ==
    ASSUME NEW policy, NEW b \in Seq(Octet), ~Fails(policy, b), Waits(b)
    PROVE  Kept(SkipNoise(b))
<1> DEFINE c == SkipNoise(b)
           m == EffectiveMaximumFrameSize(Limits)
<1>1. c \in Seq(Octet) /\ (c # <<>> => c[1] = Flag) /\ Len(c) \in Nat
  BY SkippedNoise, LenProperties
<1>2. ~Complete(c) /\ ~Refused(c)
  BY DEF Waits, Fails
<1>3. m \in Nat
  BY LimitIsNumber
<1> HIDE DEF c, m
<1>4. 3 <= m => Len(c) < m
  <2>1. CASE Len(c) >= 3
    <3>1. FullFrameSize(c) \in Nat
      BY <1>1, <2>1, FormatNumbers
    <3>2. ~(Len(c) >= FullFrameSize(c)) /\ ~(FullFrameSize(c) > m)
      BY <1>2, <2>1 DEF Complete, Refused, m
    <3> QED
      BY <1>1, <1>3, <3>1, <3>2, SMT
  <2>2. CASE ~(Len(c) >= 3)
    BY <1>1, <1>3, <2>2, SMT
  <2> QED
    BY <2>1, <2>2
<1> QED
  BY <1>1, <1>2, <1>4 DEF Kept, Noisy, c, m

\* A round returns a result when what it goes on with does.
LEMMA RoundResult ==
    ASSUME NEW policy, NEW b \in Seq(Octet), NEW r, ~Fails(policy, b) /\ ~Waits(b) => r \in Results
    PROVE  Round(policy, b, r) \in Results
<1>0. <<>> \in Seq(HdlcFrame)
  BY EmptySeq
<1>1. CASE Fails(policy, b)
  BY <1>0, <1>1, EmptyKept DEF Round, ResetOnError, Results
<1>2. CASE ~Fails(policy, b) /\ Waits(b)
  <2>1. SkipNoise(b) \in Seq(Octet) /\ Kept(SkipNoise(b))
    BY <1>2, SkippedNoise, WaitingKept
  <2> QED
    BY <1>0, <1>2, <2>1 DEF Round, Incomplete, Results
<1>3. CASE ~Fails(policy, b) /\ ~Waits(b)
  <2>1. FirstFrame(b) \in HdlcFrame
    BY <1>3, Forward, DecodedFrame DEF FirstFrame
  <2>2. r \in Results
    BY <1>3
  <2>3. <<FirstFrame(b)>> \o r.frames \in Seq(HdlcFrame)
    <3>1. <<FirstFrame(b)>> \in Seq(HdlcFrame)
      BY <2>1
    <3>2. r.frames \in Seq(HdlcFrame)
      BY <2>2 DEF Results
    <3> QED
      BY <3>1, <3>2, ConcatProperties
  <2>4. Round(policy, b, r) = [r EXCEPT !.frames = <<FirstFrame(b)>> \o @]
    BY <1>3 DEF Round
  <2> QED
    BY <2>2, <2>3, <2>4 DEF Results
<1> QED
  BY <1>1, <1>2, <1>3

\* Whatever the octets, Scan returns a result.
LEMMA ReadingResult ==
    ASSUME NEW policy, NEW a \in Seq(Octet)
    PROVE  Reading(policy)[a] \in Results
<1> DEFINE S == {b \in Seq(Octet) : ~(Reading(policy)[b] \in Results)}
<1>1. SUFFICES ASSUME S # {}
               PROVE  FALSE
  OBVIOUS
<1>2. PICK b \in S : \A d \in S : Len(b) <= Len(d)
  <2>1. S \in SUBSET Seq(Octet)
    OBVIOUS
  <2> HIDE DEF S
  <2> QED
    BY <1>1, <2>1, Shortest
<1>3. ~Fails(policy, b) /\ ~Waits(b) => Reading(policy)[Beyond(b)] \in Results
  <2> SUFFICES ASSUME ~Fails(policy, b), ~Waits(b), ~(Reading(policy)[Beyond(b)] \in Results)
               PROVE  FALSE
    OBVIOUS
  <2>1. /\ Beyond(b) \in Seq(Octet) /\ Len(Beyond(b)) < Len(b)
        /\ Len(Beyond(b)) \in Nat /\ Len(b) \in Nat
    BY Forward, LenProperties
  <2>2. Beyond(b) \in S
    BY <2>1
  <2>3. ~(Len(b) <= Len(Beyond(b)))
    <3> HIDE DEF S
    <3> QED
      BY <2>1, SMT
  <2> QED
    BY <1>2, <2>2, <2>3
<1>4. Round(policy, b, Reading(policy)[Beyond(b)]) \in Results
  BY <1>3, RoundResult
<1> QED
  BY <1>4, ReadingStep

-----------------------------------------------------------------------------
(***************************************************************************)
(* Chunks.                                                                 *)
(***************************************************************************)
\* What is read of a then of more, when a was read without an error.
Continued(first, second) == [second EXCEPT !.frames = first.frames \o @]

\* Only what remains behind noise counts, where noise is not an error.
LEMMA SameBehindNoise ==
    ASSUME NEW policy, policy # "ReportError", NEW u \in Seq(Octet), NEW v \in Seq(Octet),
           SkipNoise(u) = SkipNoise(v)
    PROVE  Reading(policy)[u] = Reading(policy)[v]
<1>1. Beyond(u) = Beyond(v)
  BY DEF Beyond
<1>2. \A r : Round(policy, u, r) = Round(policy, v, r)
  BY DEF Round, Fails, Waits, Front, FirstFrame
<1> QED
  BY <1>1, <1>2, ReadingStep

\* Noise skipped now, or with the octets that follow it.
LEMMA SkippedTwice ==
    ASSUME NEW b \in Seq(Octet), NEW x \in Seq(Octet)
    PROVE  SkipNoise(b \o x) = SkipNoise(SkipNoise(b) \o x)
<1> DEFINE c == SkipNoise(b)
<1>1. c \in Seq(Octet) /\ (c # <<>> => c[1] = Flag)
  BY SkippedNoise
<1>2. CASE c = <<>>
  <2>1. SkipNoise(b \o x) = SkipNoise(x)
    BY <1>2, SkippedLate
  <2>2. c \o x = x
    BY <1>2, ConcatEmptySeq
  <2> QED
    BY <2>1, <2>2
<1>3. CASE c # <<>>
  <2>1. SkipNoise(b \o x) = c \o x
    BY <1>3, SkippedEarly
  <2>2. SkipNoise(c) = c
    BY <1>1, <1>3, NothingSkipped
  <2> HIDE DEF c
  <2>3. SkipNoise(c \o x) = c \o x
    BY <1>1, <1>3, <2>2, SkippedEarly
  <2> QED
    BY <2>1, <2>3 DEF c
<1> QED
  BY <1>2, <1>3

\* A frame that is there stays the first one when octets follow.
LEMMA FirstStays ==
    ASSUME NEW policy, NEW a \in Seq(Octet), NEW x \in Seq(Octet), ~Fails(policy, a), ~Waits(a)
    PROVE  /\ ~Fails(policy, a \o x) /\ ~Waits(a \o x)
           /\ FirstFrame(a \o x) = FirstFrame(a) /\ Beyond(a \o x) = Beyond(a) \o x
<1> DEFINE c == SkipNoise(a)
           n == FullFrameSize(c)
           e == c \o x
<1>1. c \in Seq(Octet) /\ c # <<>> /\ n \in 1 .. Len(c)
  BY Forward
<1>2. /\ DecodeFrame(SubSeq(c, 1, n), Limits).status = "Ok"
      /\ FirstFrame(a) = DecodeFrame(SubSeq(c, 1, n), Limits).frame
  BY Forward DEF Front, FirstFrame
<1>3. SkipNoise(a \o x) = e
  BY <1>1, SkippedEarly
<1>4. Len(c) >= 3 /\ ~Refused(c)
  BY DEF Waits, Complete, Fails
<1>5. Len(c) \in Nat /\ Len(x) \in Nat
  BY <1>1, LenProperties
<1> HIDE DEF c
<1>6. FullFrameSize(e) = n /\ Len(e) >= 3 /\ ~Refused(e)
  BY <1>1, <1>4, FormatKept
<1>7. /\ e \in Seq(Octet) /\ Len(e) = Len(c) + Len(x)
      /\ \A i \in 1 .. Len(c) + Len(x) : e[i] = IF i <= Len(c) THEN c[i] ELSE x[i - Len(c)]
  BY <1>1, ConcatProperties
<1> HIDE DEF n, e
<1>8. Len(e) >= n /\ n \in Nat /\ n + 1 \in Nat \ {0} /\ n <= Len(c)
  BY <1>1, <1>5, <1>7, SMT
<1>9. SubSeq(e, 1, n) = SubSeq(c, 1, n)
  <2> DEFINE u == SubSeq(e, 1, n)
             v == SubSeq(c, 1, n)
  <2>1. \A i \in 1 .. n : i \in 1 .. Len(c) /\ i \in 1 .. Len(c) + Len(x) /\ i <= Len(c)
    BY <1>5, <1>8, SMT
  <2>2. \A i \in 1 .. n : c[i] \in Octet /\ e[i] = c[i]
    <3> TAKE i \in 1 .. n
    <3>1. c[i] \in Octet
      BY <1>1, <2>1, ElementOfSeq
    <3>2. e[i] = c[i]
      BY <1>7, <2>1
    <3> QED
      BY <3>1, <3>2
  <2>3. 1 \in Int /\ n \in Int
    BY <1>8, SMT
  <2>4. /\ u \in Seq(Octet) /\ Len(u) = (IF 1 <= n THEN n - 1 + 1 ELSE 0)
        /\ \A i \in 1 .. n - 1 + 1 : u[i] = e[1 + i - 1]
    BY <2>2, <2>3, SubSeqProperties
  <2>5. /\ v \in Seq(Octet) /\ Len(v) = (IF 1 <= n THEN n - 1 + 1 ELSE 0)
        /\ \A i \in 1 .. n - 1 + 1 : v[i] = c[1 + i - 1]
    BY <2>2, <2>3, SubSeqProperties
  <2> HIDE DEF u, v
  <2>6. Len(u) = n
    BY <1>1, <1>5, <2>4, SMT
  <2>7. ASSUME NEW i \in 1 .. Len(u)
        PROVE  u[i] = v[i]
    <3>1. i \in 1 .. n - 1 + 1 /\ i \in 1 .. n /\ 1 + i - 1 = i
      BY <1>8, <2>6, SMT
    <3> QED
      BY <2>2, <2>4, <2>5, <3>1
  <2>8. u = v
    BY <2>4, <2>5, <2>7, SeqEqual
  <2> QED
    BY <2>8 DEF u, v
<1>10. From(e, n + 1) = From(c, n + 1) \o x
  <2> DEFINE k == n + 1
             u == From(e, k)
             v == From(c, k)
             w == v \o x
  <2>1. k \in Nat \ {0} /\ k <= Len(c) + 1 /\ k <= Len(e) + 1 /\ k >= 1
    BY <1>5, <1>7, <1>8, SMT
  <2> HIDE DEF k
  <2>2. /\ u \in Seq(Octet) /\ Len(u) = Len(e) - k + 1
        /\ \A j \in 1 .. Len(e) - k + 1 : u[j] = e[j + k - 1]
    <3>1. /\ u \in Seq(Octet) /\ Len(u) = Len(e) - k + 1
          /\ \A j \in 1 .. Len(e) - k + 1 : u[j] = e[k + j - 1]
      BY <1>7, <2>1, Behind
    <3>2. \A j \in Nat : k + j - 1 = j + k - 1
      BY <2>1, SMT
    <3>3. \A j \in 1 .. Len(e) - k + 1 : j \in Nat
      BY <1>5, <1>7, <2>1, SMT
    <3> QED
      BY <3>1, <3>2, <3>3
  <2>3. /\ v \in Seq(Octet) /\ Len(v) = Len(c) - k + 1
        /\ \A j \in 1 .. Len(c) - k + 1 : v[j] = c[k + j - 1]
    BY <1>1, <2>1, Behind
  <2> HIDE DEF u, v
  <2>4. /\ w \in Seq(Octet) /\ Len(w) = Len(v) + Len(x)
        /\ \A i \in 1 .. Len(v) + Len(x) : w[i] = IF i <= Len(v) THEN v[i] ELSE x[i - Len(v)]
    BY <2>3, ConcatProperties
  <2> HIDE DEF w
  <2>5. Len(u) = Len(w)
    BY <1>5, <1>7, <2>1, <2>2, <2>3, <2>4, SMT
  <2>6. ASSUME NEW j \in 1 .. Len(u)
        PROVE  u[j] = w[j]
    <3> DEFINE i == j + k - 1
    <3>1. /\ Len(v) = Len(c) - k + 1 /\ Len(e) = Len(c) + Len(x) /\ Len(u) = Len(e) - k + 1
          /\ k \in Nat /\ k <= Len(c) + 1 /\ 1 <= k
      BY <1>5, <1>7, <2>1, <2>2, <2>3, SMT
    <3>2. j \in Nat /\ 1 <= j /\ j <= Len(u)
      BY <1>5, <3>1, SMT
    <3>3. /\ i \in 1 .. Len(c) + Len(x) /\ j \in 1 .. Len(v) + Len(x) /\ j \in 1 .. Len(e) - k + 1
          /\ (j <= Len(v) <=> i <= Len(c)) /\ i - Len(c) = j - Len(v)
          /\ (j <= Len(v) => j \in 1 .. Len(c) - k + 1) /\ k + j - 1 = i
      BY <1>5, <3>1, <3>2, SMT
    <3>4. u[j] = e[i] /\ (j <= Len(v) => v[j] = c[i])
      BY <2>2, <2>3, <3>3
    <3> HIDE DEF i
    <3> QED
      BY <1>7, <2>4, <3>3, <3>4
  <2>7. u = w
    BY <2>2, <2>4, <2>5, <2>6, SeqEqual
  <2> QED
    BY <2>7 DEF u, v, w, k
<1>11. Noisy(a \o x) => Noisy(a)
  <2> SUFFICES ASSUME ~Noisy(a)
               PROVE  ~Noisy(a \o x)
    OBVIOUS
  <2>1. a # <<>>
    <3>1. CASE a = <<>>
      <4>1. Len(c) <= Len(a) /\ Len(a) = 0
        BY <3>1, SkippedNoise DEF c
      <4> QED
        BY <1>4, <1>5, <4>1, SMT
    <3> QED
      BY <3>1
  <2>2. a[1] = Flag
    BY <2>1 DEF Noisy
  <2>3. Len(a) \in Nat \ {0}
    BY <2>1, EmptySeq
  <2>4. /\ 1 <= Len(a) /\ 1 \in 1 .. Len(a) + Len(x)
    BY <1>5, <2>3, SMT
  <2>5. (a \o x)[1] = a[1]
    BY <2>4, ConcatProperties
  <2> QED
    BY <2>2, <2>5 DEF Noisy
<1>12. Complete(e)
  BY <1>6, <1>8 DEF Complete
<1>13. /\ ~Waits(a \o x) /\ Front(a \o x) = SubSeq(c, 1, n) /\ Beyond(a \o x) = From(c, n + 1) \o x
  BY <1>3, <1>6, <1>9, <1>10, <1>12 DEF Waits, Front, Beyond, AfterFrame
<1>14. Beyond(a) = From(c, n + 1)
  BY DEF Beyond, AfterFrame, c, n
<1>15. ~Fails(policy, a \o x)
  <2>1. ~(policy = "ReportError" /\ Noisy(a))
    BY DEF Fails
  <2> QED
    BY <1>2, <1>3, <1>6, <1>11, <1>13, <2>1 DEF Fails
<1> QED
  BY <1>2, <1>13, <1>14, <1>15 DEF FirstFrame

\* Push can be called with chunks of any size: reading a, keeping its buffer and
\* reading x with it gives the frames, the buffer and the error that reading all
\* octets in one call would have given, once a was read without an error.
THEOREM ChunkingIrrelevant ==
    ASSUME NEW policy, NEW a \in Seq(Octet), NEW x \in Seq(Octet), Reading(policy)[a].ok
    PROVE  Reading(policy)[a \o x] =
               Continued(Reading(policy)[a], Reading(policy)[Reading(policy)[a].buffer \o x])
<1> DEFINE R(b) == Reading(policy)[b]
           Holds(b) == R(b \o x) = Continued(R(b), R(R(b).buffer \o x))
           S == {b \in Seq(Octet) : R(b).ok /\ ~Holds(b)}
<1>1. SUFFICES ASSUME S # {}
               PROVE  FALSE
  OBVIOUS
<1>2. PICK b \in S : \A d \in S : Len(b) <= Len(d)
  <2>1. S \in SUBSET Seq(Octet)
    OBVIOUS
  <2> HIDE DEF S
  <2> QED
    BY <1>1, <2>1, Shortest
<1>3. b \in Seq(Octet) /\ R(b).ok /\ ~Holds(b)
  BY <1>2
<1>4. \A d \in Seq(Octet) : Len(d) < Len(b) /\ R(d).ok => Holds(d)
  <2> TAKE d \in Seq(Octet)
  <2>1. Len(b) \in Nat /\ Len(d) \in Nat
    BY <1>3, LenProperties
  <2>2. Len(d) < Len(b) => ~(Len(b) <= Len(d))
    BY <2>1, SMT
  <2> HIDE DEF Holds
  <2> QED
    BY <1>2, <2>2
<1>5. R(b) = Round(policy, b, R(Beyond(b))) /\ R(b) \in Results
  BY <1>3, ReadingStep, ReadingResult
<1>6. b \o x \in Seq(Octet)
  BY <1>3, ConcatProperties
<1> HIDE DEF S, R
<1>7. ~Fails(policy, b)
  <2> SUFFICES ASSUME Fails(policy, b)
               PROVE  FALSE
    OBVIOUS
  <2>1. R(b) = ResetOnError
    BY <1>5 DEF Round
  <2> QED
    BY <1>3, <2>1 DEF ResetOnError
<1>8. CASE Waits(b)
  <2> DEFINE c == SkipNoise(b)
  <2>1. R(b) = Incomplete(c)
    BY <1>5, <1>7, <1>8 DEF Round
  <2>2. c \in Seq(Octet) /\ c \o x \in Seq(Octet)
    BY <1>3, SkippedNoise, ConcatProperties
  <2>3. R(b \o x) = R(c \o x)
    <3>1. CASE policy = "ReportError"
      <4>1. ~Noisy(b)
        BY <1>7, <3>1 DEF Fails
      <4>2. c = b
        <5>1. CASE b = <<>>
          <6>1. Len(c) <= 0 /\ Len(c) \in Nat
            BY <1>3, <5>1, SkippedNoise, LenProperties, EmptySeq
          <6>2. Len(c) = 0
            <7> HIDE DEF c
            <7> QED
              BY <6>1, SMT
          <6> QED
            BY <2>2, <5>1, <6>2, EmptySeq
        <5>2. CASE b # <<>>
          BY <1>3, <4>1, <5>2, NothingSkipped DEF Noisy
        <5> QED
          BY <5>1, <5>2
      <4> QED
        BY <4>2
    <3>2. CASE policy # "ReportError"
      <4>1. SkipNoise(b \o x) = SkipNoise(c \o x)
        BY <1>3, SkippedTwice
      <4> HIDE DEF c
      <4> QED
        BY <1>6, <2>2, <3>2, <4>1, SameBehindNoise DEF R
    <3> QED
      BY <3>1, <3>2
  <2>4. R(b).buffer = c /\ R(b).frames = <<>>
    BY <2>1 DEF Incomplete
  <2> HIDE DEF c
  <2>5. R(c \o x) \in Results
    BY <2>2, ReadingResult DEF R
  <2>6. <<>> \o R(c \o x).frames = R(c \o x).frames
    BY <2>5, ConcatEmptySeq DEF Results
  <2>7. Continued(R(b), R(c \o x)) = R(c \o x)
    <3> DEFINE s == R(c \o x)
    <3>1. s \in Results /\ <<>> \o s.frames = s.frames
      BY <2>5, <2>6
    <3> HIDE DEF s
    <3>2. [s EXCEPT !.frames = s.frames] = s
      BY <3>1 DEF Results
    <3>3. Continued(R(b), s) = s
      BY <2>4, <3>1, <3>2 DEF Continued
    <3> QED
      BY <3>3 DEF s
  <2> QED
    BY <1>3, <2>3, <2>4, <2>7
<1>9. CASE ~Waits(b)
  <2> DEFINE d == Beyond(b)
             f == <<FirstFrame(b)>>
  <2>1. d \in Seq(Octet) /\ Len(d) < Len(b)
    BY <1>3, <1>7, <1>9, Forward
  <2>2. f \in Seq(HdlcFrame)
    <3>1. FirstFrame(b) \in HdlcFrame
      BY <1>3, <1>7, <1>9, Forward, DecodedFrame DEF FirstFrame
    <3> QED
      BY <3>1
  <2>3. R(b) = [R(d) EXCEPT !.frames = f \o @]
    BY <1>5, <1>7, <1>9 DEF Round
  <2>4. /\ ~Fails(policy, b \o x) /\ ~Waits(b \o x)
        /\ FirstFrame(b \o x) = FirstFrame(b) /\ Beyond(b \o x) = d \o x
    BY <1>3, <1>7, <1>9, FirstStays
  <2>5. R(b \o x) = [R(d \o x) EXCEPT !.frames = f \o @]
    <3>1. R(b \o x) = Round(policy, b \o x, R(Beyond(b \o x)))
      BY <1>6, ReadingStep DEF R
    <3> HIDE DEF R
    <3>2. FirstFrame(b \o x) = FirstFrame(b) /\ R(Beyond(b \o x)) = R(d \o x)
      BY <2>4
    <3> HIDE DEF d
    <3> QED
      BY <2>4, <3>1, <3>2 DEF Round
  <2> HIDE DEF d, f
  <2>6. R(d) \in Results
    BY <2>1, ReadingResult DEF R
  <2>7. R(b).ok = R(d).ok /\ R(b).buffer = R(d).buffer /\ R(b).frames = f \o R(d).frames
    BY <2>3, <2>6 DEF Results
  <2> DEFINE g == R(d).frames
             s == R(R(d).buffer \o x)
  <2>8. R(d \o x) = Continued(R(d), s)
    BY <1>3, <1>4, <2>1, <2>7
  <2>9. s \in Results
    <3>1. R(d).buffer \in Seq(Octet)
      BY <2>6 DEF Results
    <3>2. R(d).buffer \o x \in Seq(Octet)
      BY <3>1, ConcatProperties
    <3> QED
      BY <3>2, ReadingResult DEF R
  <2>10. g \in Seq(HdlcFrame) /\ s.frames \in Seq(HdlcFrame)
    BY <2>6, <2>9 DEF Results
  <2>11. Holds(b) <=> R(b \o x) = [s EXCEPT !.frames = (f \o g) \o @]
    BY <2>7 DEF Continued
  <2>12. R(d \o x) = [s EXCEPT !.frames = g \o @]
    BY <2>8 DEF Continued
  <2> HIDE DEF g, s, Holds
  <2>13. f \o (g \o s.frames) = (f \o g) \o s.frames
    <3> DEFINE h == s.frames
    <3>1. h \in Seq(HdlcFrame)
      BY <2>10
    <3> HIDE DEF h
    <3>2. (f \o g) \o h = f \o (g \o h)
      BY <2>2, <2>10, <3>1, ConcatAssociative
    <3> QED
      BY <3>2 DEF h
  <2>14. R(b \o x) = [s EXCEPT !.frames = f \o (g \o s.frames)]
    BY <2>5, <2>9, <2>12 DEF Results
  <2>15. R(b \o x) = [s EXCEPT !.frames = (f \o g) \o s.frames]
    BY <2>13, <2>14
  <2> QED
    BY <1>3, <2>11, <2>15
<1> QED
  BY <1>8, <1>9

-----------------------------------------------------------------------------
(***************************************************************************)
(* What is sent.                                                           *)
(***************************************************************************)
\* A function may be defined by its value at zero and each next one from the last.
Recurs(f, n, V, e, g) ==
    f \in [0 .. n -> V] /\ f[0] = e /\ \A k \in 1 .. n : f[k] = g[k][f[k - 1]]

LEMMA Recursion ==
    ASSUME NEW n \in Nat, NEW V, NEW e \in V, NEW g \in [1 .. n -> [V -> V]]
    PROVE  \E f : Recurs(f, n, V, e, g)
<1> DEFINE Upto(k, f) == /\ f[0] = e
                         /\ \A i \in 1 .. k : f[i] = g[i][f[i - 1]]
                         /\ \A i \in 0 .. k : f[i] \in V
           S == {k \in Nat : k <= n => \E f : Upto(k, f)}
<1>1. 0 \in S
  <2> DEFINE f == [i \in {0} |-> e]
  <2>1. f[0] = e
    OBVIOUS
  <2> HIDE DEF f
  <2>2. \A i \in 0 .. 0 : i = 0
    BY SMT
  <2>3. ~(\E i \in 1 .. 0 : TRUE)
    BY SMT
  <2>4. Upto(0, f)
    BY <2>1, <2>2, <2>3
  <2> QED
    BY <2>4
<1>2. ASSUME NEW k \in S
      PROVE  k + 1 \in S
  <2>1. k \in Nat /\ k + 1 \in Nat
    <3>1. k \in Nat
      OBVIOUS
    <3> HIDE DEF S
    <3> QED
      BY <3>1, SMT
  <2> SUFFICES ASSUME k + 1 <= n
               PROVE  \E f : Upto(k + 1, f)
    BY <2>1
  <2>2. k <= n
    <3> HIDE DEF S
    <3> QED
      BY <2>1, SMT
  <2>3. PICK f : Upto(k, f)
    BY <2>2
  <2> DEFINE h == [i \in 0 .. k + 1 |-> IF i <= k THEN f[i] ELSE g[k + 1][f[k]]]
  <2> HIDE DEF S
  <2>4. /\ 0 \in 0 .. k + 1 /\ 0 <= k /\ k \in 0 .. k /\ k + 1 \in 1 .. n /\ k + 1 - 1 = k
        /\ k + 1 \in 0 .. k + 1 /\ ~(k + 1 <= k) /\ k \in 0 .. k + 1 /\ k <= k
    BY <2>1, SMT
  <2>5. \A i \in 1 .. k + 1 : i = k + 1 \/ (i \in 1 .. k /\ i \in 0 .. k + 1 /\ i <= k
                                            /\ i - 1 \in 0 .. k + 1 /\ i - 1 <= k)
    BY <2>1, SMT
  <2>6. \A i \in 0 .. k + 1 : i = k + 1 \/ (i \in 0 .. k /\ i <= k)
    BY <2>1, SMT
  <2>7. h[0] = f[0] /\ h[k] = f[k] /\ h[k + 1] = g[k + 1][f[k]]
    BY <2>4
  <2>8. \A i \in 0 .. k + 1 : i <= k => h[i] = f[i]
    OBVIOUS
  <2> HIDE DEF h
  <2>9. ASSUME NEW i \in 1 .. k + 1
        PROVE  h[i] = g[i][h[i - 1]]
    <3>1. CASE i = k + 1
      BY <2>4, <2>7, <3>1
    <3>2. CASE i \in 1 .. k /\ i \in 0 .. k + 1 /\ i <= k /\ i - 1 \in 0 .. k + 1 /\ i - 1 <= k
      BY <2>3, <2>8, <3>2
    <3> QED
      BY <2>5, <3>1, <3>2
  <2>10. ASSUME NEW i \in 0 .. k + 1
         PROVE  h[i] \in V
    <3>1. CASE i = k + 1
      BY <2>3, <2>4, <2>7, <3>1
    <3>2. CASE i \in 0 .. k /\ i <= k
      BY <2>3, <2>8, <3>2
    <3> QED
      BY <2>6, <3>1, <3>2
  <2>11. Upto(k + 1, h)
    BY <2>3, <2>7, <2>9, <2>10
  <2> QED
    BY <2>11
<1>3. S = Nat
  <2>1. S \subseteq Nat
    OBVIOUS
  <2> HIDE DEF S
  <2> QED
    BY <1>1, <1>2, <2>1, Induction
<1>4. n <= n
  BY SMT
<1>5. PICK f : Upto(n, f)
  BY <1>3, <1>4
<1> DEFINE h == [k \in 0 .. n |-> f[k]]
<1>6. 0 \in 0 .. n /\ \A k \in 0 .. n : k = 0 \/ (k # 0 /\ k \in 1 .. n /\ k - 1 \in 0 .. n)
  <2> HIDE DEF Upto, S, h
  <2> QED
    BY SMT
<1>7. h \in [0 .. n -> V]
  BY <1>5
<1>8. h[0] = e /\ \A k \in 1 .. n : h[k] = g[k][h[k - 1]]
  <2>1. \A k \in 1 .. n : k \in 0 .. n /\ k - 1 \in 0 .. n
    <3> HIDE DEF Upto, S, h
    <3> QED
      BY SMT
  <2> QED
    BY <1>5, <1>6, <2>1
<1> HIDE DEF h
<1> QED
  BY <1>7, <1>8 DEF Recurs

\* Its values are what the step makes them.
LEMMA RecursionValues ==
    ASSUME NEW n \in Nat, NEW V, NEW f, f[0] \in V,
           \A k \in 1 .. n : f[k - 1] \in V => f[k] \in V
    PROVE  \A k \in 0 .. n : f[k] \in V
<1> DEFINE S == {k \in Nat : k <= n => f[k] \in V}
<1>1. 0 \in S
  OBVIOUS
<1>2. ASSUME NEW k \in S
      PROVE  k + 1 \in S
  <2>1. k \in Nat /\ (k <= n => f[k] \in V)
    OBVIOUS
  <2> HIDE DEF S
  <2>2. k + 1 \in Nat /\ (k + 1 <= n => k <= n /\ k + 1 \in 1 .. n /\ k + 1 - 1 = k)
    BY <2>1, SMT
  <2>3. k + 1 <= n => f[k + 1] \in V
    BY <2>1, <2>2
  <2> QED
    BY <2>2, <2>3 DEF S
<1>3. S \subseteq Nat
  OBVIOUS
<1>4. S = Nat
  <2> HIDE DEF S
  <2> QED
    BY <1>1, <1>2, <1>3, Induction
<1>5. \A k \in 0 .. n : k \in Nat /\ k <= n
  <2> HIDE DEF S
  <2> QED
    BY SMT
<1> QED
  BY <1>4, <1>5

\* Transmission is a sequence of sequences of octets.
LEMMA TransmissionType ==
    /\ Len(Transmission) \in Nat
    /\ \A k \in 1 .. Len(Transmission) : Transmission[k] \in Seq(Octet)
    /\ DOMAIN Transmission = 1 .. Len(Transmission)
<1>1. Transmission \in Seq(Seq(Octet))
  BY StreamAssumption
<1> QED
  BY <1>1, ElementOfSeq, LenProperties

\* Octets satisfies its recursive definition.
LEMMA NextOctets ==
    /\ Octets[0] = <<>>
    /\ \A k \in 1 .. Len(Transmission) : Octets[k] = Octets[k - 1] \o Transmission[k]
    /\ \A k \in 0 .. Len(Transmission) : Octets[k] \in Seq(Octet)
<1> DEFINE n == Len(Transmission)
           V == Seq(Octet)
           g == [i \in 1 .. n |-> [v \in V |-> v \o Transmission[i]]]
<1>1. \A i \in 1 .. n, v \in V : g[i][v] = v \o Transmission[i] /\ g[i][v] \in V
  BY TransmissionType, ConcatProperties
<1>0. g \in [1 .. n -> [V -> V]]
  BY TransmissionType, ConcatProperties
<1>2. <<>> \in V /\ n \in Nat
  BY EmptySeq, TransmissionType
<1>3. \A k \in 0 .. n : k # 0 => k \in 1 .. n /\ k - 1 \in 0 .. n
  BY <1>2, SMT
<1> HIDE DEF g, V, n
<1>4. PICK f : Recurs(f, n, V, <<>>, g)
  BY <1>0, <1>2, Recursion
<1>5. \A k \in 0 .. n : f[k] = IF k = 0 THEN <<>> ELSE f[k - 1] \o Transmission[k]
  BY <1>1, <1>3, <1>4 DEF Recurs
<1>6. f = [k \in 0 .. n |-> IF k = 0 THEN <<>> ELSE f[k - 1] \o Transmission[k]]
  <2>1. f = [k \in 0 .. n |-> f[k]]
    BY <1>4 DEF Recurs
  <2> QED
    BY <1>5, <2>1
<1>7. Octets = CHOOSE o : o = [k \in 0 .. n |-> IF k = 0 THEN <<>> ELSE o[k - 1] \o Transmission[k]]
  BY DEF Octets, n
<1>8. Octets = [k \in 0 .. n |-> IF k = 0 THEN <<>> ELSE Octets[k - 1] \o Transmission[k]]
  BY <1>6, <1>7
<1>9. 0 \in 0 .. n /\ \A k \in 1 .. n : k \in 0 .. n /\ k # 0
  BY <1>2, SMT
<1>10. Octets[0] = <<>> /\ \A k \in 1 .. n : Octets[k] = Octets[k - 1] \o Transmission[k]
  BY <1>8, <1>9
<1>11. \A k \in 0 .. n : Octets[k] \in V
  <2>1. Octets[0] \in V
    BY <1>2, <1>10
  <2>2. \A k \in 1 .. n : Octets[k - 1] \in V => Octets[k] \in V
    BY <1>1, <1>10
  <2> QED
    BY <1>2, <2>1, <2>2, RecursionValues
<1> QED
  BY <1>10, <1>11 DEF n, V

\* A transmission that decodes is one of a frame.
LEMMA SentFrameIs ==
    ASSUME NEW k \in 1 .. Len(Transmission)
    PROVE  /\ SentFrame[k] = DecodeFrame(Transmission[k], Limits)
           /\ SentFrame[k].status = "Ok" => SentFrame[k].frame \in HdlcFrame
<1>1. Transmission[k] \in Seq(Octet) /\ k \in DOMAIN Transmission
  BY TransmissionType
<1>2. SentFrame[k] = DecodeFrame(Transmission[k], Limits)
  BY <1>1 DEF SentFrame
<1> QED
  BY <1>1, <1>2, DecodedFrame

\* FramesOf satisfies its recursive definition.
LEMMA NextFrames ==
    /\ FramesOf[0] = <<>>
    /\ \A k \in 1 .. Len(Transmission) :
          FramesOf[k] = IF SentFrame[k].status = "Ok" THEN FramesOf[k - 1] \o <<SentFrame[k].frame>>
                        ELSE FramesOf[k - 1]
    /\ \A k \in 0 .. Len(Transmission) : FramesOf[k] \in Seq(HdlcFrame)
<1> DEFINE n == Len(Transmission)
           V == Seq(HdlcFrame)
           Longer(v, i) == IF SentFrame[i].status = "Ok" THEN Append(v, SentFrame[i].frame) ELSE v
           g == [i \in 1 .. n |-> [v \in V |-> Longer(v, i)]]
<1>1. ASSUME NEW i \in 1 .. n, NEW v \in V
      PROVE  /\ Longer(v, i) \in V
             /\ Longer(v, i) = IF SentFrame[i].status = "Ok" THEN v \o <<SentFrame[i].frame>> ELSE v
  <2>1. CASE SentFrame[i].status = "Ok"
    <3>1. SentFrame[i].frame \in HdlcFrame
      BY <2>1, SentFrameIs
    <3>2. Append(v, SentFrame[i].frame) = v \o <<SentFrame[i].frame>>
      BY <3>1, AppendIsConcat
    <3>3. <<SentFrame[i].frame>> \in Seq(HdlcFrame)
      BY <3>1
    <3>4. v \o <<SentFrame[i].frame>> \in V
      BY <3>3, ConcatProperties
    <3> QED
      BY <2>1, <3>2, <3>4
  <2>2. CASE SentFrame[i].status # "Ok"
    BY <2>2
  <2> QED
    BY <2>1, <2>2
<1>2. g \in [1 .. n -> [V -> V]] /\ \A i \in 1 .. n, v \in V : g[i][v] = Longer(v, i)
  <2> HIDE DEF V, Longer, n
  <2> QED
    BY <1>1
<1>3. <<>> \in V /\ n \in Nat
  BY EmptySeq, TransmissionType
<1>4. \A k \in 0 .. n : k # 0 => k \in 1 .. n /\ k - 1 \in 0 .. n
  <2> HIDE DEF V, g, n
  <2> QED
    BY <1>3, SMT
<1> HIDE DEF g, V, n
<1>5. PICK f : Recurs(f, n, V, <<>>, g)
  BY <1>2, <1>3, Recursion
<1> HIDE DEF Longer
<1>6. \A k \in 0 .. n : f[k] = IF k = 0 THEN <<>> ELSE Longer(f[k - 1], k)
  BY <1>2, <1>4, <1>5 DEF Recurs
<1>7. f = [k \in 0 .. n |-> IF k = 0 THEN <<>> ELSE Longer(f[k - 1], k)]
  <2>1. f = [k \in 0 .. n |-> f[k]]
    BY <1>5 DEF Recurs
  <2> QED
    BY <1>6, <2>1
<1>8. FramesOf = CHOOSE o : o = [k \in 0 .. n |-> IF k = 0 THEN <<>> ELSE Longer(o[k - 1], k)]
  BY DEF FramesOf, n, Longer
<1>9. FramesOf = [k \in 0 .. n |-> IF k = 0 THEN <<>> ELSE Longer(FramesOf[k - 1], k)]
  BY <1>7, <1>8
<1>10. 0 \in 0 .. n /\ \A k \in 1 .. n : k \in 0 .. n /\ k # 0
  BY <1>3, SMT
<1>11. FramesOf[0] = <<>> /\ \A k \in 1 .. n : FramesOf[k] = Longer(FramesOf[k - 1], k)
  BY <1>9, <1>10
<1>12. \A k \in 0 .. n : FramesOf[k] \in V
  <2>1. FramesOf[0] \in V
    BY <1>3, <1>11
  <2>2. \A k \in 1 .. n : FramesOf[k - 1] \in V => FramesOf[k] \in V
    BY <1>1, <1>11
  <2> QED
    BY <1>3, <2>1, <2>2, RecursionValues
<1>13. ASSUME NEW k \in 1 .. n
       PROVE  FramesOf[k] = IF SentFrame[k].status = "Ok"
                            THEN FramesOf[k - 1] \o <<SentFrame[k].frame>>
                            ELSE FramesOf[k - 1]
  <2>1. k - 1 \in 0 .. n
    BY <1>4, <1>10
  <2> QED
    BY <1>1, <1>11, <1>12, <2>1
<1> QED
  BY <1>11, <1>12, <1>13 DEF n, V

\* Whatever was sent first, the rest follows.
LEMMA RestFollows ==
    ASSUME NEW k \in 0 .. Len(Transmission)
    PROVE  \E z \in Seq(Octet) : Octets[Len(Transmission)] = Octets[k] \o z
<1> DEFINE n == Len(Transmission)
           S == {j \in Nat : j <= n => \E z \in Seq(Octet) : Octets[n] = Octets[n - j] \o z}
<1>1. n \in Nat
  BY TransmissionType
<1> HIDE DEF n
<1>2. 0 \in S
  <2>1. n - 0 = n /\ n \in 0 .. n
    BY <1>1, SMT
  <2>2. Octets[n] \in Seq(Octet)
    BY <2>1, NextOctets DEF n
  <2>3. Octets[n] = Octets[n - 0] \o <<>> /\ <<>> \in Seq(Octet)
    BY <2>1, <2>2, ConcatEmptySeq, EmptySeq
  <2> QED
    BY <2>3
<1>3. ASSUME NEW j \in S
      PROVE  j + 1 \in S
  <2>1. j \in Nat /\ (j <= n => \E z \in Seq(Octet) : Octets[n] = Octets[n - j] \o z)
    OBVIOUS
  <2> HIDE DEF S
  <2>2. j + 1 \in Nat
    BY <2>1, SMT
  <2>3. ASSUME j + 1 <= n
        PROVE  \E z \in Seq(Octet) : Octets[n] = Octets[n - (j + 1)] \o z
    <3>1. j <= n /\ n - j \in 1 .. n /\ n - j - 1 = n - (j + 1) /\ n - (j + 1) \in 0 .. n
      BY <1>1, <2>1, <2>3, SMT
    <3>2. PICK z \in Seq(Octet) : Octets[n] = Octets[n - j] \o z
      BY <2>1, <3>1
    <3> DEFINE o == Octets[n - (j + 1)]
               t == Transmission[n - j]
    <3>3. Octets[n - j] = o \o t /\ o \in Seq(Octet) /\ t \in Seq(Octet)
      BY <3>1, NextOctets, TransmissionType DEF n
    <3> HIDE DEF o, t
    <3>4. (o \o t) \o z = o \o (t \o z) /\ t \o z \in Seq(Octet)
      BY <3>3, Joined
    <3>5. Octets[n] = o \o (t \o z)
      BY <3>2, <3>3, <3>4
    <3> QED
      BY <3>4, <3>5 DEF o
  <2> QED
    BY <2>2, <2>3 DEF S
<1>4. S \subseteq Nat
  OBVIOUS
<1>5. S = Nat
  <2> HIDE DEF S
  <2> QED
    BY <1>2, <1>3, <1>4, Induction
<1>6. n - k \in Nat /\ n - k <= n /\ n - (n - k) = k
  <2> k \in 0 .. n
    BY DEF n
  <2> HIDE DEF S
  <2> QED
    BY <1>1, SMT
<1> QED
  BY <1>5, <1>6 DEF n

-----------------------------------------------------------------------------
(***************************************************************************)
(* Reading what is sent.                                                   *)
(***************************************************************************)
Ignoring == Reading("IgnoreUntilOpeningFlag")

SamePrefix(p, a, y, l, b) == p = a \o y /\ p \o l = a \o b => y \o l = b

\* After the same octets follow the same octets.
LEMMA SamePrefixHolds ==
    ASSUME NEW a \in Seq(Octet), NEW y \in Seq(Octet), NEW l \in Seq(Octet), NEW b \in Seq(Octet),
           NEW p
    PROVE  SamePrefix(p, a, y, l, b)
<1> SUFFICES ASSUME p = a \o y, p \o l = a \o b
             PROVE  y \o l = b
  BY DEF SamePrefix
<1> DEFINE c == y \o l
<1>1. c \in Seq(Octet) /\ a \o c = a \o b
  <2>1. (a \o y) \o l = a \o b
    OBVIOUS
  <2> QED
    BY <2>1, Joined
<1> HIDE DEF c
<1>2. c = b
  BY <1>1, ConcatSimplifications
<1> QED
  BY <1>2 DEF c

\* Two ways to cut the same octets.
Overlap(p, l, a, b) ==
    p \o l = a \o b /\ Len(a) <= Len(p) => \E y \in Seq(Octet) : p = a \o y /\ y \o l = b

LEMMA OverlapHolds ==
    ASSUME NEW p \in Seq(Octet), NEW l \in Seq(Octet), NEW a \in Seq(Octet), NEW b \in Seq(Octet)
    PROVE  Overlap(p, l, a, b)
<1> SUFFICES ASSUME p \o l = a \o b, Len(a) <= Len(p)
             PROVE  \E y \in Seq(Octet) : p = a \o y /\ y \o l = b
  BY DEF Overlap
<1> DEFINE n == Len(a)
           u == SubSeq(p, 1, n)
           y == SubSeq(p, n + 1, Len(p))
<1>1. Len(p) \in Nat /\ n \in Nat /\ Len(l) \in Nat /\ Len(b) \in Nat
  BY LenProperties
<1>2. /\ 1 \in 1 .. Len(p) + 1 /\ n \in 1 - 1 .. Len(p) /\ Len(p) \in n .. Len(p)
      /\ 1 \in Int /\ n \in Int /\ n + 1 \in Nat \ {0}
  BY <1>1, SMT
<1>3. u \o y = p
  <2>1. u \o y = SubSeq(p, 1, Len(p))
    BY <1>2, ConcatAdjacentSubSeq
  <2> QED
    BY <2>1, SubSeqFull
<1>4. y \in Seq(Octet)
  BY <1>2, Behind DEF From
<1>5. \A i \in 1 .. n : i \in 1 .. Len(p) /\ i \in 1 .. Len(p) + Len(l) /\ i \in 1 .. n + Len(b)
                        /\ i <= Len(p) /\ i <= n /\ 1 + i - 1 = i
  BY <1>1, SMT
<1>6. u \in Seq(Octet) /\ Len(u) = n /\ \A i \in 1 .. n : u[i] = p[i]
  <2>1. \A i \in 1 .. n : p[i] \in Octet
    BY <1>5, ElementOfSeq
  <2>2. /\ u \in Seq(Octet) /\ Len(u) = (IF 1 <= n THEN n - 1 + 1 ELSE 0)
        /\ \A i \in 1 .. n - 1 + 1 : u[i] = p[1 + i - 1]
    BY <1>2, <2>1, SubSeqProperties
  <2> HIDE DEF u, n
  <2>3. n - 1 + 1 = n /\ (IF 1 <= n THEN n - 1 + 1 ELSE 0) = n
    BY <1>1, SMT
  <2> QED
    BY <1>5, <2>2, <2>3
<1>7. ASSUME NEW i \in 1 .. n
      PROVE  u[i] = a[i]
  <2>1. (p \o l)[i] = p[i]
    BY <1>5, ConcatProperties
  <2>2. (a \o b)[i] = a[i]
    BY <1>5, ConcatProperties
  <2> QED
    BY <1>6, <2>1, <2>2
<1>8. u = a
  <2> HIDE DEF u
  <2> QED
    BY <1>6, <1>7, SeqEqual
<1> HIDE DEF u, y
<1>9. PICK z \in Seq(Octet) : p = a \o z
  BY <1>3, <1>4, <1>8
<1>10. z \o l = b
  <2>1. SamePrefix(p, a, z, l, b)
    BY SamePrefixHolds
  <2> QED
    BY <1>9, <2>1 DEF SamePrefix
<1> QED
  BY <1>9, <1>10

\* The empty buffer is neither complete nor refused.
LEMMA ShortWaits == ~Complete(<<>>) /\ ~Refused(<<>>)
<1>1. ~(Len(<<>>) >= 3)
  BY SMT
<1> QED
  BY <1>1 DEF Complete, Refused

\* Noise leaves no trace.
LEMMA NoiseRead ==
    ASSUME NEW b \in Seq(Octet), \A i \in DOMAIN b : b[i] # Flag
    PROVE  Ignoring[b] = Incomplete(<<>>)
<1>1. SkipNoise(b) = <<>>
  <2>1. Flags(b) = {}
    BY DEF Flags
  <2> QED
    BY <2>1, SkippedNoise
<1>2. ~Fails("IgnoreUntilOpeningFlag", b) /\ Waits(b)
  BY <1>1, ShortWaits DEF Fails, Waits
<1> QED
  BY <1>1, <1>2, ReadingStep DEF Round, Ignoring

\* A frame that is all there is taken, and nothing else.
LEMMA FrameRead ==
    ASSUME NEW t \in Seq(Octet), DecodeFrame(t, Limits).status = "Ok"
    PROVE  Ignoring[t] =
               [ok |-> TRUE, buffer |-> <<>>, frames |-> <<DecodeFrame(t, Limits).frame>>]
<1>1. /\ t[1] = Flag /\ ~Refused(t) /\ Len(t) = FullFrameSize(t) /\ Complete(t) /\ Len(t) >= 4
  BY DecodedFrame, FormatOk
<1>2. t # <<>>
  <2>1. CASE t = <<>>
    <3>1. Len(t) = 0
      BY <2>1, EmptySeq
    <3> QED
      BY <1>1, <3>1, SMT
  <2> QED
    BY <2>1
<1>3. SkipNoise(t) = t
  BY <1>1, <1>2, NothingSkipped
<1>4. Front(t) = t
  BY <1>1, <1>3, SubSeqFull DEF Front
<1>5. /\ ~Fails("IgnoreUntilOpeningFlag", t) /\ ~Waits(t)
      /\ FirstFrame(t) = DecodeFrame(t, Limits).frame
  BY <1>1, <1>3, <1>4 DEF Fails, Waits, FirstFrame
<1>6. Beyond(t) = <<>>
  <2>1. Len(t) \in Nat
    BY LenProperties
  <2>2. Len(t) + 1 \in Nat \ {0} /\ Len(t) + 1 > Len(t)
    BY <2>1, SMT
  <2>3. From(t, Len(t) + 1) = <<>>
    BY <2>2, Behind
  <2> QED
    BY <1>1, <1>3, <2>3 DEF Beyond, AfterFrame
<1>7. Ignoring[<<>>] = Incomplete(<<>>)
  <2>1. <<>> \in Seq(Octet) /\ \A i \in DOMAIN <<>> : FALSE
    BY EmptySeq
  <2> QED
    BY <2>1, NoiseRead
<1>8. Ignoring[t] = [Ignoring[<<>>] EXCEPT !.frames = <<FirstFrame(t)>> \o @]
  <2>1. Ignoring[t] = Round("IgnoreUntilOpeningFlag", t, Ignoring[Beyond(t)])
    BY ReadingStep DEF Ignoring
  <2>2. Ignoring[Beyond(t)] = Ignoring[<<>>]
    BY <1>6
  <2> HIDE DEF Ignoring
  <2>3. Round("IgnoreUntilOpeningFlag", t, Ignoring[<<>>])
            = [Ignoring[<<>>] EXCEPT !.frames = <<FirstFrame(t)>> \o @]
    BY <1>5 DEF Round
  <2> QED
    BY <2>1, <2>2, <2>3
<1>9. <<FirstFrame(t)>> \o <<>> = <<FirstFrame(t)>>
  <2>1. FirstFrame(t) \in HdlcFrame
    BY <1>5, DecodedFrame
  <2> HIDE DEF FirstFrame
  <2>2. <<FirstFrame(t)>> \in Seq(HdlcFrame)
    BY <2>1
  <2> QED
    BY <2>2, ConcatEmptySeq
<1> HIDE DEF Ignoring
<1>10. Ignoring[t] = [ok |-> TRUE, buffer |-> <<>>, frames |-> <<FirstFrame(t)>> \o <<>>]
  <2> DEFINE f == <<FirstFrame(t)>>
             e == <<>>
             r == Ignoring[<<>>]
  <2>1. r = [ok |-> TRUE, buffer |-> e, frames |-> e] /\ Ignoring[t] = [r EXCEPT !.frames = f \o @]
    BY <1>7, <1>8 DEF Incomplete
  <2> HIDE DEF f, e, r
  <2>2. Ignoring[t] = [ok |-> TRUE, buffer |-> e, frames |-> f \o e]
    BY <2>1
  <2> QED
    BY <2>2 DEF f, e
<1> QED
  BY <1>5, <1>9, <1>10

\* A frame of which octets are missing is waited for.
LEMMA PartRead ==
    ASSUME NEW y \in Seq(Octet), NEW z \in Seq(Octet), Len(y) < Len(y \o z),
           DecodeFrame(y \o z, Limits).status = "Ok"
    PROVE  Ignoring[y] = Incomplete(y)
<1> DEFINE t == y \o z
<1>1. t \in Seq(Octet) /\ Len(t) = Len(y) + Len(z) /\ Len(y) \in Nat /\ Len(z) \in Nat
  BY ConcatProperties, LenProperties
<1>2. /\ t[1] = Flag /\ ~Refused(t) /\ Len(t) = FullFrameSize(t)
  BY <1>1, DecodedFrame, FormatOk
<1>3. SkipNoise(y) = y
  <2>1. CASE y = <<>>
    <3>1. \A i \in DOMAIN <<>> : FALSE
      OBVIOUS
    <3>2. Flags(y) = {}
      BY <2>1, <3>1 DEF Flags
    <3> QED
      BY <2>1, <3>2, SkippedNoise
  <2>2. CASE y # <<>>
    <3>1. Len(y) \in Nat \ {0}
      BY <2>2, EmptySeq
    <3>2. 1 \in 1 .. Len(y) + Len(z) /\ 1 <= Len(y)
      BY <1>1, <3>1, SMT
    <3>3. y[1] = Flag
      BY <1>2, <3>2, ConcatProperties
    <3> QED
      BY <2>2, <3>3, NothingSkipped
  <2> QED
    BY <2>1, <2>2
<1>4. ~Complete(y) /\ ~Refused(y)
  <2>1. CASE Len(y) >= 3
    <3>1. FullFrameSize(t) = FullFrameSize(y) /\ Refused(t) = Refused(y) /\ FullFrameSize(y) \in Nat
      BY <2>1, FormatKept, FormatNumbers
    <3>2. ~(Len(y) >= FullFrameSize(y))
      BY <1>1, <1>2, <3>1, SMT
    <3> QED
      BY <1>2, <3>1, <3>2 DEF Complete
  <2>2. CASE ~(Len(y) >= 3)
    BY <2>2 DEF Complete, Refused
  <2> QED
    BY <2>1, <2>2
<1>5. ~Fails("IgnoreUntilOpeningFlag", y) /\ Waits(y)
  BY <1>3, <1>4 DEF Fails, Waits
<1> QED
  BY <1>3, <1>5, ReadingStep DEF Round, Ignoring

Result(ok, e, g) == [ok |-> ok, buffer |-> e, frames |-> g]

\* A result continued, field by field.
LEMMA ContinuedResult ==
    ASSUME NEW r, NEW ok, NEW e, NEW g
    PROVE  Continued(r, Result(ok, e, g)) = Result(ok, e, r.frames \o g)
<1>1. ASSUME NEW h
      PROVE  [Result(ok, e, g) EXCEPT !.frames = h] = Result(ok, e, h)
  BY DEF Result
<1>2. Result(ok, e, g).frames = g
  BY DEF Result
<1> QED
  BY <1>1, <1>2 DEF Continued

\* No octets, no frame.
LEMMA NothingRead == <<>> \in Seq(Octet) /\ Ignoring[<<>>] = Incomplete(<<>>)
<1>1. <<>> \in Seq(Octet) /\ \A i \in DOMAIN <<>> : FALSE
  BY EmptySeq
<1> QED
  BY <1>1, NoiseRead

\* One transmission, and a part of it.
LEMMA TransmissionRead ==
    ASSUME FramesAndNoise, NEW k \in 1 .. Len(Transmission)
    PROVE  Ignoring[Transmission[k]] =
               [ok |-> TRUE, buffer |-> <<>>,
                frames |-> IF SentFrame[k].status = "Ok" THEN <<SentFrame[k].frame>> ELSE <<>>]
<1>1. Transmission[k] \in Seq(Octet) /\ SentFrame[k] = DecodeFrame(Transmission[k], Limits)
  BY TransmissionType, SentFrameIs
<1>2. CASE SentFrame[k].status = "Ok"
  BY <1>1, <1>2, FrameRead
<1>3. CASE SentFrame[k].status # "Ok"
  <2>1. \A i \in DOMAIN Transmission[k] : Transmission[k][i] # Flag
    BY <1>3, TransmissionType DEF FramesAndNoise
  <2> QED
    BY <1>1, <1>3, <2>1, NoiseRead DEF Incomplete
<1> QED
  BY <1>2, <1>3

\* A part of a transmission gives no frame and no error.
LEMMA PartOfTransmission ==
    ASSUME FramesAndNoise, NEW k \in 1 .. Len(Transmission),
           NEW y \in Seq(Octet), NEW z \in Seq(Octet),
           Transmission[k] = y \o z, Len(y) < Len(Transmission[k])
    PROVE  Ignoring[y].ok /\ Ignoring[y].frames = <<>>
<1>1. SentFrame[k] = DecodeFrame(y \o z, Limits)
  BY SentFrameIs
<1>2. CASE SentFrame[k].status = "Ok"
  <2>1. Len(y) < Len(y \o z)
    OBVIOUS
  <2>2. Ignoring[y] = Incomplete(y)
    BY <1>1, <1>2, <2>1, PartRead
  <2> QED
    BY <2>2 DEF Incomplete
<1>3. CASE SentFrame[k].status # "Ok"
  <2>1. \A i \in DOMAIN Transmission[k] : Transmission[k][i] # Flag
    BY <1>3, TransmissionType DEF FramesAndNoise
  <2>2. /\ Len(y) \in Nat /\ Len(z) \in Nat /\ DOMAIN y = 1 .. Len(y)
        /\ DOMAIN Transmission[k] = 1 .. Len(Transmission[k])
        /\ Len(Transmission[k]) = Len(y) + Len(z)
    BY LenProperties, ConcatProperties, TransmissionType
  <2>3. \A i \in DOMAIN y : y[i] # Flag
    <3> TAKE i \in DOMAIN y
    <3>1. i \in 1 .. Len(y) + Len(z) /\ i <= Len(y)
      BY <2>2, SMT
    <3>2. Transmission[k][i] = y[i]
      BY <3>1, ConcatProperties
    <3> QED
      BY <2>1, <2>2, <3>1, <3>2
  <2>4. Ignoring[y] = Incomplete(<<>>)
    BY <2>3, NoiseRead
  <2> QED
    BY <2>4 DEF Incomplete
<1> QED
  BY <1>2, <1>3

\* The first transmissions give the frames among them.
LEMMA WholeRead ==
    ASSUME FramesAndNoise
    PROVE  \A k \in 0 .. Len(Transmission) :
               Ignoring[Octets[k]] = [ok |-> TRUE, buffer |-> <<>>, frames |-> FramesOf[k]]
<1> DEFINE n == Len(Transmission)
           Holds(k) == Ignoring[Octets[k]] = [ok |-> TRUE, buffer |-> <<>>, frames |-> FramesOf[k]]
           S == {k \in Nat : k <= n => Holds(k)}
<1>1. Holds(0)
  BY NothingRead, NextOctets, NextFrames DEF Incomplete
<1>2. ASSUME NEW k \in 1 .. n, Holds(k - 1)
      PROVE  Holds(k)
  <2> DEFINE o == Octets[k - 1]
             t == Transmission[k]
             f == FramesOf[k - 1]
             g == IF SentFrame[k].status = "Ok" THEN <<SentFrame[k].frame>> ELSE <<>>
  <2>1. n \in Nat /\ k - 1 \in 0 .. n
    <3>1. n \in Nat
      BY TransmissionType
    <3> HIDE DEF n, Holds
    <3> QED
      BY <3>1, SMT
  <2>2. Octets[k] = o \o t /\ o \in Seq(Octet) /\ t \in Seq(Octet)
    BY <2>1, NextOctets, TransmissionType
  <2>3. f \in Seq(HdlcFrame) /\ FramesOf[k] = f \o g
    <3>1. f \in Seq(HdlcFrame)
      BY <2>1, NextFrames
    <3>2. f \o <<>> = f
      BY <3>1, ConcatEmptySeq
    <3> QED
      BY <3>1, <3>2, NextFrames
  <2>4. Ignoring[o] = [ok |-> TRUE, buffer |-> <<>>, frames |-> f]
    BY <1>2
  <2>5. Ignoring[t] = [ok |-> TRUE, buffer |-> <<>>, frames |-> g]
    BY TransmissionRead
  <2>6. <<>> \o t = t
    BY <2>2, ConcatEmptySeq
  <2> HIDE DEF o, t, f, g, Holds, S
  <2>7. Ignoring[o].ok /\ Ignoring[o].buffer = <<>>
    BY <2>4
  <2>8. Ignoring[o \o t] = Continued(Ignoring[o], Ignoring[Ignoring[o].buffer \o t])
    BY <2>2, <2>7, ChunkingIrrelevant DEF Ignoring
  <2>9. Ignoring[Ignoring[o].buffer \o t] = Ignoring[t]
    BY <2>6, <2>7
  <2>10. Ignoring[o \o t] = [ok |-> TRUE, buffer |-> <<>>, frames |-> f \o g]
    <3> HIDE DEF Ignoring
    <3>1. Ignoring[o \o t] = Continued(Ignoring[o], Ignoring[t])
      BY <2>8, <2>9
    <3> DEFINE e == <<>>
               yes == TRUE
    <3>2. Ignoring[t] = Result(yes, e, g) /\ Ignoring[o].frames = f
      BY <2>4, <2>5 DEF Result
    <3> HIDE DEF e, yes
    <3>3. Ignoring[o \o t] = Result(yes, e, f \o g)
      BY <3>1, <3>2, ContinuedResult
    <3> QED
      BY <3>3 DEF e, yes, Result
  <2> QED
    BY <2>2, <2>3, <2>10 DEF Holds
<1>3. n \in Nat
  BY TransmissionType
<1> HIDE DEF n, Holds
<1>4. 0 \in S
  BY <1>1
<1>5. ASSUME NEW j \in S
      PROVE  j + 1 \in S
  <2>1. j \in Nat /\ (j <= n => Holds(j))
    OBVIOUS
  <2> HIDE DEF S
  <2>2. j + 1 \in Nat /\ (j + 1 <= n => j <= n /\ j + 1 \in 1 .. n /\ j + 1 - 1 = j)
    BY <1>3, <2>1, SMT
  <2>3. j + 1 <= n => Holds(j + 1)
    BY <1>2, <2>1, <2>2
  <2> QED
    BY <2>2, <2>3 DEF S
<1>6. S \subseteq Nat
  OBVIOUS
<1>7. S = Nat
  <2> HIDE DEF S
  <2> QED
    BY <1>4, <1>5, <1>6, Induction
<1>8. \A k \in 0 .. n : k \in Nat /\ k <= n
  <2> HIDE DEF S
  <2> QED
    BY <1>3, SMT
<1>9. \A k \in 0 .. n : Holds(k)
  BY <1>7, <1>8
<1> QED
  BY <1>9 DEF Holds, n

\* Octets of the line up to a place in transmission k + 1, or to the end.
LEMMA ReadUpTo ==
    ASSUME FramesAndNoise, NEW k \in 0 .. Len(Transmission),
           NEW p \in Seq(Octet), NEW l \in Seq(Octet), p \o l = Octets[Len(Transmission)],
           Len(Octets[k]) <= Len(p), k < Len(Transmission) => Len(p) < Len(Octets[k + 1])
    PROVE  Ignoring[p].ok /\ Ignoring[p].frames = FramesOf[k]
<1> DEFINE n == Len(Transmission)
           o == Octets[k]
           f == FramesOf[k]
<1>1. n \in Nat /\ k \in Nat /\ k <= n
  <2>1. n \in Nat /\ k \in 0 .. n
    BY TransmissionType
  <2> HIDE DEF n
  <2> QED
    BY <2>1, SMT
<1>2. o \in Seq(Octet) /\ f \in Seq(HdlcFrame)
  BY NextOctets, NextFrames
<1>3. Ignoring[o].ok /\ Ignoring[o].buffer = <<>> /\ Ignoring[o].frames = f
  <2>1. Ignoring[o] = [ok |-> TRUE, buffer |-> <<>>, frames |-> f]
    BY WholeRead
  <2> HIDE DEF o, f, Ignoring
  <2> QED
    BY <2>1
<1>4. PICK b \in Seq(Octet) : Octets[n] = o \o b
  BY RestFollows
<1>5. PICK y \in Seq(Octet) : p = o \o y /\ y \o l = b
  <2>1. p \o l = o \o b
    BY <1>4
  <2>2. Len(o) <= Len(p)
    OBVIOUS
  <2> HIDE DEF o
  <2>3. Overlap(p, l, o, b)
    BY <1>2, OverlapHolds
  <2> QED
    BY <2>1, <2>2, <2>3 DEF Overlap
<1>6. /\ Len(p) = Len(o) + Len(y) /\ Len(o) \in Nat /\ Len(y) \in Nat
      /\ Len(l) \in Nat /\ Len(b) \in Nat
  BY <1>2, <1>4, <1>5, ConcatProperties, LenProperties
<1>7. Ignoring[y].ok /\ Ignoring[y].frames = <<>>
  <2>1. CASE k < n
    <3> DEFINE t == Transmission[k + 1]
    <3>1. k + 1 \in 1 .. n /\ k + 1 - 1 = k
      <4> HIDE DEF n
      <4> QED
        BY <1>1, <2>1, SMT
    <3>2. t \in Seq(Octet) /\ Octets[k + 1] = o \o t
      <4> DEFINE m == k + 1
      <4>1. m \in 1 .. Len(Transmission) /\ m - 1 = k
        BY <3>1
      <4> HIDE DEF m
      <4>2. Octets[m] = Octets[m - 1] \o Transmission[m] /\ Transmission[m] \in Seq(Octet)
        BY <4>1, NextOctets, TransmissionType
      <4> QED
        BY <4>1, <4>2 DEF m
    <3>3. Len(Octets[k + 1]) = Len(o) + Len(t) /\ Len(t) \in Nat
      BY <1>2, <3>2, ConcatProperties, LenProperties
    <3>4. Len(y) < Len(t) /\ Len(y) <= Len(t)
      <4>1. Len(p) < Len(Octets[k + 1])
        BY <2>1
      <4> HIDE DEF o, t
      <4> QED
        BY <1>6, <3>3, <4>1, SMT
    <3>5. PICK c \in Seq(Octet) : Octets[n] = Octets[k + 1] \o c
      <4>1. k + 1 \in 0 .. n
        <5> HIDE DEF n
        <5> QED
          BY <1>1, <3>1, SMT
      <4> QED
        BY <4>1, RestFollows
    <3>6. t \o c = y \o l
      <4> HIDE DEF o, t
      <4>1. SamePrefix(Octets[k + 1], o, t, c, b)
        BY <1>2, <1>4, <3>2, <3>5, SamePrefixHolds
      <4>2. Octets[k + 1] \o c = o \o b
        BY <1>4, <3>5
      <4> QED
        BY <1>5, <3>2, <4>1, <4>2 DEF SamePrefix
    <3>7. PICK z \in Seq(Octet) : t = y \o z
      <4> HIDE DEF t
      <4>1. Overlap(t, c, y, l)
        BY <3>2, OverlapHolds
      <4> QED
        BY <3>4, <3>6, <4>1 DEF Overlap
    <3> QED
      BY <3>1, <3>4, <3>7, PartOfTransmission
  <2>2. CASE ~(k < n)
    <3>1. k = n
      <4> HIDE DEF n
      <4> QED
        BY <1>1, <2>2, SMT
    <3>2. Octets[n] = o
      BY <3>1
    <3>3. Len(o) = Len(p) + Len(l)
      BY <3>2, ConcatProperties
    <3> HIDE DEF o
    <3>4. Len(y) = 0
      BY <1>6, <3>3, SMT
    <3>5. y = <<>>
      BY <3>4, EmptySeq
    <3> QED
      BY <3>5, NothingRead DEF Incomplete
  <2> QED
    BY <2>1, <2>2
<1> DEFINE r == Ignoring[y]
<1>8. Ignoring[p] = Continued(Ignoring[o], r) /\ r \in Results
  <2>1. Ignoring[o \o y] = Continued(Ignoring[o], Ignoring[Ignoring[o].buffer \o y])
    BY <1>2, <1>3, ChunkingIrrelevant DEF Ignoring
  <2>2. Ignoring[o].buffer \o y = y
    BY <1>3, ConcatEmptySeq
  <2>3. r \in Results
    BY ReadingResult DEF Ignoring
  <2> HIDE DEF o, r, Ignoring
  <2>4. Ignoring[Ignoring[o].buffer \o y] = r
    BY <2>2 DEF r
  <2> QED
    BY <1>5, <2>1, <2>3, <2>4
<1>9. Ignoring[p].ok /\ Ignoring[p].frames = f \o <<>>
  <2>1. r.ok /\ r.frames = <<>> /\ Ignoring[o].frames = f
    BY <1>3, <1>7
  <2> HIDE DEF r, o, f, Ignoring
  <2>2. Continued(Ignoring[o], r) = [r EXCEPT !.frames = f \o <<>>]
    BY <2>1 DEF Continued
  <2>3. r = [ok |-> r.ok, buffer |-> r.buffer, frames |-> r.frames]
    BY <1>8 DEF Results
  <2>4. Continued(Ignoring[o], r).ok /\ Continued(Ignoring[o], r).frames = f \o <<>>
    <3> DEFINE h == f \o <<>>
    <3>1. Continued(Ignoring[o], r) = [r EXCEPT !.frames = h]
      BY <2>2
    <3> HIDE DEF h
    <3>2. [r EXCEPT !.frames = h].ok /\ [r EXCEPT !.frames = h].frames = h
      BY <1>8, <2>1 DEF Results
    <3> QED
      BY <3>1, <3>2 DEF h
  <2> QED
    BY <1>8, <2>4
<1>10. f \o <<>> = f
  BY <1>2, ConcatEmptySeq
<1> QED
  BY <1>9, <1>10

\* No place in what is sent is an error.
LEMMA NoErrorAnywhere ==
    ASSUME FramesAndNoise, NEW p \in Seq(Octet), NEW l \in Seq(Octet),
           p \o l = Octets[Len(Transmission)]
    PROVE  Ignoring[p].ok
<1> DEFINE n == Len(Transmission)
           S == {j \in 1 .. n : Len(p) < Len(Octets[j])}
<1>1. n \in Nat /\ Len(p) \in Nat
  BY TransmissionType, LenProperties
<1>2. \A k \in 0 .. n : Len(Octets[k]) \in Nat
  BY NextOctets, LenProperties
<1>3. CASE S = {}
  <2>1. n \in 0 .. n /\ ~(n < n) /\ (n = 0 \/ n \in 1 .. n)
    <3> HIDE DEF n, S
    <3> QED
      BY <1>1, SMT
  <2>2. Len(Octets[n]) <= Len(p)
    <3>1. CASE n = 0
      <4>1. Len(Octets[n]) = 0
        BY <3>1, NextOctets, EmptySeq
      <4> HIDE DEF n, S
      <4> QED
        BY <1>1, <4>1, SMT
    <3>2. CASE n \in 1 .. n
      <4>1. ~(Len(p) < Len(Octets[n]))
        BY <1>3, <3>2
      <4> HIDE DEF n, S
      <4> QED
        BY <1>1, <1>2, <2>1, <4>1, SMT
    <3> QED
      BY <2>1, <3>1, <3>2
  <2> QED
    BY <2>1, <2>2, ReadUpTo
<1>4. CASE S # {}
  <2>1. S \in SUBSET Nat
    <3>1. 1 .. n \subseteq Nat
      <4> HIDE DEF n, S
      <4> QED
        BY <1>1, SMT
    <3> QED
      BY <3>1
  <2>2. PICK m \in S : \A j \in S : m <= j
    <3> HIDE DEF S
    <3> QED
      BY <1>4, <2>1, LeastNumber
  <2>3. m \in 1 .. n /\ Len(p) < Len(Octets[m])
    BY <2>2
  <2> DEFINE k == m - 1
  <2>4. k \in 0 .. n /\ k + 1 = m /\ (k = 0 \/ k \in 1 .. n) /\ ~(m <= k)
    <3> HIDE DEF n, S
    <3> QED
      BY <1>1, <2>3, SMT
  <2> HIDE DEF k
  <2>5. Len(Octets[k]) <= Len(p)
    <3>1. CASE k = 0
      <4>1. Len(Octets[k]) = 0
        BY <3>1, NextOctets, EmptySeq
      <4> HIDE DEF n, S
      <4> QED
        BY <1>1, <4>1, SMT
    <3>2. CASE k \in 1 .. n
      <4>1. ~(Len(p) < Len(Octets[k]))
        BY <2>2, <2>4, <3>2
      <4> HIDE DEF n, S
      <4> QED
        BY <1>1, <1>2, <2>4, <4>1, SMT
    <3> QED
      BY <2>4, <3>1, <3>2
  <2>6. Len(p) < Len(Octets[k + 1])
    BY <2>3, <2>4
  <2> QED
    BY <2>4, <2>5, <2>6, ReadUpTo
<1> QED
  BY <1>3, <1>4

-----------------------------------------------------------------------------
(***************************************************************************)
(* The steps.                                                              *)
(***************************************************************************)
StreamInv == StreamTypeOK /\ Kept(buffer)

\* What has been read so far is what the decoder would have read at once.
ReadSoFar ==
    disturbances = 0 /\ noisePolicy = "IgnoreUntilOpeningFlag" =>
        \E p \in Seq(Octet) : /\ p \o line = Octets[Len(Transmission)]
                              /\ Ignoring[p].buffer = buffer
                              /\ Ignoring[p].frames = taken \o pending

\* A chunk and what it leaves of the line.
LEMMA ChunkTaken ==
    ASSUME line \in Seq(Octet), NEW n \in 1 .. Len(line)
    PROVE  /\ Chunk(n) \in Seq(Octet) /\ From(line, n + 1) \in Seq(Octet)
           /\ Chunk(n) \o From(line, n + 1) = line
<1>1. Len(line) \in Nat
  BY LenProperties
<1>2. /\ 1 \in 1 .. Len(line) + 1 /\ n \in 1 - 1 .. Len(line) /\ Len(line) \in n .. Len(line)
      /\ 1 \in Int /\ n \in Int /\ n + 1 \in Nat \ {0} /\ \A i \in 1 .. n : i \in 1 .. Len(line)
  BY <1>1, SMT
<1>3. Chunk(n) \in Seq(Octet)
  <2>1. \A i \in 1 .. n : line[i] \in Octet
    BY <1>2, ElementOfSeq
  <2> QED
    BY <1>2, <2>1, SubSeqProperties DEF Chunk
<1>4. Chunk(n) \o From(line, n + 1) = line
  <2>1. SubSeq(line, 1, n) \o SubSeq(line, n + 1, Len(line)) = SubSeq(line, 1, Len(line))
    BY <1>2, ConcatAdjacentSubSeq
  <2> QED
    BY <2>1, SubSeqFull DEF Chunk, From
<1> QED
  BY <1>2, <1>3, <1>4, Behind

\* Handing out changes who has the frames, not which or in which order.
LEMMA HandedOut ==
    ASSUME NEW queue \in Seq(HdlcFrame), taken \in Seq(HdlcFrame), NEW room, HandOut(queue, room)
    PROVE  /\ pending' \in Seq(HdlcFrame) /\ taken' \in Seq(HdlcFrame)
           /\ taken' \o pending' = taken \o queue
<1>1. CASE pending' = queue /\ UNCHANGED taken
  BY <1>1
<1>2. CASE queue # <<>> /\ pending' = Tail(queue) /\ taken' = Append(taken, Head(queue))
  <2>1. Head(queue) \in HdlcFrame /\ Tail(queue) \in Seq(HdlcFrame)
    BY <1>2, HeadTailProperties
  <2>2. queue = <<Head(queue)>> \o Tail(queue)
    <3>1. Len(queue) \in Nat \ {0}
      BY <1>2, EmptySeq
    <3>2. 1 \in 1 .. Len(queue) /\ Len(queue) \in 1 .. Len(queue) /\ 1 + 1 = 2
      BY <3>1, SMT
    <3>3. SubSeq(queue, 1, Len(queue)) = <<queue[1]>> \o SubSeq(queue, 1 + 1, Len(queue))
      BY <3>2, SubSeqRecursiveFirst
    <3>4. Tail(queue) = SubSeq(queue, 2, Len(queue)) /\ SubSeq(queue, 1, Len(queue)) = queue
      BY <1>2, TailIsSubSeq, SubSeqFull
    <3>5. Head(queue) = queue[1]
      OBVIOUS
    <3> QED
      BY <3>2, <3>3, <3>4, <3>5
  <2> DEFINE h == Head(queue)
             t == Tail(queue)
  <2>3. Append(taken, h) = taken \o <<h>> /\ <<h>> \in Seq(HdlcFrame)
    <3>1. Append(taken, h) = taken \o <<h>>
      BY <2>1, AppendIsConcat
    <3>2. <<h>> \in Seq(HdlcFrame)
      BY <2>1
    <3> QED
      BY <3>1, <3>2
  <2>4. taken \o <<h>> \in Seq(HdlcFrame)
    BY <2>3, ConcatProperties
  <2>5. t \in Seq(HdlcFrame)
    BY <2>1
  <2> DEFINE o == <<h>>
  <2>6. o \in Seq(HdlcFrame)
    BY <2>3
  <2> HIDE DEF h, t, o
  <2>7. (taken \o o) \o t = taken \o (o \o t)
    BY <2>5, <2>6, ConcatAssociative
  <2> QED
    BY <1>2, <2>1, <2>2, <2>3, <2>4, <2>7 DEF h, t, o
<1> QED
  BY <1>1, <1>2 DEF HandOut, WithoutFront

\* What a call of the decoder returns for the buffer and a chunk.
LEMMA CallResult ==
    ASSUME StreamInv, NEW n \in 1 .. Len(line)
    PROVE  /\ Scan[buffer \o Chunk(n)] \in Results
           /\ buffer \in Seq(Octet) /\ Chunk(n) \in Seq(Octet) /\ From(line, n + 1) \in Seq(Octet)
           /\ Chunk(n) \o From(line, n + 1) = line
<1>1. buffer \in Seq(Octet) /\ line \in Seq(Octet)
  BY DEF StreamInv, StreamTypeOK
<1>2. /\ Chunk(n) \in Seq(Octet) /\ From(line, n + 1) \in Seq(Octet)
      /\ Chunk(n) \o From(line, n + 1) = line
  BY <1>1, ChunkTaken
<1>3. buffer \o Chunk(n) \in Seq(Octet)
  BY <1>1, <1>2, ConcatProperties
<1> QED
  BY <1>1, <1>2, <1>3, ReadingResult, ScanIsReading

\* A mishap is counted.
LEMMA Mishap ==
    ASSUME disturbances \in 0 .. MaxDisturbances, Disturbed
    PROVE  disturbances' \in 0 .. MaxDisturbances /\ disturbances' # 0
<1>1. MaxDisturbances \in Nat
  BY StreamAssumption
<1> QED
  BY <1>1, SMT DEF Disturbed

\* StreamInv holds at first,
LEMMA StreamInvInit == StreamInit => StreamInv
<1> SUFFICES ASSUME StreamInit
             PROVE  StreamInv
  OBVIOUS
<1>1. MaxDisturbances \in Nat /\ Len(Transmission) \in Nat
  BY StreamAssumption, TransmissionType
<1>2. 0 \in 0 .. MaxDisturbances /\ Len(Transmission) \in 0 .. Len(Transmission)
  BY <1>1, SMT
<1>3. Octets[Len(Transmission)] \in Seq(Octet)
  BY <1>2, NextOctets
<1>4. <<>> \in Seq(HdlcFrame)
  BY EmptySeq
<1> QED
  BY <1>2, <1>3, <1>4, EmptyKept DEF StreamInit, StreamInv, StreamTypeOK, Kept

\* and every step keeps it.
LEMMA StreamInvNext == StreamInv /\ [StreamNext]_streamVars => StreamInv'
<1> SUFFICES ASSUME StreamInv, [StreamNext]_streamVars
             PROVE  StreamInv'
  OBVIOUS
<1>0. /\ buffer \in Seq(Octet) /\ Kept(buffer)
      /\ pending \in Seq(HdlcFrame) /\ taken \in Seq(HdlcFrame) /\ line \in Seq(Octet)
      /\ disturbances \in 0 .. MaxDisturbances
  BY DEF StreamInv, StreamTypeOK
<1> DEFINE Typed == /\ buffer' \in Seq(Octet) /\ Kept(buffer')
                    /\ pending' \in Seq(HdlcFrame) /\ taken' \in Seq(HdlcFrame)
                    /\ line' \in Seq(Octet) /\ disturbances' \in 0 .. MaxDisturbances
<1>1. SUFFICES Typed
  BY DEF StreamInv, StreamTypeOK, Kept
<1>2. ASSUME NEW n \in 1 .. Len(line), NEW room \in Rooms, Push(n, room)
      PROVE  Typed
  <2> DEFINE r == Scan[buffer \o Chunk(n)]
  <2>1. r \in Results /\ From(line, n + 1) \in Seq(Octet)
    BY CallResult
  <2>2. /\ buffer' = r.buffer /\ HandOut(pending \o r.frames, room) /\ line' = From(line, n + 1)
        /\ UNCHANGED disturbances
    BY <1>2 DEF Push
  <2> HIDE DEF r
  <2>3. r.buffer \in Seq(Octet) /\ Kept(r.buffer) /\ r.frames \in Seq(HdlcFrame)
    BY <2>1 DEF Results
  <2>4. pending \o r.frames \in Seq(HdlcFrame)
    BY <1>0, <2>3, ConcatProperties
  <2>5. pending' \in Seq(HdlcFrame) /\ taken' \in Seq(HdlcFrame)
    BY <1>0, <2>2, <2>4, HandedOut
  <2> QED
    BY <1>0, <2>1, <2>2, <2>3, <2>5
<1>3. ASSUME NEW n \in 1 .. Len(line), PushError(n)
      PROVE  Typed
  <2> DEFINE r == Scan[buffer \o Chunk(n)]
  <2>1. r \in Results /\ From(line, n + 1) \in Seq(Octet)
    BY CallResult
  <2>2. /\ buffer' = r.buffer /\ line' = From(line, n + 1)
        /\ UNCHANGED <<pending, taken, disturbances>>
    BY <1>3 DEF PushError
  <2> HIDE DEF r
  <2> QED
    BY <1>0, <2>1, <2>2 DEF Results
<1>4. ASSUME NEW n \in 1 .. Len(line), PushOutOfMemory(n)
      PROVE  Typed
  <2> DEFINE r == Scan[buffer \o Chunk(n)]
  <2>1. r \in Results /\ From(line, n + 1) \in Seq(Octet)
    BY CallResult
  <2>2. /\ buffer' \in {<<>>, r.buffer} /\ line' = From(line, n + 1)
        /\ Disturbed /\ UNCHANGED <<pending, taken>>
    BY <1>4 DEF PushOutOfMemory
  <2> HIDE DEF r
  <2> QED
    BY <1>0, <2>1, <2>2, Mishap, EmptyKept DEF Results
<1>5. ASSUME NEW room \in Rooms, Drain(room)
      PROVE  Typed
  BY <1>0, <1>5, HandedOut DEF Drain
<1>6. CASE Reset
  <2>1. <<>> \in Seq(HdlcFrame)
    BY EmptySeq
  <2> QED
    BY <1>0, <1>6, <2>1, Mishap, EmptyKept DEF Reset
<1>7. CASE OctetLost
  BY <1>0, <1>7, Mishap, HeadTailProperties DEF OctetLost
<1>8. CASE OctetChanged
  <2>1. PICK x \in NoiseOctet : line' = <<x>> \o Tail(line)
    BY <1>8 DEF OctetChanged
  <2>2. x \in Octet
    BY StreamAssumption
  <2>3. <<x>> \in Seq(Octet) /\ Tail(line) \in Seq(Octet)
    BY <1>0, <1>8, <2>2, HeadTailProperties DEF OctetChanged
  <2>4. line' \in Seq(Octet)
    BY <2>1, <2>3, ConcatProperties
  <2> QED
    BY <1>0, <1>8, <2>4, Mishap DEF OctetChanged
<1>9. CASE OctetAdded
  <2>1. PICK x \in NoiseOctet : line' = <<x>> \o line
    BY <1>9 DEF OctetAdded
  <2>2. x \in Octet
    BY StreamAssumption
  <2>3. <<x>> \in Seq(Octet)
    BY <2>2
  <2>4. line' \in Seq(Octet)
    BY <1>0, <2>1, <2>3, ConcatProperties
  <2> QED
    BY <1>0, <1>9, <2>4, Mishap DEF OctetAdded
<1>10. CASE UNCHANGED streamVars
  BY <1>0, <1>10 DEF streamVars
<1> QED
  <2> HIDE DEF Typed
  <2> QED
    BY <1>2, <1>3, <1>4, <1>5, <1>6, <1>7, <1>8, <1>9, <1>10 DEF StreamNext

\* The decoder and the handle of the C API keep their types: between calls the
\* buffer starts with a flag and holds no complete frame, through errors, resets,
\* exhausted memory and damage on the line.
THEOREM StreamTypesKept == StreamSpec => []StreamTypeOK
<1>1. StreamInv => StreamTypeOK
  BY DEF StreamInv
<1> QED
  BY <1>1, StreamInvInit, StreamInvNext, PTL DEF StreamSpec

\* The buffer of the decoder stays below the maximum frame size.  Two octets wait
\* for the third before any limit is looked at, so the limit is three at least.
THEOREM BufferStaysBounded ==
    ASSUME 3 <= EffectiveMaximumFrameSize(Limits)
    PROVE  StreamSpec => []BufferBounded
<1>1. StreamInv => BufferBounded
  BY DEF StreamInv, Kept, BufferBounded
<1> QED
  BY <1>1, StreamInvInit, StreamInvNext, PTL DEF StreamSpec

\* So does ReadSoFar,
LEMMA SoFarInit == StreamInit => ReadSoFar
<1> SUFFICES ASSUME StreamInit
             PROVE  ReadSoFar
  OBVIOUS
<1> DEFINE l == Octets[Len(Transmission)]
<1>1. Len(Transmission) \in 0 .. Len(Transmission)
  BY TransmissionType, SMT
<1>2. l \in Seq(Octet) /\ <<>> \in Seq(Octet)
  BY <1>1, NextOctets, EmptySeq
<1>3. <<>> \o l = l /\ <<>> \o <<>> = <<>>
  BY <1>2, ConcatEmptySeq
<1>4. Ignoring[<<>>].buffer = <<>> /\ Ignoring[<<>>].frames = <<>>
  BY NothingRead DEF Incomplete
<1>5. line = l /\ buffer = <<>> /\ taken = <<>> /\ pending = <<>>
  BY DEF StreamInit
<1> HIDE DEF l, Ignoring
<1> QED
  BY <1>2, <1>3, <1>4, <1>5 DEF ReadSoFar, l

\* A call that goes well and one that cannot go wrong.
LEMMA SoFarCall ==
    ASSUME FramesAndNoise, StreamInv, NEW p \in Seq(Octet), NEW n \in 1 .. Len(line),
           noisePolicy = "IgnoreUntilOpeningFlag", p \o line = Octets[Len(Transmission)],
           Ignoring[p].buffer = buffer, Ignoring[p].frames = taken \o pending
    PROVE  LET q == p \o Chunk(n)
               r == Scan[buffer \o Chunk(n)]
           IN  /\ q \in Seq(Octet) /\ q \o From(line, n + 1) = Octets[Len(Transmission)]
               /\ r.ok /\ Ignoring[q].buffer = r.buffer
               /\ Ignoring[q].frames = (taken \o pending) \o r.frames
<1> DEFINE c == Chunk(n)
           d == From(line, n + 1)
           q == p \o c
           r == Scan[buffer \o c]
<1>1. r \in Results /\ c \in Seq(Octet) /\ d \in Seq(Octet) /\ c \o d = line
  BY CallResult
<1>2. r = Ignoring[buffer \o c]
  BY ScanIsReading DEF Ignoring
<1> HIDE DEF c, d, r
<1>3. q \in Seq(Octet) /\ (p \o c) \o d = p \o (c \o d)
  BY <1>1, Joined, ConcatProperties
<1>4. q \o d = Octets[Len(Transmission)]
  BY <1>1, <1>3
<1>5. Ignoring[p].ok
  <2>1. line \in Seq(Octet)
    BY DEF StreamInv, StreamTypeOK
  <2> QED
    BY <2>1, NoErrorAnywhere
<1>6. Ignoring[q] = Continued(Ignoring[p], Ignoring[Ignoring[p].buffer \o c])
  BY <1>1, <1>5, ChunkingIrrelevant DEF Ignoring
<1> DEFINE f == taken \o pending
<1>7. Ignoring[q] = [r EXCEPT !.frames = f \o @]
  BY <1>2, <1>6 DEF Continued
<1>8. Ignoring[q].ok
  BY <1>3, <1>4, <1>1, NoErrorAnywhere
<1> DEFINE h == f \o r.frames
           i == Ignoring[q]
<1>9. i = [r EXCEPT !.frames = h]
  BY <1>7
<1> HIDE DEF f, h, i, q
<1>10. i.ok = r.ok /\ i.buffer = r.buffer /\ i.frames = h
  BY <1>1, <1>9 DEF Results
<1> QED
  BY <1>3, <1>4, <1>8, <1>10 DEF f, h, i, q, r, c, d

\* What the caller has, what waits for it and what a call adds, read in order.
LEMMA FramesInThree ==
    ASSUME NEW a \in Seq(HdlcFrame), NEW b \in Seq(HdlcFrame), NEW c \in Seq(HdlcFrame)
    PROVE  (a \o b) \o c = a \o (b \o c)
  BY ConcatAssociative

\* and, as long as no mishap is counted, every step keeps it.
LEMMA SoFarNext ==
    ASSUME FramesAndNoise
    PROVE  StreamInv /\ ReadSoFar /\ [StreamNext]_streamVars => ReadSoFar'
<1> SUFFICES ASSUME StreamInv, ReadSoFar, [StreamNext]_streamVars,
                    disturbances' = 0, noisePolicy' = "IgnoreUntilOpeningFlag"
             PROVE  \E p \in Seq(Octet) : /\ p \o line' = Octets[Len(Transmission)]
                                          /\ Ignoring[p].buffer = buffer'
                                          /\ Ignoring[p].frames = taken' \o pending'
  BY DEF ReadSoFar, Ignoring
<1> DEFINE Goal == \E p \in Seq(Octet) : /\ p \o line' = Octets[Len(Transmission)]
                                         /\ Ignoring[p].buffer = buffer'
                                         /\ Ignoring[p].frames = taken' \o pending'
           Now(p) == /\ p \o line = Octets[Len(Transmission)]
                     /\ Ignoring[p].buffer = buffer
                     /\ Ignoring[p].frames = taken \o pending
<1>0. /\ pending \in Seq(HdlcFrame) /\ taken \in Seq(HdlcFrame)
      /\ disturbances \in 0 .. MaxDisturbances
  BY DEF StreamInv, StreamTypeOK
<1>1. disturbances = 0 /\ noisePolicy = "IgnoreUntilOpeningFlag" => \E p \in Seq(Octet) : Now(p)
  BY DEF ReadSoFar
<1>2. Disturbed => FALSE
  BY <1>0, Mishap
<1>3. ASSUME NEW n \in 1 .. Len(line), NEW room \in Rooms, Push(n, room)
      PROVE  Goal
  <2> DEFINE r == Scan[buffer \o Chunk(n)]
             d == From(line, n + 1)
  <2>1. /\ buffer' = r.buffer /\ HandOut(pending \o r.frames, room) /\ line' = d
        /\ UNCHANGED <<noisePolicy, disturbances>>
    BY <1>3 DEF Push
  <2>2. noisePolicy = "IgnoreUntilOpeningFlag"
    BY <2>1
  <2>3. PICK p \in Seq(Octet) : Now(p)
    BY <1>1, <2>1
  <2> DEFINE q == p \o Chunk(n)
  <2>4. /\ q \in Seq(Octet) /\ q \o d = Octets[Len(Transmission)]
        /\ Ignoring[q].buffer = r.buffer /\ Ignoring[q].frames = (taken \o pending) \o r.frames
    BY <2>2, <2>3, SoFarCall
  <2>5. r \in Results
    BY CallResult
  <2> HIDE DEF r, d, q
  <2>6. r.frames \in Seq(HdlcFrame)
    BY <2>5 DEF Results
  <2> DEFINE f == r.frames
  <2>7. f \in Seq(HdlcFrame)
    BY <2>6
  <2> HIDE DEF f
  <2>8. (taken \o pending) \o f = taken \o (pending \o f) /\ pending \o f \in Seq(HdlcFrame)
    <3>1. (taken \o pending) \o f = taken \o (pending \o f)
      BY <1>0, <2>7, FramesInThree
    <3>2. pending \o f \in Seq(HdlcFrame)
      BY <1>0, <2>7, ConcatProperties
    <3> QED
      BY <3>1, <3>2
  <2>9. taken' \o pending' = taken \o (pending \o f)
    BY <1>0, <2>1, <2>8, HandedOut DEF f
  <2>10. Ignoring[q].frames = taken' \o pending'
    BY <2>4, <2>8, <2>9 DEF f
  <2> QED
    BY <2>1, <2>4, <2>10
<1>4. ASSUME NEW n \in 1 .. Len(line), PushError(n)
      PROVE  FALSE
  <2>1. /\ ~Scan[buffer \o Chunk(n)].ok /\ UNCHANGED <<noisePolicy, disturbances>>
    BY <1>4 DEF PushError
  <2>2. PICK p \in Seq(Octet) : Now(p)
    BY <1>1, <2>1
  <2> QED
    BY <2>1, <2>2, SoFarCall
<1>5. ASSUME NEW room \in Rooms, Drain(room)
      PROVE  Goal
  <2>1. HandOut(pending, room) /\ UNCHANGED <<noisePolicy, buffer, line, disturbances>>
    BY <1>5 DEF Drain
  <2>2. PICK p \in Seq(Octet) : Now(p)
    BY <1>1, <2>1
  <2>3. taken' \o pending' = taken \o pending
    BY <1>0, <2>1, HandedOut
  <2> QED
    BY <2>1, <2>2, <2>3
<1>6. ASSUME UNCHANGED streamVars
      PROVE  Goal
  <2>1. PICK p \in Seq(Octet) : Now(p)
    BY <1>1, <1>6 DEF streamVars
  <2> QED
    BY <1>6, <2>1 DEF streamVars
<1>7. ASSUME NEW n \in 1 .. Len(line), PushOutOfMemory(n)
      PROVE  FALSE
  BY <1>2, <1>7 DEF PushOutOfMemory
<1>8. ~Reset /\ ~OctetLost /\ ~OctetChanged /\ ~OctetAdded
  BY <1>2 DEF Reset, OctetLost, OctetChanged, OctetAdded
<1> QED
  <2> HIDE DEF Goal, Now
  <2>1. ASSUME StreamNext
        PROVE  Goal
    <3>1. \/ \E n \in 1 .. Len(line) : (\E room \in Rooms : Push(n, room)) \/ PushError(n)
          \/ \E room \in Rooms : Drain(room)
      BY <1>7, <1>8, <2>1 DEF StreamNext
    <3> QED
      BY <1>3, <1>4, <1>5, <3>1
  <2>2. Goal
    BY <1>6, <2>1
  <2> QED
    BY <2>2 DEF Goal

\* A decoder that ignores noise finds the frames that were sent, each as soon as
\* its last octet was pushed, in order, once, and nothing else, for any frames
\* (with flags inside them), any noise without flags and any chunks.
THEOREM ExactExtraction ==
    ASSUME FramesAndNoise
    PROVE  StreamSpec => []ExactUntilDisturbed
<1>1. StreamInv /\ ReadSoFar => ExactUntilDisturbed
  <2> SUFFICES ASSUME StreamInv, ReadSoFar, disturbances = 0, noisePolicy = "IgnoreUntilOpeningFlag",
                      NEW k \in 0 .. Len(Transmission), Arrived(k)
               PROVE  taken \o pending = FramesOf[k]
    BY DEF ExactUntilDisturbed
  <2> DEFINE all == Octets[Len(Transmission)]
  <2>1. PICK p \in Seq(Octet) : /\ p \o line = all
                                /\ Ignoring[p].frames = taken \o pending
    BY DEF ReadSoFar
  <2>2. line \in Seq(Octet)
    BY DEF StreamInv, StreamTypeOK
  <2>3. Len(all) = Len(p) + Len(line) /\ Len(p) \in Nat /\ Len(line) \in Nat
    BY <2>1, <2>2, ConcatProperties, LenProperties
  <2>4. Consumed = Len(all) - Len(line)
    BY DEF Consumed
  <2> HIDE DEF all
  <2>5. Consumed = Len(p)
    BY <2>3, <2>4, SMT
  <2>6. Len(Octets[k]) <= Len(p) /\ (k < Len(Transmission) => Len(p) < Len(Octets[k + 1]))
    BY <2>5 DEF Arrived
  <2>7. Ignoring[p].frames = FramesOf[k]
    BY <2>1, <2>2, <2>6, ReadUpTo DEF all
  <2> QED
    BY <2>1, <2>7
<1> QED
  BY <1>1, StreamInvInit, StreamInvNext, SoFarInit, SoFarNext, PTL DEF StreamSpec
=============================================================================
