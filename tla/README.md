# dlms-hdlc: specifications, model checks and proofs

This directory specifies the HDLC data-link layer of `dlms-hdlc` in TLA+. It
models the C++ library (`src/hdlc/`, `include/dlms/hdlc/`) from the octets of a
frame up to two sessions joined by a line that loses frames and by applications
that give up and begin anew, the session of the Go port, and the handle table of
the Go C ABI. TLC checks small instances; TLAPS proves, for every value of the
constants, the safety properties of both sessions, of reassembly and of the Go
handles, every safety property of the links, those of a link that one end
abandons included, that both links implement the abstract delivery service, that what
the codec writes it reads back, that it detects an inverted bit, that it reads the
documented parameter blocks of others, and no octet past a block, and that the stream
decoder finds exactly the frames that were sent.

Paths below are relative to the repository root.

## 1. The system

| Component | State | Operations | Specified in |
|---|---|---|---|
| `HdlcSession` (`src/hdlc/hdlc_session.cpp`) | `state_`, V(S), V(R), V(A), three *response pending* flags, the parameters of the SNRM being answered, negotiated limits, transmit window, codec limits | nine `Build...` methods, `ReceiveFrame` (I, S and U frames) | `HdlcFrames`, `HdlcSession`; its octets in `HdlcParameters`, `HdlcTransfer` |
| Two sessions on a line (as `test/hdlc/test_hdlc_session.cpp` drives them) | both sessions, the bytes in flight | pass each built frame to the peer's `ReceiveFrame`; abort and construct anew | `HdlcLine`, `HdlcLink` against `HdlcService`, `HdlcRestart` |
| Frame codec, control field, addresses, CRC (`hdlc_codec.cpp`, `hdlc_control.cpp`, `hdlc_address.cpp`, `hdlc_crc.cpp`) | none | `EncodeFrame`, `DecodeFrame`, with and without a caller's buffer | `HdlcSizes`, `HdlcCodec`, checked in `HdlcTransfer` |
| `HdlcSegmenter`, `HdlcReassembler` (`src/hdlc/hdlc_segmentation.cpp`) | `hasPending_`, `pendingFrame_` | `SegmentInformation`, `PushFrame`, `Reset` | `HdlcSegmentation` |
| `HdlcStreamDecoder` (`src/hdlc/hdlc_stream_decoder.cpp`) | `buffer_` | `Push`, `Reset` | `HdlcStream` |
| C API (`src/hdlc/hdlc_c_api.cpp`) | per stream handle a queue of decoded frames | create, push, drain, reset, destroy; one-shot encode and decode | handles in `HdlcStream`, `HdlcSegmentation`; one-shot functions in `HdlcCodec` |
| Go C ABI (`golang/cabi/main.go`) | two tables of handles and a counter under a mutex, malloced blocks | create, push, reset, destroy, from any thread | `GoHandles` |
| Go port (`golang/hdlc/`) | as C++, but a session with V(S), V(R) and two flags only | as C++, the session with six `Build...` methods | the session in `GoSession`, two of them on a line in `GoLink`; the rest as C++ |

**How they interact.** Nothing in the C++ library does I/O, starts a thread or
keeps a timer; components call each other only through the application. Octets
go into a stream decoder, which calls the codec; frames come out, a reassembler
joins them, a session is given each frame and decides. In the other direction a
session builds a frame, the codec encodes it (`BuildFrame`,
`hdlc_session.cpp:558`) and the application writes it. A failed length check of
the codec leaves through every `Build...` method. Only the Go C ABI has state
that threads share, its handle tables.

**What is hard.** The application supplies the concurrency: it may call the
methods of a session in any order between any two arriving frames, and frames of
the two stations cross on the line. Frames are lost (a bad FCS) and sequence
numbers have three bits. Handshakes change the two ends at different times, an
aborted one leaves its answer on the line, and the flags that remember an
unanswered frame outlive the state they were set in. Lengths, extension bits and
parameter sizes come from the peer, perhaps damaged. Buffers are given up half
way: on errors, on overflow, on failed allocations.
What a component must guarantee:

* *session*: numbers, window, role, limits and pending flags stay consistent,
  whatever the application and the peer do;
* *link*: messages arrive in order, once; an acknowledgement is true; both ends
  agree on session and limits; what was begun completes; old frames do no harm;
* *codec*: what is encoded fits, is accepted and means the same at the other end;
  damage is noticed;
* *reassembly*: no mixing, no reordering, bounded size, damage that stays local;
* *stream decoder*: the frames do not depend on how the octets are cut;
* *handles*: a handle reaches its own object, and no entry is lost or left over.

## 2. Modules

```
HdlcSizes             lengths of frames, length checks
  HdlcFrames          values: sequence numbers, parameters, frames
    HdlcSession       class HdlcSession in an open environment
      HdlcWindow           counts its unacknowledged frames
        MCSession            instance for TLC
      HdlcLine             a line between two sessions
        HdlcWires          what invariants say of the frames on it
          HdlcSessionProofs     theorems about one session (with HdlcWindow), lemmas about the line
        HdlcLink           applications that behave    -- implements --> HdlcService
          HdlcLinkInvariant     inductive invariants (with HdlcWires)
            HdlcLinkProofs      theorems, and about HdlcService (with HdlcSessionProofs)
            MCLink              (with MCLine)
        HdlcRestart        applications that abort or crash
          HdlcRestartInvariant  an inductive invariant (with HdlcWires)
            HdlcRestartProofs   theorems (with HdlcSessionProofs)
            MCRestart           (with MCLine)
  HdlcCodec           frames on octets, and the structures of the C API
    HdlcStream        stream decoder and its C handle
      HdlcStreamProofs     theorems
      MCStream
HdlcParameters        the parameter block on octets
HdlcTransfer          one frame from session to session  (HdlcFrames, HdlcCodec, HdlcParameters)
  HdlcTransferProofs  theorems about the codec and the frame on its way
  MCTransfer
HdlcSegmentation      segmenter, reassembler, several sources
  HdlcSegmentationProofs   theorems
  MCSegmentation
GoSession             the session of the Go port
  GoLink              two of them on a line      -- implements --> HdlcService
    GoLinkInvariant   an inductive invariant
      GoLinkProofs    theorems about the session and the link
      MCGoLink
GoHandles             the handle tables of the Go C ABI
  GoHandlesProofs     theorems
  MCHandles
```

**HdlcSizes.** The frame length, with an HCS only where there is information, and
the chain of checks of `EncodeFrameToBuffer`, shared by everything that asks
whether a frame can be built.

**HdlcFrames.** A frame is a record of decoded fields. A parameter block of SNRM
and UA is absent, malformed or four numbers; it has the 23 bytes
`EncodeSnrmNegotiationBlock` gives it, because that size decides whether a UA can
be built. `ServerLimits` and `ClientLimits` are the two places that
transcribe agreed parameters into limits, in opposite directions.

**HdlcSession.** One variable per field of the class, as a function of the
endpoint. One action per `Build...` method and per branch of `ReceiveFrame`;
`RejectFrame` is every early return. The frame an action produces is an operator
of its own, so that the link can put it on the line. `Next` lets the application
call anything at any time and lets the peer send any frame of the constant
`Arriving`, the ones no correct peer sends included. `BuildConnectResponse` is
two actions: the encoding of the UA may fail, after the limits were adopted.
Not modelled in it: null pointers and output-buffer sizes (they return before any
change), `std::bad_alloc`, and the text of user information (its size is kept).

**HdlcWindow.** The session with a history variable: how many of its I-frames no N(R)
has covered yet, counted one by one. The code keeps no such count, only three-bit
numbers; `WindowRespected` compares the window with the count and so says what those
numbers are worth.

**HdlcLine, HdlcLink.** Each endpoint's frames in flight form a queue. The line is
a byte stream: frames are lost, not reordered or duplicated. `sent`, `delivered`
and `acknowledged` are history: whole message counts, against which the three-bit
numbers are measured. They restart when the server sends the UA that opens a
session, which is where both ends' numbers count anew. On this line no SNRM is
malformed, so DM does not occur; it does in `HdlcSession`.

**HdlcLinkInvariant, HdlcRestartInvariant, GoLinkInvariant.** Nothing is modelled
here: these are the state predicates that section 5 proves inductive, kept apart from
the proofs so that TLC can evaluate them (`MCLink`, `MCRestart` and `MCGoLink` extend
them). `HdlcWires` has the parts that the first two share.

**HdlcRestart.** `docs/04_hdlc_session_requirements.md:296` lets the application
abort after a timeout. `HdlcSession` has no `Reset()`, so an abort is the
construction of a new session, and so is a crash. Frames on their way to the new
session are kept or discarded, those it had sent arrive: a stale UA answers the
next SNRM, stale I-frames and RRs meet new numbers. Each message carries its
sender's own count of its sessions, and each acceptance the receiver's.

**HdlcService.** The abstract specification: per direction, messages submitted
are handed over in order, and `confirmed` never exceeds `handed`. `HdlcLink`
implements it under `submitted <- sent`, `handed <- delivered`,
`confirmed <- acknowledged`.

**HdlcCodec.** Octets are numbers and buffers sequences. Each check of the
decoder is a test of its own, in the order of the code. The CRC is a loop over
octets and bits, written as recursive functions of the loop's variables.
`dlms_hdlc_encode_frame` and `dlms_hdlc_decode_frame` go through `ToCppFrame` and
`FromCppFrame`.

**HdlcParameters, HdlcTransfer.** `ParseSnrmInfoField` and
`EncodeSnrmNegotiationBlock` on octets, and the grammar of `docs/04` section 7.1
as an independent reference: a group is in order if it can be cut into
parameters. `IsDocumentedGroup` has the lengths that section fixes, `IsGroup` any
length that is announced (the code takes one to four octets for every tag). (`ParseGroup` is a loop, written as a recursive function of the position.)
`BuiltBySession` says what the `Build...` methods put into a frame. `HdlcTransfer` takes one frame through `BuildFrame`, encoding, a line
that inverts bits, decoding and the parsing in `ReceiveFrame`. `AsSeen` is what
the session reads out of it; that it equals the record `HdlcFrames` uses is what
justifies the abstraction of the session modules.

**HdlcSegmentation.** A byte is `<<source, message, index>>`, so a completed
message shows where its bytes came from. `PushFrame` is the disjunction of its
ways out. `Overflows` keeps the unsigned subtraction of the code. Copies that may
throw are modelled where they are: inside the `try` the sequence is dropped
(`DropOutOfMemory`), outside it the frame is lost (`LoseOutOfMemory`) or the
finished sequence stays pending (`KeepOutOfMemory`, `hdlc_segmentation.cpp:169`).
`HandOver` is `dlms_hdlc_reassembler_push_frame`: a message larger than the
caller's buffer is gone. `Rooms` are the sizes of such buffers. History: `hit`
collects the messages a mishap touched.

**HdlcStream.** Frames are encoded and decoded by `HdlcCodec`, flags inside them
included. `Scan` is the loop of `Push` as a recursive function on the buffer;
`Push`, `PushError`, `Drain` and `Reset` are the calls on a C handle, whose queue
is `pending`. The C API always constructs with `IgnoreUntilOpeningFlag`; under
`ReportError` the same queue stands for a C++ caller that drops a call's frames
when it fails. `Octets` are the octets of a whole `Transmission`, `FramesOf[k]` the frames
among its first k parts; `FramesAndNoise`, that every part is a frame or noise without
a flag, is a condition of exact extraction, which TLC evaluates for `MCStream`.

**GoSession, GoLink.** The Go session (`golang/hdlc/session.go`) has no window, no
V(A), no negotiation and no DM: it takes an I-frame or RR only if its N(R) equals
V(S). A method that returns an error changes nothing, so `Accepts` collects the
early returns of `ReceiveFrame`. `Spec` lets any frames arrive, DM included, which
a Go session takes but never sends; the theorems are about it. In `GoLink` two
sessions share a line that may lose
frames. Left to itself this session keeps no promise: after eight unacknowledged
messages numbers return, and two I-frames that cross are both refused, as is
everything after them. `GoLink` therefore names the two duties of which an
application must keep one. `AwaitAcknowledgement`: the next message waits for the
acknowledgement of the last, the "window = 1" of
`docs/04_hdlc_session_requirements.md` section 8.1. `HalfDuplex`: on a line that
loses nothing, write only when nothing of the peer is on its way. Under either the
link implements `HdlcService`, as `HdlcLink` does.

**GoHandles.** A section under the mutex is one step, so is each access to a
malloced block; between them any other thread may run. A call is the list of
steps it still has to do (`Steps`) and its local variables. malloc may fail, and
returns any block that is not in use, freed ones included. No document of the
repository says which threads may use a handle; assumed is the least a C caller
must observe: one call at a time on a handle, and none begun once its destruction
has begun. A call that has already read the handle's number may still be
overtaken by the destruction.

## 3. Runs

| Run | Shows | Instance and bounds |
|---|---|---|
| `Session` | type correctness and five session properties | client and server, windows up to 7 and 3, frames counted one by one, every RR number, every I-frame number at the server, good, malformed, absent and too large parameter blocks, a foreign address |
| `LinkLossless` | limits agree, no receiver is overrun, nothing is rejected, both ends come to rest together; connect, disconnect and a full window complete | two sessions, 3 messages one way and 2 the other, of 100 and 101 bytes against limits of 200 and 100, windows 2 and 1, 2 frames in flight each way, no loss, either side closes |
| `LinkLossy` | types, numbers that stand for whole counts, shared sessions, refinement of the service: in-order delivery and true acknowledgements | two sessions, window 7, nine messages one way and one the other, 2 frames in flight each way, one loss at any moment; a server whose UA with parameters does not fit |
| `LinkRestart` | messages and acknowledgements of an abandoned session do no harm | the client restarts once or the server twice; each end enters three sessions and sends a message in each; one loss, 2 frames in flight each way |
| `Segmentation` | no mixing, order, damage contained, size bounded | two stations and a second frame kind, sizes below, at and above segment size and maximum, two mishaps, buffers of 3 and 4 |
| `Stream` | exact and bounded extraction, once and in order | three frames with noise between them, every way to cut the octets, two mishaps, both noise policies |
| `Codec` | encoded frames fit, are accepted, arrive unchanged; damage is noticed; documented parameter blocks are read as documented, no other reads past its group | all I and RR numbers, the corners of the address forms, of 6 limits and 4 buffers, every control field class; one or two inverted bits anywhere in three frames; every group of up to six octets 0, 1, 4 and 5 and larger ones with windows and repeated parameters |
| `GoHandles` | handles reach their own objects, tables neither lose nor keep entries | 3 threads, 2 blocks, 4 objects of two kinds |
| `GoLink` | refinement of the service, fresh numbers; with `HalfDuplex` nothing is rejected and disconnecting completes | two Go sessions keeping either duty, nine messages one way and two the other, two sessions, 2 frames in flight each way, one loss under `AwaitAcknowledgement` |
| `LostSnrm`, `DefaultProposal`, `SegmentOverflow` | the divergences of section 6 | the smallest instance that shows each |

**Are the bounds enough?** Sequence numbers return after eight messages and
`LinkLossy` sends nine with the largest usable window, so that numbers of two
turns coexist. Two sessions suffice for a number or a flag of one to reach the
next. The code
retransmits no I-frame, and behind a lost one nothing more is accepted: one loss, at
any moment, cuts the stream wherever it can be cut. In
`LinkRestart` three sessions let the old answer that opens the second put the two ends
out of step in the third, which is where more restarts of the client go wrong (section
6); the proof needs no bound. In `Session` nothing is bounded: the session's state is finite once the
arriving frames are. Its two endpoints share no state and each property speaks of
one, so `OneSpec` moves one at a time; the theorems need no such restriction. Two
mishaps in `Segmentation` allow the second to fall on the repair of the first, and
segments of one and two bytes reach each boundary of a maximum of four. In
`Stream` every cut position of every frame occurs, in the flag and in the format
field too. In `Codec` the values are chosen at the places where a form or a limit
changes, and octets 4 and 5 are the first unknown and the first known tag as well
as the last admitted and the first refused length. In `GoHandles` four objects
outnumber the blocks, so that blocks are used again while a late call is under way.
In `GoLink` nine messages take the numbers of a Go session round once, unacknowledged
under `HalfDuplex`, and two sessions let the numbers and flags of one reach the next.

Deadlock is not checked where the messages, sessions or octets of a script run
out; `Session` checks it.

**Fairness.** The library has no scheduler: fairness is what an application owes
that uses it. `FairSpec` says that it pumps the line (`Deliver`, weak), answers
what `ReceiveFrame` left pending and acknowledges now and then. The last three
are strong because of `MaxInFlight`: the code has no such bound, and in the model
a stream of RRs could keep the line full at the very moments another frame could
be written. Nobody is obliged to open, to close or to send. `PersistentSpec` adds
that a client retries `BuildConnectRequest`, as `docs/04_hdlc_session_requirements.md`
section 10 asks. `FairSpec` of `GoLink` asks for the same pumping and the same
answers, and no more.

**Mutants.** Each property of a passing run has a definition marked *Mutant* next
to the one it replaces: a plausible slip that must violate the property.

## 4. The properties in brief

* `FreshOutsideSession`: eight places clear V(S), V(R), V(A); outside a session
  all are zero, so that no number of one session enters the next.
* `HandshakeRoles`: only a disconnected server has an SNRM to answer, only a
  client awaits a connection.
* `WindowRespected`: unacknowledged frames, counted one by one, never exceed the
  transmit window, although each handshake replaces it and whatever N(R) arrives. In
  `Session` windows of 1, 2 (a 258 narrowed to a byte), 3 and 7 are in force; a
  proposal of 9 is bounded by the server's capability. A window of 8 or more, which
  the code takes from its options or from a UA, is not in the instance: with it the
  property fails (section 6).
* `ServerWithinCapability`, `LimitsFixedInSession`, `SenderWithinReceiver`: the
  three halves of negotiation, at one end, over time, and across the line.
* `ReceiverNotOverrun`: a receiver checks neither count nor size of what arrives;
  the handshake, the sender's window test and its codec limit protect it together.
* `ImplementsService`: what three bits are worth. Messages arrive in order, once, and
  an acknowledged message has been delivered: what `ServiceReliable` proves of the
  service. `SequencesCountMessages` says which whole counts the bits stand for.
* `ClientSessionIsShared`, `QuiescentAgreement`, `NothingRejected`: the two ends'
  views of the session, in transit and at rest.
* `ConnectCompletes`, `DisconnectCompletes`, `WindowReopens`: liveness.
* In `GoLink`, `NothingRejected` and `ImplementsService` say what the missing window
  costs: an application that keeps either duty loses nothing by it.
* `OneSenderSession`, `AcknowledgedWasAccepted`: what is accepted within one
  session comes from one session of the sender, from its first message on, and
  acknowledgements stay true, although one end loses its memory.
* `WrittenWithinBounds`, `OwnFramesAccepted`, `ArrivesUnchanged`,
  `DamageDetected`, `DocumentedFieldsRead`: the codec, from the sizes computed before
  anything is written to the meaning at the other end. The last one does not say that
  only documented blocks are taken in, which is false (section 6).
* `NeverMixed`, `BytesInOrder`, `DamageContained`, `WithinMaximum`: reassembly. A
  mishap may cost one message beyond those it touched, because after a lost final
  segment the next message is appended to the remains of the one before.
* `BufferBounded`, `InOrderOnce`, `ExactUntilDisturbed`: the stream decoder.
* `OwnState`, `EntriesAccounted`: a call whose handle is destroyed under it finds
  its object or none; every table entry is in use, about to be, or being removed.

## 5. Proofs

`HdlcSessionProofs`, for every set of endpoints, options, application inputs and
arriving frames that satisfies `OptionsAssumption`, `InputAssumption` and the
assumptions of `HdlcFrames`:

| Theorem | States |
|---|---|
| `TypeCorrect` | `Spec => []TypeOK` |
| `FreshSessions` | `Spec => []FreshOutsideSession` |
| `RolesKept` | `Spec => []HandshakeRoles` |
| `WindowKept` | `WindowSpec => []((\A e \in Endpoint : windowSizeTransmit[e] < Modulus) => WindowRespected)` |
| `LimitsStayFixed` | `Spec => LimitsFixedInSession` |
| `CapabilityKept` | `Spec => []ServerWithinCapability` |

Type correctness is inductive by itself. The safety properties are not. The
window bound holds across a reconnection only because the numbers are zero then
(`FreshOutsideSession`), and freshness is kept by an SNRM only because of who may
be in which state (`HandshakeRoles`): a UA adopts a new, perhaps smaller window,
which is harmless as nothing is outstanding. So the three are proved together, as
`SessionInv` with one conjunct each per endpoint (`FreshAt`, `RolesAt`,
`WindowAt`). `StepIsLocal` says that a step touches one endpoint only; it reduces
the induction to that endpoint, and there one case per action. The arithmetic is
in a few lemmas: an accepted N(R) shrinks the masked difference by what it
acknowledges (`AckShrinks`), a sent frame adds at most one (`SendGrows`).

`WindowAt` speaks of the masked difference, which for windows of seven and more says
nothing. `WindowKept` speaks of the frames themselves: `CountInv` adds that outside a
session none is unacknowledged and that under a window of at most seven the masked
difference is their number, because a frame is built only while fewer than seven are
out (`SendAddsOne`). The hypothesis is needed: with a window of eight the eighth
frame makes the difference zero, and the ninth is built, and so on without end.

`CapabilityKept` follows from `AnswerBounded`: the minimum taken in
`NegotiateParams` and the transcription in `ServerLimits` use the directions
consistently.

`HdlcSegmentationProofs`, for all sources, scripts, maxima, buffers and numbers of
mishaps that satisfy `ScriptAssumption`, `SourceAssumption` and `SizeAssumption`:

| Theorem | States |
|---|---|
| `NoMixing` | `SegmentationSpec => []NeverMixed` |
| `SizesBounded` | `SegmentsFit` implies `SegmentationSpec => []WithinMaximum` |
| `TypesKept` | `SegmentationSpec => []SegmentationTypeOK` |
| `OrderPreserved` | `SegmentationSpec => []BytesInOrder` |
| `DamageStaysLocal` | `SegmentationSpec => []DamageContained` |

`NeverMixed` speaks of the reassembler; what is inductive is `PureInv`, which adds
types and keeps each source within its script, so that the frame that arrives next
is itself pure (`SegmentsOf`, from the segmenter's arithmetic). `ExtendedPure` is
the heart: concatenating compatible frames gives a pure one. `SizesBounded` needs
`SegmentsFit`, that every segment by itself fits the maximum. That hypothesis is
exactly what the unsigned test in the code takes for granted: `OverflowsExactly`
shows that under it the test is the intended one, and the run `SegmentOverflow`
that without it the bound fails. `TypesKept` says more than types: `hasPending_`
tells the truth on every way out of `PushFrame`, the failed copies included, what is
pending still has the segmentation bit and what is handed over has lost it.
`BytesInOrder` looks back only, at what is pending or handed over; `OrderInv` adds that
all of it lies before the place its source has reached, so that whatever arrives next
comes after it.

`DamageContained` counts messages already missing; `DamageInv` counts those that will be.
A message is *charged* when it is missing, or when it is under way and what is pending is
not exactly what its source has sent of it. A pending sequence is *stale* when its source
has since begun the next message: it is a charge not yet made, since whatever comes
next of that source is appended to it or dropped with it. Charges and stale sequences together
never exceed the mishaps, and each step keeps the balance in one of four ways (`Balanced`). It
needs that frames which look alike come from one source (`SourceAssumption`): two
sources under one address and kind would mix their messages without any mishap.
The invariant was checked with TLC first, with two and with three mishaps (194989 and
712391 states).

### The link

`HdlcLinkProofs`, for any options of the two stations, any number of messages,
sessions, frames in flight and losses:

| Theorem | States | Under |
|---|---|---|
| `LinkTypeCorrect` | `LinkSpec => []LinkTypeOK` | |
| `SessionIsShared` | `LinkSpec => []ClientSessionIsShared` | |
| `SequencesCount` | `LinkSpec => []SequencesCountMessages` | `NarrowWindows` |
| `LinkImplementsService` | `LinkSpec => ImplementsService` | `NarrowWindows` |
| `ServiceReliable` | `Service!Spec => []Service!Reliable` | |
| `LinkReliable` | `LinkSpec => []Service!Reliable` | `NarrowWindows` |
| `NeverRejected` | `LinkSpec => []NothingRejected` | `NarrowWindows`, `MaxLosses = 0` |
| `EndsAgree` | `LinkSpec => []QuiescentAgreement` | `NarrowWindows`, `MaxLosses = 0` |
| `LimitsAgree` | `LinkSpec => []SenderWithinReceiver` | `ClientProposes` |
| `ReceiversSpared` | `LinkSpec => []ReceiverNotOverrun` | `ClientProposes` |

The hypotheses are those of the code's documents. `NarrowWindows`: no station's own
capability exceeds the window of 7 that `docs/04:146` allows; the code takes any byte,
and with 8 a full window looks empty to three bits. `MaxLosses = 0`: the two properties
are about a line that loses nothing; a lost frame does make the session reject the next.
`ClientProposes`: a client whose SNRM carries no parameters gets other limits than its
server (finding `DefaultProposal`).

The argument goes in layers, each an invariant that uses the one below
(`HdlcLinkInvariant`):

1. `PhaseInv`: types, addresses, and the *phase* the pair is in. Seven phases
   (`AtRest` to `ClientLeft`) say together in which states the two ends are, which kinds
   of frames may be on either wire and in which order, and which answers may be due. The
   state chart of one session admits far more; that a UA on the line always answers the
   request its receiver has in mind, so that no frame outlives its session, is a fact
   about the pair. `SessionIsShared` can be read off it. One lemma
   per action shows from which phase to which it leads.
2. `LinkInv` adds the numbers. `HistoryAt`: of what e sent the peer has a prefix, and e
   knows of a prefix of that. `SequencesAt`: V(S), V(R), V(A) are those counts modulo 8.
   `WireAt`: an I-frame on the wire carries a message not yet skipped with its own number,
   and the N(R)s along the wire grow between what their receiver knows and what their
   sender has. With at most seven outstanding (`SessionInv`, proved in
   `HdlcSessionProofs`) a three-bit number in that range has one meaning
   (`DistanceOfCounts`), which is all that `SequencesCount` and the step simulation need.
   `Narrow` carries the hypothesis on windows through negotiation.
3. The simulation (`StepServes`): `AcceptConnection` is `Open`, `SendMessage` is `Submit`,
   the delivery of an accepted I-frame is `Hand`, that of an RR `Confirm`, and every other
   step a stutter, losses and rejections included. `ServiceReliable` is about the abstract
   service alone, for whose promise `ServiceTypeOK` is strengthening enough;
   `LinkReliable` follows from the two.
4. `LosslessInv`: the messages on a wire are exactly those not yet delivered, so the next one
   carries the number expected; and a client that has not heard of its session has its
   UA under way. `NeverRejected` and `EndsAgree` follow.
5. `AgreementInv`: what either may send is what the other receives, from the moment the
   server adopts the parameters, with the UA on the line standing for the client that has
   not read it yet, and with every I-frame on the wire within the limits of its session.

TLC evaluated these before they were proved: `LinkInv` on the instance of `LinkLossy`
(321150 states), and with two losses of a smaller one (44548), `LosslessInv` and
`AgreementInv` on `LinkLossless` (17959), `AgreementInv` with two losses (44548).
Adding `INVARIANT LinkInv` to `LinkLossy.cfg`, or the other two to `LinkLossless.cfg`,
repeats it.

### A link that one end abandons

`HdlcRestartProofs`, for any options, messages, sessions, frames in flight and losses:

| Theorem | States | Under |
|---|---|---|
| `NoForeignMessage` | `RestartSpec => []OneSenderSession` | `NarrowWindows`, `OneEndAbandons` |
| `NoForeignAcknowledgement` | `RestartSpec => []AcknowledgedWasAccepted` | `NarrowWindows`, `OneEndAbandons` |

`OneEndAbandons` says which ends may be constructed anew: the server as often as it
likes and the client never, or the client once and the server never. It is not a
convenience. With two restarts of the client, or one of each end, TLC finds the
properties violated (section 6), so that this is where the code keeps its promise.

The two ends enter and leave a session no longer in the order the phases of `LinkInv`
describe, and whole counts like `delivered` that begin with a session have no common
beginning. `RestartInv` differs in two points.

1. The counts are read off the history instead: what an end has accepted is the number
   of the last message it accepted in its present session (`Taken`). An end that has not
   begun the session the other is in stands in a set F, and counts nothing: what its
   variables still say belongs to the session before. `Numbers(F)` relates the counts,
   the three-bit numbers and the frames under that reading. In a wire a UA marks where
   the server's part of a session begins; what lies before one is of an earlier session
   and need not fit (`Live`), since a client that waits for the UA does not take it.
2. There are two sets of phases. While the client has not been restarted (`Steady`), each
   session begins with both wires empty, because the client never asks for the next before
   its DISC was answered, and a server that has lost its session refuses everything until
   then. Restarts of the server therefore only cut sessions short, and any number of them
   can be allowed. Once the client has been restarted (`Anew`), two SNRMs may be under way
   and two UAs; `Paired` and `UaOutermost` say where these can be. Three of the six phases
   have no counterpart before. In `AnewInUse` a second UA may still come, which is
   taken for the answer to the client's DISC; then the client has `Left` while the server
   is still in the session. In `Ahead` the client took the answer to the DISC of its
   abandoned session for that to its SNRM: it sends into a session that the server opens
   only when it reads that SNRM, and F holds the server until it does.

What the client's second restart breaks is `Ahead`: it abandons the session it is ahead
in, and the messages of that one reach the server before those of the next.

TLC evaluated `RestartInv` before it was proved: on the instance of `LinkRestart`
(439879 states; adding `INVARIANT RestartInv` to `LinkRestart.cfg` repeats it) and with
three frames in flight (1049280).

### The Go session and its link

`GoLinkProofs`. The first three are about one session, for every set of endpoints, options
and arriving frames, the others about the link, for any number of messages, sessions and
frames in flight, and losses where the duty is `AwaitAcknowledgement`:

| Theorem | States |
|---|---|
| `TypeCorrect` | `Spec => []TypeOK` |
| `FreshSessions` | `Spec => []FreshOutsideSession` |
| `RolesKept` | `Spec => []HandshakeRoles` |
| `HalfDuplexTakesAll` | `LinkSpec => []NothingRejected` |
| `GoLinkImplementsService` | `LinkSpec => ImplementsService` |
| `GoLinkReliable` | `LinkSpec => []Service!Reliable` |

The conjunction of the first three is inductive (`SessionInv`): an SNRM clears numbers
that are zero already, its answer is due only while the session is disconnected,
and the stale answer to a DISC can only end a session.

`GoLinkInv` has the phases and counts of the C++ link, but no window to make three bits
enough. In its place stands what the duty gives. Under `AwaitAcknowledgement` at most one message is
unacknowledged, so N(R) is one of two numbers, and along a wire it changes once, from
the count the receiver of the wire knows to the count it does not (`AwaitAt`). Under
`HalfDuplex` any number may be unacknowledged and the argument is another:
one wire is empty, and what is on the other was written when everything sent to its
writer had been delivered (`ConfirmsAll`), so the N(R) of each frame equals V(S) of its
receiver as a whole count, not only modulo 8; and what the receiver has not been given
is still on the wire (`Complete`), which is why nothing is skipped. This needs the
receiver to *listen*: a client that awaits the UA has nothing delivered yet and hears
the frames behind it (`Listens`), one that is closing refuses them. TLC checked its conjuncts
on the instance of `GoLink` (96553 states).

### The Go handles

`GoHandlesProofs`, for any number of threads, blocks and objects:

| Theorem | States |
|---|---|
| `HandlesReachTheirObjects` | `Spec => []OwnState` |
| `EntriesKept` | `Spec => []EntriesAccounted` |
| `HandlesTypeCorrect` | `Spec => []TypeOK` |

`OwnState` speaks of the last step of a call only; what carries it there is
`Inv`. Its centre is `OneHolder`: every object that has an entry is held once, by
the block a caller has or by the thread that creates or destroys it, and so is
every block (`Blocks`). That gives each entry one owner (`Entries`, `Accounted`),
so removing one or freeing a block never takes it from somebody else. A call that
has read its number before the handle was destroyed holds nothing any more;
`Users` says what it may still find: numbers are not used twice
(`id < nextHandleID`), so the entry under its number is its own object's or none.
The callers' obligation enters in one place, `BeginDestroyInv`. A call's remaining
steps are one of eleven tuples (`Stages`), which makes each action one case.

The types include that a handle number stays within the objects created. `Counted`
counts for it: the numbers given out and the threads that still wait to register an
object are together as many as the objects created (`NumbersCount`), and a block holds
a number given out or 0 (`HeapTyped`).

### The codec

`HdlcTransferProofs`, for all addresses, control fields, Information fields, limits and
buffer sizes; the last five for any frames that sessions, callers of the C API or
strangers send, as far as `TransferAssumption` allows:

| Theorem | States |
|---|---|
| `FrameRoundTrip` | `DecodeFrameFromBuffer` gives back the frame that `EncodeFrameToBuffer` wrote |
| `WritingStaysInBounds` | `TransferSpec => []WrittenWithinBounds` |
| `AcceptsOwnFrames` | `TransferSpec => []OwnFramesAccepted` |
| `ArrivesAsSent` | `TransferSpec => []ArrivesUnchanged` |
| `ForeignFieldsRead` | `TransferSpec => []DocumentedFieldsRead` |
| `SingleErrorsDetected` | `TransferSpec => [](Cardinality(flips) <= 1 => DamageDetected)` |

`FrameRoundTrip` leaves the CRC opaque: encoder and decoder compute it of the same octets,
which `FrameLayout` shows by saying what stands at each place of the encoded frame. The
decoder does not know where an address ends before it has read the extension bits;
`AddressesRead` is the lemma that it finds them where the encoder put them, for the nine
pairs of sizes. `FormatAccepted` has the arithmetic of the format field: a length the
encoder lets out is one of eleven bits that the decoder's tests let in.

`TransferInv` says that while no bit is inverted the line holds the encoding of the frame
sent and the outcome is that frame. `ArrivesAsSent` then needs what the session reads out
of it: three-bit numbers from their places in the control field (`NumbersRead`), and the
parameter block (`BlockRead`), which the loop of `ParseGroup` reads parameter by
parameter. That this loop is a function at all, for every buffer, is an induction over
the position (`ReaderExists`); the induction is on sets of numbers (`Induction`, from
the library's theorem that a well-founded relation has minimal elements), because the
library's own induction theorems take an operator, which the provers cannot instantiate.

`ForeignFieldsRead` compares that loop with a reference that has none: the grammar asks
for a set of cuts, any set, whose pieces all are parameters, and takes the last piece
with a tag. Two inductions from the end of the group join them. `CutsAreRead`: from
wherever the group can be cut, the loop reads on without an error (`FitsIsTagged`:
the tests of one round are those of `IsTagged`). `ReadIsCut`: what the loop reads
without an error can be cut, and its values are those of the cuts; and
there is one way to cut a group only (`OneWayToCut`). This holds of `IsGroup`, hence
of the documented groups among them. Each round puts one
piece before the others (`PieceBefore`), and the value it reads is kept only where no
later piece has its tag (`ToldBefore`), as a later `Assign` overwrites an earlier one.
`BigEndianValue` is the loop of `ParseBeValue`, one to four bytes.

`SingleErrorsDetected` rests on `OneBitApart`: no two octet sequences that `DecodeFrame`
accepts differ in one bit. A flag must be 7Eh. Any other octet is under the FCS or part
of it. If the bit is in the FCS, its two octets no longer are the CRC of what precedes
them. If it is before the FCS, the CRCs differ (`CrcApart`): a CRC is a loop of rounds,
and two loops that differ in one round end apart if every later round takes different
words to different words (`LoopsApart`). The round of a bit does: the exclusive-or with
8408h sets the highest bit, which the shift left clear, so the result tells whether a one
was shifted out (`ShiftApart`). The same holds of the round of an octet, eight of them
(`UpdateApart`). For these proofs `HdlcCodec` writes the two loops of `hdlc_crc.cpp` as
functions of one argument that give functions: the provers do not know functions of two.

### The stream decoder

`HdlcStreamProofs`, for any transmission, noise, limits, rooms and number of mishaps that
satisfy `StreamAssumption`:

| Theorem | States | Under |
|---|---|---|
| `StreamTypesKept` | `StreamSpec => []StreamTypeOK` | |
| `BufferStaysBounded` | `StreamSpec => []BufferBounded` | effective limit at least 3 |
| `ChunkingIrrelevant` | reading a, then x with what a left, is reading a and x at once | no error in a |
| `ExactExtraction` | `StreamSpec => []ExactUntilDisturbed` | `FramesAndNoise` |

The loop of `Push` is a recursive function on the buffer, and nothing is known of one
before it is shown that a function with that recursion exists. It does because each round
leaves a shorter buffer (`ReadingStep`, from `RightExists` and `OneReading`): the loop
always ends. Everything said of it afterwards is an induction of the form that a shortest
counterexample would have a shorter one (`Shortest`). `ReadingResult` gives what a call
leaves behind: nothing, or a flag and the beginning of a frame that is still too short.

`ChunkingIrrelevant` has one difficult case, a cut inside a frame: the decoder looks at
the octets it has and must not decide what more octets would have made it decide
otherwise. It holds under either noise policy, and its hypothesis is needed: an error
empties the buffer, and how much is lost with it depends on the cut (the last entry of
section 6).

`ReadSoFar` carries it through the steps: while there was no mishap, the buffer and the
frames are those of one reading of all octets consumed. `ReadUpTo` then computes that
reading for the transmission as it was sent, and `NoErrorAnywhere` that no cut of it
makes an error. The two hypotheses are what the code takes for granted. Two octets wait
for the third before any limit is looked at, so a smaller limit than 3 bounds nothing; and
noise that contains a flag can announce a frame that swallows real ones.

### Only model-checked

Liveness, as fairness and `ENABLED` are out of the prover's reach. `InOrderOnce`: for
arbitrary damage it is false, since damaged octets may happen to be a frame that was sent
elsewhere; that two mishaps do not forge one of the three frames of the instance is a
matter of their octets. `DamageDetected` for two inverted bits: that no two bits as far
apart as a frame is long cancel is a matter of the polynomial's order, thousands of
rounds from one bit to the other; one bit is proved.

## 6. Where documents and code differ

With a run that shows it:

1. `LostSnrm`. `BuildConnectRequest` refuses in `AwaitingConnection`
   (`hdlc_session.cpp:322`), and only a UA or DM leaves that state. After a lost
   SNRM or UA the client cannot repeat the request, which
   `docs/04_hdlc_session_requirements.md:296` asks it to do.
2. `DefaultProposal`. An SNRM without parameters leaves the server at its own
   capabilities; `docs/04:176` gives both sides the defaults.
3. `SegmentOverflow`. `maximum - size` wraps around when one segment is larger
   than the maximum (`hdlc_segmentation.cpp:151`), and the overflow of
   `docs/03_hdlc_segmentation.md:90` is not reported.

Seen while modelling, without a run:

* A DISC is rejected in `AwaitingDisconnect` (`:734`): two stations that send DISC
  at once wait for each other's UA forever, on a lossless line, against
  `docs/architecture.md:101` and `hdlc_session.hpp:37`. `DisconnectCompletes`
  therefore excepts a peer that waits too.
* A failing push of the C API leaves the frames of earlier calls in the queue
  (`hdlc_c_api.cpp:259`); the header says that on error the decoder is reset (`:213`),
  and that a reset discards decoded frames that wait (`:197`).
* RNR, REJ and SREJ are treated as RR (`hdlc_session.cpp:615`): a busy peer is not
  respected. No document says that it is.
* The Go session refuses a DISC in `AwaitingDisconnect` too (`session.go:272`), and
  after two I-frames that crossed nothing more is accepted at either end (`:220`):
  neither duty of `GoLink` is stated where a Go application would look for it.
* A malformed SNRM after a good one must be answered by DM (`docs/04:171`); the UA
  of the first can still be built, and connects (`:660`).
* `docs/04` section 10 asks for `Reset()` after a timeout; `HdlcSession` has none.
  After one end is constructed anew its SNRM and DISC are rejected by a peer that
  is still in the old session: the two never meet again unless both restart.
* With restarts of both ends `AcknowledgedWasAccepted` fails: two SNRMs in flight
  open a session whose ends take different UAs for the start. With two restarts of
  the client both properties of `HdlcRestart` fail, on a line that loses nothing: the
  client takes the late UA of its old DISC for the answer to its new SNRM and sends a
  message; it is restarted, and calls again; the server, which has now accepted the
  first of these SNRMs, accepts that message, and then in the same session the
  messages of the next. (`LinkRestart` with two restarts of the client shows it.)
  No document says how long an application has to wait before it calls again. Even once, after the
  client's abort the late UA of its old DISC is taken for the answer to its new
  SNRM: it is Connected with limits nobody negotiated. Nothing in a UA tells the
  two apart, and no document promises that it does.
* Limits are adopted before the UA is encoded (`hdlc_session.cpp:390`); when the
  encoding fails, `NegotiatedLimits()` of a session that never connected reports
  them, against `hdlc_session.hpp:123`.
* A proposed window of 0 is answered with 0 (`:190`), against `docs/04:202`.
* Windows above the 7 of `docs/04:146` and `hdlc_session.hpp:53` are accepted, from the
  options and from a UA. Since V(S) - V(A) is taken modulo 8 (`:278`) they are no
  windows: a session never stops sending. (`Session` with a client capability of 9
  shows ten unacknowledged frames, against `hdlc_session.hpp:217`.)
* `ParseSnrmInfoField` accepts one to four bytes for every tag, where `docs/04`
  lines 122-123 fix one or two for an information size and four for a window: `05 04 ..`
  and `07 01 ..` are taken in (`hdlc_session.cpp:121`). `DocumentedFieldsRead` demands
  neither that they are nor that they are not. A field without the header 81h 80h is
  user information.
* `DecodeFrameFromBuffer` accepts an HCS that no information follows, a form
  `EncodeFrameToBuffer` never writes.
* `BuildDisconnectRequest` does not look at the role (`:430`), against
  `hdlc_session.hpp:20,22`.
* A DM after a DISC leaves `disconnectResponsePending_` set (`:747`): the UA can
  then be built outside any session, against `docs/architecture.md:102`, and within a
  later one, which it ends without the peer's knowledge. So it is in the Go session
  (`session.go:278`).
* After a lost final segment the next message of the same station is appended to
  the remains, and its first segment is not recognised as a new sequence
  (`hdlc_segmentation.cpp:143`, `docs/03:99`).
* The segmenter does not look at the frame size, only at a default of 2030
  (`hdlc_segmentation.cpp:11`, `docs/03` section 4).
* The session always builds frames with `segmented = false`
  (`hdlc_session.cpp:565`): it cannot send a segment.
* After one stray flag between two frames a decoder that is fed octet by octet
  takes each closing flag for an opening one and resets on every frame
  (`hdlc_stream_decoder.cpp:82`), for good; fed whole frames it recovers. No
  document promises either.

## 7. Not modelled, and why

The codec, stream decoder and reassembler of the Go port make the same decisions as
those of the C++ library, so that modules of them would repeat the ones here. Of the Go C ABI the conversions of structures and what a
decoder does once found are left out; its threads, tables and blocks are modelled.

Null arguments return before anything changes. Allocation failures inside a
session or the one-shot codec functions abandon a half-built frame and are left
out; in the stream decoder, the reassembler and the handles they are modelled.
`ValidateHdlcCrc` is called by nothing. Peers that answer with RNR, REJ or SREJ
are in the open environment of `Session`; the code treats them as RR, and the
link never builds them. Build files, status texts and tests have no behaviour to
model.

## 8. Plan

Done: the session, the line with and without restarts, the service, the codec
down to octets, segmentation, the stream decoder, the C API, the Go session alone
and on a line, and the Go handles.

Proved: the safety properties of the session, of reassembly, of the Go handles, of the
link, also when one end abandons it, and of the Go link, both refinements, the round trip
of the codec, an inverted bit detected, documented parameter blocks read as such, and
bounded and exact extraction by the stream decoder.

Not planned: a proof of what section 5 lists as only model-checked.
