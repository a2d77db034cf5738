------------------------- MODULE HdlcSessionProofs -------------------------
(***************************************************************************)
(* Theorems about one session in an open environment, for every set of     *)
(* endpoints, options, application inputs and arriving frames, and lemmas  *)
(* about the line between two, whether or not one of them is abandoned.    *)
(***************************************************************************)
EXTENDS HdlcWires, HdlcWindow, TLAPS

-----------------------------------------------------------------------------
(***************************************************************************)
(* Arithmetic modulo eight.                                                *)
(***************************************************************************)

\* The masked difference, without the modulus.
LEMMA DistanceValue ==
    ASSUME NEW a \in SequenceNumber, NEW b \in SequenceNumber
    PROVE  Distance(a, b) = IF a <= b THEN b - a ELSE b - a + 8
BY DEF Distance, SequenceNumber, Modulus

LEMMA NextValue ==
    ASSUME NEW a \in SequenceNumber
    PROVE  /\ NextSequence(a) = IF a = 7 THEN 0 ELSE a + 1
           /\ NextSequence(a) \in SequenceNumber
BY DEF NextSequence, SequenceNumber, Modulus

\* An acknowledgement accepted by the window test leaves what lies between it
\* and V(S); one more frame adds one, as long as fewer than seven are out.
LEMMA AckShrinks ==
    ASSUME NEW a \in SequenceNumber, NEW n \in SequenceNumber, NEW s \in SequenceNumber,
           Distance(a, n) <= Distance(a, s)
    PROVE  Distance(n, s) = Distance(a, s) - Distance(a, n)
<1> a \in 0..7 /\ n \in 0..7 /\ s \in 0..7
    BY DEF SequenceNumber, Modulus
<1> QED
    BY DistanceValue

LEMMA SendGrows ==
    ASSUME NEW a \in SequenceNumber, NEW s \in SequenceNumber
    PROVE  Distance(a, NextSequence(s)) <= Distance(a, s) + 1
<1> a \in 0..7 /\ s \in 0..7
    BY DEF SequenceNumber, Modulus
<1> QED
    BY DistanceValue, NextValue

LEMMA DistanceNat ==
    ASSUME NEW a \in SequenceNumber, NEW b \in SequenceNumber
    PROVE  Distance(a, b) \in Nat /\ Distance(a, a) = 0
<1> a \in 0..7 /\ b \in 0..7
    BY DEF SequenceNumber, Modulus
<1> QED
    BY DistanceValue

-----------------------------------------------------------------------------
(***************************************************************************)
(* Types of the limits that are computed.                                  *)
(***************************************************************************)
LEMMA LocalLimitsType ==
    ASSUME NEW e \in Endpoint
    PROVE  LocalLimits(e) \in Limits
<1>1. Options[e].negotiationLimits \in Limits
    BY OptionsAssumption DEF HdlcSessionOptions
<1> QED
    BY <1>1 DEF LocalLimits, Normalise, OrDefault, Limits, DefaultMaxInfoFieldLength,
                DefaultWindowSize

LEMMA NegotiateParamsType ==
    ASSUME NEW p \in Params, NEW l \in Limits
    PROVE  NegotiateParams(p, l) \in Params
BY DEF NegotiateParams, Params, Limits, Smaller

LEMMA LimitsOfParamsType ==
    ASSUME NEW p \in Params
    PROVE  ServerLimits(p) \in Limits /\ ClientLimits(p) \in Limits
BY DEF ServerLimits, ClientLimits, Params, Limits

LEMMA UnnumberedArrives ==
    ASSUME NEW f \in Frame, f.kind \in UnnumberedKind
    PROVE  f.block \in NegotiationBlock /\ f.user \in Nat
<1>1. f \in UnnumberedFrame
    BY DEF Frame, InformationFrame, SupervisoryFrame, UnnumberedKind,
                           SupervisoryKind
<1> QED
    BY <1>1 DEF UnnumberedFrame

LEMMA SequencedArrives ==
    ASSUME NEW f \in Frame, f.kind \in SupervisoryKind \cup {"I"}
    PROVE  f.nr \in SequenceNumber
<1>1. f \in SupervisoryFrame \/ f \in InformationFrame
    BY DEF Frame, UnnumberedFrame, UnnumberedKind, SupervisoryKind
<1> QED
    BY <1>1 DEF SupervisoryFrame, InformationFrame

-----------------------------------------------------------------------------
(***************************************************************************)
(* Type correctness.                                                       *)
(***************************************************************************)
LEMMA InitTypeOK == Init => TypeOK
<1> SUFFICES ASSUME Init PROVE TypeOK
    OBVIOUS
<1>1. \A e \in Endpoint : /\ LocalLimits(e) \in Limits
                          /\ LocalLimits(e).windowTransmit \in Nat
                          /\ Options[e].limits.maximumInformationFieldSize \in Nat
    BY LocalLimitsType, OptionsAssumption DEF Limits, HdlcSessionOptions, CodecLimits
<1>2. NoBlock \in NegotiationBlock /\ 0 \in SequenceNumber
    BY DEF NoBlock, NegotiationBlock, DefaultSnrmParams, Params, SequenceNumber, Modulus,
           DefaultMaxInfoFieldLength, DefaultWindowSize
<1> QED
    BY <1>1, <1>2 DEF Init, TypeOK, SessionState

LEMMA ResetType ==
    ASSUME TypeOK, NEW e \in Endpoint, ResetSequences(e)
    PROVE  /\ sendSequence' \in [Endpoint -> SequenceNumber]
           /\ receiveSequence' \in [Endpoint -> SequenceNumber]
           /\ acknowledgeSequence' \in [Endpoint -> SequenceNumber]
           /\ sendSequence'[e] = 0 /\ receiveSequence'[e] = 0 /\ acknowledgeSequence'[e] = 0
BY DEF TypeOK, ResetSequences, SequenceNumber, Modulus

LEMMA AdoptType ==
    ASSUME TypeOK, NEW e \in Endpoint, NEW l \in Limits, Adopt(e, l)
    PROVE  /\ negotiatedLimits' \in [Endpoint -> Limits]
           /\ windowSizeTransmit' \in [Endpoint -> Nat]
           /\ maximumInformationFieldSize' \in [Endpoint -> Nat]
<1>1. l.windowTransmit \in Nat /\ l.infoTransmit \in Nat
    BY DEF Limits
<1> QED
    BY <1>1 DEF TypeOK, Adopt

LEMMA AdoptAnswerType ==
    ASSUME TypeOK, NEW e \in Endpoint, AdoptAnswer(e)
    PROVE  /\ negotiatedLimits' \in [Endpoint -> Limits]
           /\ windowSizeTransmit' \in [Endpoint -> Nat]
           /\ maximumInformationFieldSize' \in [Endpoint -> Nat]
<1>1. ServerLimits(Answer(e)) \in Limits
    BY LocalLimitsType, NegotiateParamsType, LimitsOfParamsType
       DEF TypeOK, NegotiationBlock, Answer
<1>2. CASE pendingNegotiation[e].form = "present"
    BY <1>1, <1>2, AdoptType DEF AdoptAnswer
<1>3. CASE pendingNegotiation[e].form # "present"
    BY <1>3 DEF AdoptAnswer, TypeOK, negotiated
<1> QED
    BY <1>2, <1>3

\* A step of e in which any frame at all may arrive: what holds of it holds of
\* Step, whatever Arriving is, and of the sessions of a link.
FrameStep(e) ==
    \/ \E form \in ConnectRequestForms(e) : BuildConnectRequest(e, form)
    \/ BuildConnectResponse(e)
    \/ BuildConnectResponseTooLarge(e)
    \/ \E user \in UserSizes : BuildDisconnectRequest(e, user)
    \/ BuildDisconnectResponse(e)
    \/ BuildDmResponse(e)
    \/ \E size \in InfoSizes : BuildInformationFrame(e, size)
    \/ BuildReceiveReadyFrame(e)
    \/ \E f \in Frame : ReceiveFrame(e, f)

LEMMA FrameStepTypeOK ==
    ASSUME TypeOK, NEW e \in Endpoint, FrameStep(e)
    PROVE  TypeOK'
<1> USE DEF sequences, pending, negotiated
<1>1. ASSUME NEW form \in ConnectRequestForms(e), BuildConnectRequest(e, form) PROVE TypeOK'
  BY <1>1, ResetType DEF BuildConnectRequest, TypeOK, SessionState
<1>2. CASE BuildConnectResponse(e)
  BY <1>2, ResetType, AdoptAnswerType
     DEF BuildConnectResponse, TypeOK, SessionState, NegotiationBlock
<1>3. CASE BuildConnectResponseTooLarge(e)
  BY <1>3, AdoptAnswerType DEF BuildConnectResponseTooLarge, TypeOK
<1>4. ASSUME NEW user \in UserSizes, BuildDisconnectRequest(e, user) PROVE TypeOK'
  BY <1>4 DEF BuildDisconnectRequest, TypeOK, SessionState
<1>5. CASE BuildDisconnectResponse(e)
  BY <1>5, ResetType DEF BuildDisconnectResponse, TypeOK, SessionState
<1>6. CASE BuildDmResponse(e)
  BY <1>6 DEF BuildDmResponse, TypeOK
<1>7. ASSUME NEW size \in InfoSizes, BuildInformationFrame(e, size) PROVE TypeOK'
  BY <1>7, NextValue DEF BuildInformationFrame, TypeOK
<1>8. CASE BuildReceiveReadyFrame(e)
  BY <1>8 DEF BuildReceiveReadyFrame, sessionVars, TypeOK
<1>9. ASSUME NEW f \in Frame, ReceiveFrame(e, f) PROVE TypeOK'
  <2>1. CASE ReceiveInformationFrame(e, f)
    BY <2>1, SequencedArrives, NextValue DEF ReceiveInformationFrame, TypeOK
  <2>2. CASE ReceiveSupervisoryFrame(e, f)
    BY <2>2, SequencedArrives DEF ReceiveSupervisoryFrame, TypeOK
  <2>3. CASE ReceiveSnrm(e, f)
    <3>1. f.block \in NegotiationBlock /\ f.user \in Nat
      BY <2>3, UnnumberedArrives DEF ReceiveSnrm, UnnumberedKind
    <3>2. pendingNegotiation' \in [Endpoint -> NegotiationBlock]
      BY <2>3, <3>1 DEF ReceiveSnrm, TypeOK, NegotiationBlock
    <3> QED
      BY <2>3, <3>1, <3>2, ResetType DEF ReceiveSnrm, TypeOK
  <2>4. CASE ReceiveMalformedSnrm(e, f)
    BY <2>4 DEF ReceiveMalformedSnrm, TypeOK, NegotiationBlock
  <2>5. CASE ReceiveConnectUa(e, f)
    <3>1. ClientLimits(f.block.params) \in Limits
      BY <2>5, UnnumberedArrives, LimitsOfParamsType
         DEF ReceiveConnectUa, UnnumberedKind, NegotiationBlock
    <3>2. /\ negotiatedLimits' \in [Endpoint -> Limits]
          /\ windowSizeTransmit' \in [Endpoint -> Nat]
          /\ maximumInformationFieldSize' \in [Endpoint -> Nat]
      BY <2>5, <3>1, AdoptType DEF ReceiveConnectUa, TypeOK
    <3> QED
      BY <2>5, <3>2, ResetType DEF ReceiveConnectUa, TypeOK, SessionState
  <2>6. CASE ReceiveDisconnectUa(e, f)
    BY <2>6, ResetType DEF ReceiveDisconnectUa, TypeOK, SessionState
  <2>7. CASE ReceiveDisc(e, f)
    <3>1. InformationSize(f.block, f.user) \in Nat
      BY <2>7, UnnumberedArrives
         DEF ReceiveDisc, UnnumberedKind, InformationSize, NegotiationBlockSize
    <3> QED
      BY <2>7, <3>1 DEF ReceiveDisc, TypeOK
  <2>8. CASE ReceiveDm(e, f)
    BY <2>8, ResetType DEF ReceiveDm, TypeOK, SessionState
  <2>9. CASE RejectFrame(e, f)
    BY <2>9 DEF RejectFrame, sessionVars, TypeOK
  <2> QED
    BY <1>9, <2>1, <2>2, <2>3, <2>4, <2>5, <2>6, <2>7, <2>8, <2>9 DEF ReceiveFrame
<1> QED
  BY <1>1, <1>2, <1>3, <1>4, <1>5, <1>6, <1>7, <1>8, <1>9 DEF FrameStep

LEMMA UnchangedTypeOK ==
    ASSUME TypeOK, UNCHANGED sessionVars
    PROVE  TypeOK'
BY DEF sessionVars, sequences, pending, negotiated, TypeOK

LEMMA StepIsFrameStep ==
    ASSUME NEW e \in Endpoint, Step(e)
    PROVE  FrameStep(e)
BY InputAssumption DEF Step, FrameStep

LEMMA StepTypeOK == TypeOK /\ [Next]_sessionVars => TypeOK'
BY FrameStepTypeOK, UnchangedTypeOK, StepIsFrameStep DEF Next

\* The fields of every session keep their types in every behaviour: in
\* particular V(S), V(R) and V(A) stay within three bits.
THEOREM TypeCorrect == Spec => []TypeOK
<1> QED
    BY InitTypeOK, StepTypeOK, PTL DEF Spec

-----------------------------------------------------------------------------
(***************************************************************************)
(* The inductive invariant.  A session reads and writes its own fields     *)
(* only, so it is stated for one endpoint.  The window needs the other two *)
(* parts: the window size changes while no session is open, and there      *)
(* FreshAt says that nothing is outstanding; that it changes only then is  *)
(* what RolesAt says of the server, whose answer is due only while it is   *)
(* disconnected.                                                           *)
(***************************************************************************)
FreshAt(e) ==
    state[e] \in {"Disconnected", "AwaitingConnection"} =>
        sendSequence[e] = 0 /\ receiveSequence[e] = 0 /\ acknowledgeSequence[e] = 0

RolesAt(e) ==
    /\ connectResponsePending[e] => Role(e) = "Server" /\ state[e] = "Disconnected"
    /\ state[e] = "AwaitingConnection" => Role(e) = "Client"

WindowAt(e) == Outstanding(e) <= windowSizeTransmit[e]

SessionInvAt(e) == FreshAt(e) /\ RolesAt(e) /\ WindowAt(e)

SessionInv == TypeOK /\ \A e \in Endpoint : SessionInvAt(e)

\* A step of one session leaves every field of the others alone.
LEMMA StepIsLocal ==
    ASSUME TypeOK, NEW e \in Endpoint, FrameStep(e), NEW x \in Endpoint, x # e
    PROVE  /\ state'[x] = state[x]
           /\ sendSequence'[x] = sendSequence[x]
           /\ receiveSequence'[x] = receiveSequence[x]
           /\ acknowledgeSequence'[x] = acknowledgeSequence[x]
           /\ connectResponsePending'[x] = connectResponsePending[x]
           /\ negotiatedLimits'[x] = negotiatedLimits[x]
           /\ windowSizeTransmit'[x] = windowSizeTransmit[x]
           /\ maximumInformationFieldSize'[x] = maximumInformationFieldSize[x]
<1> USE DEF TypeOK, sequences, pending, negotiated, ResetSequences, Adopt
<1>1. CASE \E form \in ConnectRequestForms(e) : BuildConnectRequest(e, form)
  BY <1>1 DEF BuildConnectRequest
<1>2. CASE BuildConnectResponse(e) \/ BuildConnectResponseTooLarge(e)
  BY <1>2 DEF BuildConnectResponse, BuildConnectResponseTooLarge, AdoptAnswer
<1>3. CASE \E user \in UserSizes : BuildDisconnectRequest(e, user)
  BY <1>3 DEF BuildDisconnectRequest
<1>4. CASE BuildDisconnectResponse(e) \/ BuildDmResponse(e)
  BY <1>4 DEF BuildDisconnectResponse, BuildDmResponse
<1>5. CASE \E size \in InfoSizes : BuildInformationFrame(e, size)
  BY <1>5 DEF BuildInformationFrame
<1>6. CASE BuildReceiveReadyFrame(e)
  BY <1>6 DEF BuildReceiveReadyFrame, sessionVars
<1>7. ASSUME NEW f \in Frame, ReceiveInformationFrame(e, f) \/ ReceiveSupervisoryFrame(e, f)
      PROVE  sendSequence'[x] = sendSequence[x] /\ receiveSequence'[x] = receiveSequence[x]
             /\ acknowledgeSequence'[x] = acknowledgeSequence[x]
             /\ UNCHANGED <<state, pending, negotiated>>
  BY <1>7 DEF ReceiveInformationFrame, ReceiveSupervisoryFrame
<1>8. ASSUME NEW f \in Frame,
             ReceiveSnrm(e, f) \/ ReceiveMalformedSnrm(e, f) \/ ReceiveDisc(e, f)
      PROVE  sendSequence'[x] = sendSequence[x] /\ receiveSequence'[x] = receiveSequence[x]
             /\ acknowledgeSequence'[x] = acknowledgeSequence[x]
             /\ connectResponsePending'[x] = connectResponsePending[x]
             /\ UNCHANGED <<state, negotiated>>
  BY <1>8 DEF ReceiveSnrm, ReceiveMalformedSnrm, ReceiveDisc
<1>9. CASE \E f \in Frame :
             ReceiveConnectUa(e, f) \/ ReceiveDisconnectUa(e, f) \/ ReceiveDm(e, f)
  BY <1>9 DEF ReceiveConnectUa, ReceiveDisconnectUa, ReceiveDm
<1>10. CASE \E f \in Frame : RejectFrame(e, f)
  BY <1>10 DEF RejectFrame, sessionVars
<1> QED
  BY <1>1, <1>2, <1>3, <1>4, <1>5, <1>6, <1>7, <1>8, <1>9, <1>10 DEF FrameStep, ReceiveFrame

LEMMA OutstandingNat ==
    ASSUME TypeOK, NEW e \in Endpoint
    PROVE  Outstanding(e) \in Nat /\ windowSizeTransmit[e] \in Nat
BY DistanceNat DEF TypeOK, Outstanding

\* Resetting the sequence variables satisfies FreshAt and WindowAt at once.
LEMMA ResetGivesInv ==
    ASSUME TypeOK, TypeOK', NEW e \in Endpoint, ResetSequences(e)
    PROVE  FreshAt(e)' /\ WindowAt(e)'
<1>1. sendSequence'[e] = 0 /\ receiveSequence'[e] = 0 /\ acknowledgeSequence'[e] = 0
  BY ResetType
<1>2. Outstanding(e)' = 0
  BY <1>1 DEF Outstanding, Distance, Modulus
<1>3. windowSizeTransmit'[e] \in Nat
  BY DEF TypeOK
<1> QED
  BY <1>1, <1>2, <1>3 DEF FreshAt, WindowAt

LEMMA AckGivesWindow ==
    ASSUME TypeOK, NEW e \in Endpoint, SessionInvAt(e), NEW n \in SequenceNumber,
           AckInWindow(e, n), state[e] = "Connected",
           acknowledgeSequence' = [acknowledgeSequence EXCEPT ![e] = n],
           UNCHANGED <<state, sendSequence, pending, negotiated>>
    PROVE  SessionInvAt(e)'
<1>1. /\ acknowledgeSequence[e] \in SequenceNumber /\ sendSequence[e] \in SequenceNumber
      /\ acknowledgeSequence'[e] = n /\ sendSequence'[e] = sendSequence[e]
      /\ windowSizeTransmit'[e] = windowSizeTransmit[e] /\ windowSizeTransmit[e] \in Nat
  BY DEF TypeOK, negotiated
<1>2. Outstanding(e)' = Outstanding(e) - Distance(acknowledgeSequence[e], n)
  BY <1>1, AckShrinks DEF Outstanding, AckInWindow
<1>3. Outstanding(e) \in Nat /\ Distance(acknowledgeSequence[e], n) \in Nat
  BY <1>1, DistanceNat DEF Outstanding
<1>4. WindowAt(e)'
  BY <1>1, <1>2, <1>3 DEF SessionInvAt, WindowAt
<1> QED
  BY <1>4 DEF SessionInvAt, FreshAt, RolesAt, pending

LEMMA InitSessionInv == Init => SessionInv
<1> SUFFICES ASSUME Init, NEW e \in Endpoint PROVE SessionInvAt(e)
  BY InitTypeOK DEF SessionInv
<1>1. Outstanding(e) = 0
  BY DEF Init, Outstanding, Distance, Modulus
<1>2. windowSizeTransmit[e] \in Nat
  BY InitTypeOK DEF TypeOK
<1> QED
  BY <1>1, <1>2 DEF Init, SessionInvAt, FreshAt, RolesAt, WindowAt

LEMMA StepSessionInvAt ==
    ASSUME TypeOK, TypeOK', NEW e \in Endpoint, SessionInvAt(e), FrameStep(e)
    PROVE  SessionInvAt(e)'
<1> USE DEF SessionInvAt, RolesAt, sequences, pending, negotiated
<1>1. ASSUME NEW form \in ConnectRequestForms(e), BuildConnectRequest(e, form)
      PROVE  SessionInvAt(e)'
  BY <1>1, ResetGivesInv DEF BuildConnectRequest, TypeOK
<1>2. CASE BuildConnectResponse(e)
  BY <1>2, ResetGivesInv DEF BuildConnectResponse, TypeOK
<1>3. CASE BuildConnectResponseTooLarge(e)
  <2>1. sendSequence'[e] = 0 /\ acknowledgeSequence'[e] = 0
    BY <1>3 DEF BuildConnectResponseTooLarge, FreshAt
  <2>2. Outstanding(e)' = 0 /\ windowSizeTransmit'[e] \in Nat
    BY <2>1 DEF Outstanding, Distance, Modulus, TypeOK
  <2> QED
    BY <1>3, <2>2 DEF BuildConnectResponseTooLarge, FreshAt, WindowAt
<1>4. ASSUME NEW user \in UserSizes, BuildDisconnectRequest(e, user) PROVE SessionInvAt(e)'
  BY <1>4 DEF BuildDisconnectRequest, TypeOK, FreshAt, WindowAt, Outstanding
<1>5. CASE BuildDisconnectResponse(e)
  BY <1>5, ResetGivesInv DEF BuildDisconnectResponse, TypeOK
<1>6. CASE BuildDmResponse(e)
  BY <1>6 DEF BuildDmResponse, FreshAt, WindowAt, Outstanding
<1>7. ASSUME NEW size \in InfoSizes, BuildInformationFrame(e, size) PROVE SessionInvAt(e)'
  <2>1. Outstanding(e)' = Distance(acknowledgeSequence[e], NextSequence(sendSequence[e]))
    BY <1>7 DEF BuildInformationFrame, Outstanding, TypeOK
  <2>2. Outstanding(e)' <= Outstanding(e) + 1
    BY <2>1, SendGrows DEF Outstanding, TypeOK
  <2>3. Outstanding(e) \in Nat /\ Outstanding(e)' \in Nat /\ windowSizeTransmit[e] \in Nat
    BY OutstandingNat, <2>1, NextValue, DistanceNat DEF TypeOK
  <2>4. WindowAt(e)'
    BY <1>7, <2>2, <2>3 DEF BuildInformationFrame, CanSendInformationFrame, WindowAt
  <2> QED
    BY <1>7, <2>4 DEF BuildInformationFrame, FreshAt
<1>8. CASE BuildReceiveReadyFrame(e)
  BY <1>8 DEF BuildReceiveReadyFrame, sessionVars, FreshAt, WindowAt, Outstanding
<1>9. ASSUME NEW f \in Frame, ReceiveFrame(e, f) PROVE SessionInvAt(e)'
  <2>1. CASE ReceiveInformationFrame(e, f)
    <3>1. f.nr \in SequenceNumber /\ AckInWindow(e, f.nr) /\ state[e] = "Connected"
      BY <2>1, SequencedArrives
         DEF ReceiveInformationFrame, Accepts, AcceptsInformation, SupervisoryKind, UnnumberedKind
    <3> QED
      BY <2>1, <3>1, AckGivesWindow DEF ReceiveInformationFrame
  <2>2. CASE ReceiveSupervisoryFrame(e, f)
    <3>1. f.nr \in SequenceNumber /\ AckInWindow(e, f.nr) /\ state[e] = "Connected"
      BY <2>2, SequencedArrives
         DEF ReceiveSupervisoryFrame, Accepts, AcceptsSupervisory, SupervisoryKind, UnnumberedKind
    <3> QED
      BY <2>2, <3>1, AckGivesWindow DEF ReceiveSupervisoryFrame
  <2>3. CASE ReceiveSnrm(e, f)
    <3>1. Role(e) = "Server" /\ state[e] = "Disconnected"
      BY <2>3 DEF ReceiveSnrm, Accepts, AcceptsUnnumbered, AcceptsSnrm, SupervisoryKind
    <3> QED
      BY <2>3, <3>1, ResetGivesInv DEF ReceiveSnrm
  <2>4. CASE ReceiveMalformedSnrm(e, f) \/ ReceiveDisc(e, f) \/ RejectFrame(e, f)
    BY <2>4 DEF ReceiveMalformedSnrm, ReceiveDisc, RejectFrame, sessionVars, FreshAt, WindowAt,
                Outstanding
  <2>5. CASE ReceiveConnectUa(e, f)
    BY <2>5, ResetGivesInv DEF ReceiveConnectUa, UaConnects, TypeOK
  <2>6. CASE ReceiveDisconnectUa(e, f)
    BY <2>6, ResetGivesInv DEF ReceiveDisconnectUa, TypeOK
  <2>7. CASE ReceiveDm(e, f)
    BY <2>7, ResetGivesInv DEF ReceiveDm, TypeOK
  <2> QED
    BY <1>9, <2>1, <2>2, <2>3, <2>4, <2>5, <2>6, <2>7 DEF ReceiveFrame
<1> QED
  BY <1>1, <1>2, <1>3, <1>4, <1>5, <1>6, <1>7, <1>8, <1>9 DEF FrameStep

LEMMA FrameStepSessionInv ==
    ASSUME SessionInv, NEW e \in Endpoint, FrameStep(e)
    PROVE  SessionInv'
<1>1. TypeOK /\ TypeOK'
  BY FrameStepTypeOK DEF SessionInv
<1>2. ASSUME NEW x \in Endpoint PROVE SessionInvAt(x)'
  <2>1. CASE x = e
    BY <1>1, <2>1, StepSessionInvAt DEF SessionInv
  <2>2. CASE x # e
    BY <1>1, <2>2, StepIsLocal
       DEF SessionInv, SessionInvAt, FreshAt, RolesAt, WindowAt, Outstanding
  <2> QED
    BY <2>1, <2>2
<1> QED
  BY <1>1, <1>2 DEF SessionInv

LEMMA UnchangedSessionInv ==
    ASSUME SessionInv, UNCHANGED sessionVars
    PROVE  SessionInv'
BY UnchangedTypeOK DEF sessionVars, sequences, pending, negotiated, SessionInv, SessionInvAt,
                       FreshAt, RolesAt, WindowAt, Outstanding

LEMMA StepSessionInv == SessionInv /\ [Next]_sessionVars => SessionInv'
BY FrameStepSessionInv, UnchangedSessionInv, StepIsFrameStep DEF Next

LEMMA SessionInvariant == Spec => []SessionInv
<1> QED
  BY InitSessionInv, StepSessionInv, PTL DEF Spec

\* No number of an old session survives into the next one.
THEOREM FreshSessions == Spec => []FreshOutsideSession
<1>1. SessionInv => FreshOutsideSession
  BY DEF SessionInv, SessionInvAt, FreshAt, FreshOutsideSession
<1> QED
  BY <1>1, SessionInvariant, PTL

\* Only a disconnected server has an SNRM to answer, only a client waits for UA.
THEOREM RolesKept == Spec => []HandshakeRoles
<1>1. SessionInv => HandshakeRoles
  BY DEF SessionInv, SessionInvAt, RolesAt, HandshakeRoles
<1> QED
  BY <1>1, SessionInvariant, PTL

-----------------------------------------------------------------------------
(***************************************************************************)
(* The count of HdlcWindow.  V(S) - V(A) modulo eight is that count as     *)
(* long as the window has no eighth place; with a larger window the test   *)
(* of CanSendInformationFrame bounds nothing.                              *)
(***************************************************************************)
CountAt(e) ==
    /\ state[e] \in {"Disconnected", "AwaitingConnection"} => unacknowledged[e] = 0
    /\ windowSizeTransmit[e] < Modulus => unacknowledged[e] = Outstanding(e)

CountInv ==
    /\ SessionInv
    /\ unacknowledged \in [Endpoint -> Int]
    /\ \A e \in Endpoint : CountAt(e)

\* A frame more is one more, unless seven are out.
LEMMA SendAddsOne ==
    ASSUME NEW a \in SequenceNumber, NEW s \in SequenceNumber, Distance(a, s) < 7
    PROVE  Distance(a, NextSequence(s)) = Distance(a, s) + 1
<1> a \in 0..7 /\ s \in 0..7
    BY DEF SequenceNumber, Modulus
<1> QED
    BY DistanceValue, NextValue

LEMMA InitCountInv == WindowInit => CountInv
<1> SUFFICES ASSUME WindowInit PROVE CountInv
  OBVIOUS
<1>1. SessionInv
  BY InitSessionInv DEF WindowInit
<1>2. ASSUME NEW e \in Endpoint PROVE Outstanding(e) = 0
  BY DEF WindowInit, Init, Outstanding, Distance, Modulus
<1> QED
  BY <1>1, <1>2 DEF WindowInit, CountInv, CountAt

\* The count is a history variable: every step is one of the session.
LEMMA WindowStepIsFrameStep ==
    ASSUME NEW e \in Endpoint, WindowStep(e)
    PROVE  FrameStep(e)
<1>1. Step(e)
  BY DEF WindowStep, CountAnew, CountBuilt, CountAcknowledged, CountKept, Step, ReceiveFrame
<1> QED
  BY <1>1, StepIsFrameStep

LEMMA WindowStepCountAt ==
    ASSUME CountInv, SessionInv', NEW e \in Endpoint, WindowStep(e)
    PROVE  /\ unacknowledged' \in [Endpoint -> Int]
           /\ \A x \in Endpoint \ {e} : unacknowledged'[x] = unacknowledged[x]
           /\ CountAt(e)'
<1> USE DEF sequences, pending, negotiated
<1>1. /\ TypeOK /\ TypeOK' /\ SessionInvAt(e) /\ CountAt(e)
      /\ unacknowledged \in [Endpoint -> Int]
      /\ sendSequence[e] \in SequenceNumber /\ acknowledgeSequence[e] \in SequenceNumber
      /\ Outstanding(e) \in Nat /\ windowSizeTransmit[e] \in Nat
  BY OutstandingNat DEF CountInv, SessionInv, TypeOK
<1>2. CASE CountAnew(e)
  <2>1. ResetSequences(e) /\ unacknowledged' = [unacknowledged EXCEPT ![e] = 0]
    BY <1>2 DEF CountAnew, Count, BuildConnectRequest, BuildConnectResponse,
                BuildDisconnectResponse, ReceiveSnrm, ReceiveConnectUa, ReceiveDisconnectUa,
                ReceiveDm
  <2>2. sendSequence'[e] = 0 /\ acknowledgeSequence'[e] = 0
    BY <1>1, <2>1, ResetType
  <2>3. Outstanding(e)' = 0
    BY <2>2 DEF Outstanding, Distance, Modulus
  <2> QED
    BY <1>1, <2>1, <2>3 DEF CountAt
<1>3. CASE CountBuilt(e)
  <2>1. /\ state[e] = "Connected" /\ state' = state
        /\ Outstanding(e) < windowSizeTransmit[e] /\ windowSizeTransmit' = windowSizeTransmit
        /\ sendSequence'[e] = NextSequence(sendSequence[e])
        /\ acknowledgeSequence' = acknowledgeSequence
    BY <1>1, <1>3 DEF CountBuilt, BuildInformationFrame, CanSendInformationFrame, TypeOK
  <2>2. unacknowledged' = [unacknowledged EXCEPT ![e] = unacknowledged[e] + 1]
    BY <1>3 DEF CountBuilt, Count
  <2>3. ASSUME windowSizeTransmit[e] < Modulus
        PROVE  Outstanding(e)' = Outstanding(e) + 1
    <3>1. Outstanding(e) < 7
      BY <1>1, <2>1, <2>3 DEF Modulus
    <3> QED
      BY <1>1, <2>1, <3>1, SendAddsOne DEF Outstanding
  <2> QED
    BY <1>1, <2>1, <2>2, <2>3 DEF CountAt
<1>4. CASE CountAcknowledged(e)
  <2>1. PICK f \in Arriving :
            /\ ReceiveInformationFrame(e, f) \/ ReceiveSupervisoryFrame(e, f)
            /\ Count(e, unacknowledged[e] - Distance(acknowledgeSequence[e], f.nr))
    BY <1>4 DEF CountAcknowledged
  <2>2. f \in Frame /\ f.kind \in SupervisoryKind \cup {"I"}
    BY <2>1, InputAssumption DEF ReceiveInformationFrame, ReceiveSupervisoryFrame
  <2>3. f.nr \in SequenceNumber
    BY <2>2, SequencedArrives
  <2>4. AckInWindow(e, f.nr) /\ state[e] = "Connected"
    BY <2>1 DEF ReceiveInformationFrame, ReceiveSupervisoryFrame, Accepts, AcceptsInformation,
                AcceptsSupervisory, SupervisoryKind, UnnumberedKind
  <2>5. /\ UNCHANGED <<state, sendSequence, negotiated>>
        /\ acknowledgeSequence'[e] = f.nr
    BY <1>1, <2>1 DEF ReceiveInformationFrame, ReceiveSupervisoryFrame, TypeOK
  <2>6. Outstanding(e)' = Outstanding(e) - Distance(acknowledgeSequence[e], f.nr)
    BY <1>1, <2>3, <2>4, <2>5, AckShrinks DEF AckInWindow, Outstanding
  <2>7. Distance(acknowledgeSequence[e], f.nr) \in Nat
    BY <1>1, <2>3, DistanceNat
  <2> QED
    BY <1>1, <2>1, <2>4, <2>5, <2>6, <2>7 DEF CountAt, Count
<1>5. CASE CountKept(e)
  <2>1. unacknowledged' = unacknowledged /\ UNCHANGED sequences
    BY <1>5 DEF CountKept, BuildConnectResponseTooLarge, BuildDisconnectRequest, BuildDmResponse,
                BuildReceiveReadyFrame, ReceiveMalformedSnrm, ReceiveDisc, RejectFrame, sessionVars
  <2>2. Outstanding(e)' = Outstanding(e)
    BY <2>1 DEF Outstanding
  <2>3. CASE BuildConnectResponseTooLarge(e)
    <3>1. state[e] = "Disconnected" /\ state' = state
      BY <1>1, <2>3 DEF BuildConnectResponseTooLarge, SessionInvAt, RolesAt
    <3>2. unacknowledged[e] = 0 /\ Outstanding(e) = 0
      BY <1>1, <3>1 DEF CountAt, SessionInvAt, FreshAt, Outstanding, Distance, Modulus
    <3> QED
      BY <1>1, <2>1, <2>2, <3>2 DEF CountAt
  <2>4. CASE \E user \in UserSizes : BuildDisconnectRequest(e, user)
    BY <1>1, <2>1, <2>2, <2>4 DEF BuildDisconnectRequest, CountAt, TypeOK
  <2>5. CASE \/ BuildDmResponse(e) \/ BuildReceiveReadyFrame(e)
             \/ \E f \in Arriving :
                   ReceiveMalformedSnrm(e, f) \/ ReceiveDisc(e, f) \/ RejectFrame(e, f)
    <3>1. state' = state /\ windowSizeTransmit' = windowSizeTransmit
      BY <2>5 DEF BuildDmResponse, BuildReceiveReadyFrame, ReceiveMalformedSnrm, ReceiveDisc,
                  RejectFrame, sessionVars
    <3> QED
      BY <1>1, <2>1, <2>2, <3>1 DEF CountAt
  <2> QED
    BY <1>5, <2>3, <2>4, <2>5 DEF CountKept
<1> QED
  BY <1>2, <1>3, <1>4, <1>5 DEF WindowStep

LEMMA StepCountInv == CountInv /\ [WindowNext]_windowVars => CountInv'
<1>1. ASSUME CountInv, NEW e \in Endpoint, WindowStep(e) PROVE CountInv'
  <2>1. FrameStep(e) /\ SessionInv /\ SessionInv' /\ TypeOK
    BY <1>1, WindowStepIsFrameStep, FrameStepSessionInv DEF CountInv, SessionInv
  <2>2. ASSUME NEW x \in Endpoint PROVE CountAt(x)'
    <3>1. CASE x = e
      BY <1>1, <2>1, <3>1, WindowStepCountAt
    <3>2. CASE x # e
      BY <1>1, <2>1, <3>2, WindowStepCountAt, StepIsLocal DEF CountInv, CountAt, Outstanding
    <3> QED
      BY <3>1, <3>2
  <2> QED
    BY <1>1, <2>1, <2>2, WindowStepCountAt DEF CountInv
<1>2. ASSUME CountInv, UNCHANGED windowVars PROVE CountInv'
  <2>1. SessionInv'
    BY <1>2, UnchangedSessionInv DEF windowVars, CountInv
  <2> QED
    BY <1>2, <2>1 DEF windowVars, sessionVars, sequences, negotiated, CountInv, CountAt, Outstanding
<1> QED
  BY <1>1, <1>2 DEF WindowNext

\* As long as no window is larger than the seven that three bits allow, no session
\* has more I-frames unacknowledged than its window, whatever frames arrive.
THEOREM WindowKept ==
    WindowSpec => []((\A e \in Endpoint : windowSizeTransmit[e] < Modulus) => WindowRespected)
<1>1. ASSUME CountInv, NEW e \in Endpoint, windowSizeTransmit[e] < Modulus
      PROVE  unacknowledged[e] <= windowSizeTransmit[e]
  BY <1>1 DEF CountInv, CountAt, SessionInv, SessionInvAt, WindowAt
<1>2. CountInv => ((\A e \in Endpoint : windowSizeTransmit[e] < Modulus) => WindowRespected)
  BY <1>1 DEF WindowRespected
<1>3. WindowSpec => []CountInv
  BY InitCountInv, StepCountInv, PTL DEF WindowSpec
<1> QED
  BY <1>2, <1>3, PTL

-----------------------------------------------------------------------------
(***************************************************************************)
(* Negotiated limits.                                                      *)
(***************************************************************************)

\* Limits change in two places: in a disconnected server that answers an SNRM,
\* and in a client that is connecting.
LEMMA WhereLimitsChange ==
    ASSUME TypeOK, NEW e \in Endpoint, SessionInvAt(e), FrameStep(e)
    PROVE  \/ UNCHANGED negotiated
           \/ Role(e) = "Server" /\ state[e] = "Disconnected" /\ AdoptAnswer(e)
           \/ Role(e) = "Client" /\ state[e] = "AwaitingConnection"
<1> USE DEF SessionInvAt, RolesAt, negotiated, sessionVars
<1>1. CASE BuildConnectResponse(e) \/ BuildConnectResponseTooLarge(e)
  BY <1>1 DEF BuildConnectResponse, BuildConnectResponseTooLarge
<1>2. CASE \E f \in Frame : ReceiveConnectUa(e, f)
  BY <1>2 DEF ReceiveConnectUa, UaConnects
<1>3. CASE \/ \E form \in ConnectRequestForms(e) : BuildConnectRequest(e, form)
           \/ \E user \in UserSizes : BuildDisconnectRequest(e, user)
           \/ \E size \in InfoSizes : BuildInformationFrame(e, size)
           \/ BuildDisconnectResponse(e) \/ BuildDmResponse(e) \/ BuildReceiveReadyFrame(e)
  BY <1>3 DEF BuildConnectRequest, BuildDisconnectRequest, BuildInformationFrame,
              BuildDisconnectResponse, BuildDmResponse, BuildReceiveReadyFrame
<1>4. CASE \E f \in Frame :
               \/ ReceiveInformationFrame(e, f) \/ ReceiveSupervisoryFrame(e, f)
               \/ ReceiveSnrm(e, f) \/ ReceiveMalformedSnrm(e, f) \/ ReceiveDisconnectUa(e, f)
               \/ ReceiveDisc(e, f) \/ ReceiveDm(e, f) \/ RejectFrame(e, f)
  BY <1>4 DEF ReceiveInformationFrame, ReceiveSupervisoryFrame, ReceiveSnrm,
              ReceiveMalformedSnrm, ReceiveDisconnectUa, ReceiveDisc, ReceiveDm, RejectFrame
<1> QED
  BY <1>1, <1>2, <1>3, <1>4 DEF FrameStep, ReceiveFrame

\* The windows and sizes agreed on hold until the session ends.
THEOREM LimitsStayFixed == Spec => LimitsFixedInSession
<1>1. SessionInv /\ [Next]_sessionVars => [LimitsKeptByAll]_sessionVars
  <2> SUFFICES ASSUME SessionInv, NEW e \in Endpoint, FrameStep(e), NEW x \in Endpoint
               PROVE  LimitsKept(x)
    BY StepIsFrameStep DEF Next, LimitsKeptByAll
  <2>1. CASE x = e
    BY <2>1, WhereLimitsChange DEF SessionInv, negotiated, LimitsKept
  <2>2. CASE x # e
    BY <2>2, StepIsLocal DEF SessionInv, LimitsKept
  <2> QED
    BY <2>1, <2>2
<1> QED
  BY <1>1, SessionInvariant, PTL DEF Spec, LimitsFixedInSession

CapabilityAt(e) == Role(e) = "Server" =>
    /\ negotiatedLimits[e].infoTransmit <= LocalLimits(e).infoTransmit
    /\ negotiatedLimits[e].infoReceive <= LocalLimits(e).infoReceive
    /\ negotiatedLimits[e].windowTransmit <= LocalLimits(e).windowTransmit
    /\ negotiatedLimits[e].windowReceive <= LocalLimits(e).windowReceive

\* The smaller of two values is at most the second, also when it is then
\* narrowed to a byte.
LEMMA AnswerBounded ==
    ASSUME NEW p \in Params, NEW l \in Limits
    PROVE  LET a == ServerLimits(NegotiateParams(p, l))
           IN  /\ a.infoTransmit <= l.infoTransmit /\ a.infoReceive <= l.infoReceive
               /\ a.windowTransmit <= l.windowTransmit /\ a.windowReceive <= l.windowReceive
<1>1. \A m \in Nat, n \in Nat : Smaller(m, n) <= n /\ Smaller(m, n) \in Nat
  BY DEF Smaller
<1>2. \A m \in Nat : m % 256 <= m
  OBVIOUS
<1>3. /\ p.maxInfoTx \in Nat /\ p.maxInfoRx \in Nat /\ p.windowTx \in Nat /\ p.windowRx \in Nat
      /\ l.infoTransmit \in Nat /\ l.infoReceive \in Nat
      /\ l.windowTransmit \in Nat /\ l.windowReceive \in Nat
  BY DEF Params, Limits
<1>4. \A m \in Nat, n \in Nat : Smaller(m, n) % 256 <= n
  <2> SUFFICES ASSUME NEW m \in Nat, NEW n \in Nat PROVE Smaller(m, n) % 256 <= n
    OBVIOUS
  <2>1. Smaller(m, n) \in Nat /\ Smaller(m, n) <= n
    BY <1>1
  <2>2. Smaller(m, n) % 256 <= Smaller(m, n) /\ Smaller(m, n) % 256 \in Nat
    BY <1>2, <2>1
  <2> QED
    BY <2>1, <2>2
<1> QED
  BY <1>1, <1>3, <1>4 DEF ServerLimits, NegotiateParams

\* Whatever an SNRM proposes, the server stays within its own capability.
THEOREM CapabilityKept == Spec => []ServerWithinCapability
<1>1. Init => ServerWithinCapability
  <2> SUFFICES ASSUME Init, NEW e \in Endpoint PROVE CapabilityAt(e)
    BY DEF ServerWithinCapability, CapabilityAt
  <2>1. LocalLimits(e) \in Limits
    BY LocalLimitsType
  <2> QED
    BY <2>1 DEF Init, CapabilityAt, Limits
<1>2. SessionInv /\ ServerWithinCapability /\ [Next]_sessionVars => ServerWithinCapability'
  <2> SUFFICES ASSUME SessionInv, ServerWithinCapability, [Next]_sessionVars,
                      NEW x \in Endpoint
               PROVE  CapabilityAt(x)'
    BY DEF ServerWithinCapability, CapabilityAt
  <2>1. CapabilityAt(x)
    BY DEF ServerWithinCapability, CapabilityAt
  <2>2. CASE negotiatedLimits'[x] = negotiatedLimits[x]
    BY <2>1, <2>2 DEF CapabilityAt
  <2>3. CASE Role(x) = "Client"
    BY <2>3 DEF CapabilityAt
  <2>4. CASE AdoptAnswer(x)
    <3>1. CASE pendingNegotiation[x].form = "present"
      <4>1. pendingNegotiation[x].params \in Params /\ LocalLimits(x) \in Limits
        BY LocalLimitsType DEF SessionInv, TypeOK, NegotiationBlock
      <4>2. negotiatedLimits'[x] = ServerLimits(Answer(x))
        BY <2>4, <3>1 DEF AdoptAnswer, Adopt, SessionInv, TypeOK
      <4> QED
        BY <4>1, <4>2, AnswerBounded DEF Answer, CapabilityAt
    <3>2. CASE pendingNegotiation[x].form # "present"
      BY <2>2, <2>4, <3>2 DEF AdoptAnswer, negotiated
    <3> QED
      BY <3>1, <3>2
  <2>5. CASE UNCHANGED sessionVars
    BY <2>2, <2>5 DEF sessionVars, negotiated
  <2>6. ASSUME NEW e \in Endpoint, FrameStep(e) PROVE CapabilityAt(x)'
    <3>1. CASE x = e
      BY <2>2, <2>3, <2>4, <2>6, <3>1, WhereLimitsChange DEF SessionInv, negotiated
    <3>2. CASE x # e
      BY <2>2, <2>6, <3>2, StepIsLocal DEF SessionInv
    <3> QED
      BY <3>1, <3>2
  <2> QED
    BY <2>5, <2>6, StepIsFrameStep DEF Next
<1> QED
  BY <1>1, <1>2, SessionInvariant, PTL DEF Spec

-----------------------------------------------------------------------------
(***************************************************************************)
(* Arithmetic: a count is determined by its remainder within a range of    *)
(* eight.                                                                  *)
(***************************************************************************)
LEMMA SameRemainder ==
    ASSUME NEW a \in Nat, NEW b \in Nat, a <= b, b <= a + 7, a % Modulus = b % Modulus
    PROVE  a = b
BY DEF Modulus

LEMMA NextRemainder ==
    ASSUME NEW a \in Nat
    PROVE  NextSequence(a % Modulus) = (a + 1) % Modulus
BY DEF Modulus, NextSequence

LEMMA DistanceOfCounts ==
    ASSUME NEW a \in Nat, NEW b \in Nat, a <= b, b <= a + 7
    PROVE  Distance(a % Modulus, b % Modulus) = b - a
BY DEF Modulus, Distance

\* Every N(R) stands for one of eight counts, whose remainder it is.
LEMMA CountOfType ==
    ASSUME NEW a \in Nat, NEW nr \in SequenceNumber
    PROVE  /\ CountOf(a, nr) \in Nat
           /\ a <= CountOf(a, nr) /\ CountOf(a, nr) <= a + 7
           /\ CountOf(a, nr) % Modulus = nr
BY DEF Modulus, SequenceNumber, Distance, CountOf

\* A count within eight of a is found again.
LEMMA CountOfCount ==
    ASSUME NEW a \in Nat, NEW n \in Nat, a <= n, n <= a + 7
    PROVE  CountOf(a, n % Modulus) = n
BY DistanceOfCounts DEF CountOf

\* What an N(R) stands for does not change when fewer messages than it counts
\* are acknowledged.
LEMMA CountOfStable ==
    ASSUME NEW a \in Nat, NEW b \in Nat, NEW nr \in SequenceNumber,
           a <= b, b <= CountOf(a, nr)
    PROVE  CountOf(b, nr) = CountOf(a, nr)
<1>1. CountOf(a, nr) \in Nat /\ CountOf(a, nr) <= b + 7 /\ CountOf(a, nr) % Modulus = nr
  BY CountOfType
<1> QED
  BY <1>1, CountOfCount

-----------------------------------------------------------------------------
(***************************************************************************)
(* The two ends, and the frames they write.                                *)
(***************************************************************************)
LEMMA TwoRoles ==
    ASSUME NEW e \in Endpoint
    PROVE  /\ Peer[e] \in Endpoint /\ Peer[e] # e /\ Peer[Peer[e]] = e
           /\ \A x \in Endpoint : x = e \/ x = Peer[e]
           /\ Role(e) \in {"Client", "Server"}
           /\ IsClient(Peer[e]) <=> ~IsClient(e)
           /\ Role(e) = "Server" <=> ~IsClient(e)
<1>1. \A x \in Endpoint : Role(x) \in {"Client", "Server"}
  BY OptionsAssumption DEF Role, HdlcSessionOptions
<1> QED
  BY <1>1, LineAssumption DEF IsClient

LEMMA AddressesMatch ==
    ASSUME NEW e \in Endpoint
    PROVE  /\ LocalAddress(e) \in Address /\ RemoteAddress(e) \in Address
           /\ LocalAddress(Peer[e]) = RemoteAddress(e)
           /\ RemoteAddress(Peer[e]) = LocalAddress(e)
<1>1. Options[e] \in HdlcSessionOptions
  BY OptionsAssumption
<1>2. LocalAddress(e) \in Address /\ RemoteAddress(e) \in Address
  BY <1>1 DEF HdlcSessionOptions, LocalAddress, RemoteAddress
<1> QED
  BY <1>2, LineAssumption, TwoRoles

LEMMA BlockType ==
    ASSUME NEW p \in Params
    PROVE  Block(p) \in NegotiationBlock /\ Block(p).form = "present"
BY DEF Block, EncodedParams, Params, NegotiationBlock

LEMMA ProposalType ==
    ASSUME NEW l \in Limits
    PROVE  ProposalOf(l) \in Params
BY DEF ProposalOf, Limits, Params

LEMMA NoBlockType == NoBlock \in NegotiationBlock
BY DEF NoBlock, NegotiationBlock, DefaultSnrmParams, Params, DefaultMaxInfoFieldLength,
       DefaultWindowSize

LEMMA UnnumberedType ==
    ASSUME NEW e \in Endpoint, NEW kind \in UnnumberedKind, NEW block \in NegotiationBlock,
           NEW user \in Nat
    PROVE  /\ Unnumbered(e, kind, block, user) \in Frame
           /\ Unnumbered(e, kind, block, user).kind = kind
           /\ Unnumbered(e, kind, block, user).block = block
           /\ Addressed(Peer[e], Unnumbered(e, kind, block, user))
BY AddressesMatch DEF Unnumbered, UnnumberedFrame, Frame, Addressed

LEMMA SnrmType ==
    ASSUME NEW e \in Endpoint, NEW form \in ConnectRequestForms(e)
    PROVE  /\ SnrmFrame(e, form) \in Frame /\ SnrmFrame(e, form).kind = "SNRM"
           /\ Addressed(Peer[e], SnrmFrame(e, form))
<1>1. Block(ProposalOf(LocalLimits(e))) \in NegotiationBlock
  BY LocalLimitsType, ProposalType, BlockType
<1>2. form.block \in NegotiationBlock /\ form.user \in Nat
  BY <1>1, NoBlockType, InputAssumption DEF ConnectRequestForms
<1> QED
  BY <1>2, UnnumberedType DEF SnrmFrame, UnnumberedKind

LEMMA DiscType ==
    ASSUME NEW e \in Endpoint, NEW user \in UserSizes
    PROVE  /\ DiscFrame(e, user) \in Frame /\ DiscFrame(e, user).kind = "DISC"
           /\ Addressed(Peer[e], DiscFrame(e, user))
BY NoBlockType, UnnumberedType, InputAssumption DEF DiscFrame, UnnumberedKind

LEMMA DisconnectResponseType ==
    ASSUME NEW e \in Endpoint
    PROVE  /\ DisconnectResponseFrame(e) \in Frame /\ DisconnectResponseFrame(e).kind = "UA"
           /\ DisconnectResponseFrame(e).block = NoBlock
           /\ Addressed(Peer[e], DisconnectResponseFrame(e))
BY NoBlockType, UnnumberedType DEF DisconnectResponseFrame, UnnumberedKind

LEMMA ConnectResponseType ==
    ASSUME TypeOK, NEW e \in Endpoint
    PROVE  /\ ConnectResponseFrame(e) \in Frame /\ ConnectResponseFrame(e).kind = "UA"
           /\ ConnectResponseFrame(e).block = UaBlock(e)
           /\ Answer(e) \in Params
           /\ Addressed(Peer[e], ConnectResponseFrame(e))
<1>1. Answer(e) \in Params
  BY LocalLimitsType, NegotiateParamsType DEF TypeOK, NegotiationBlock, Answer
<1>2. UaBlock(e) \in NegotiationBlock
  BY <1>1, BlockType, NoBlockType DEF UaBlock
<1> QED
  BY <1>1, <1>2, UnnumberedType DEF ConnectResponseFrame, UnnumberedKind

LEMMA ReceiveReadyType ==
    ASSUME TypeOK, NEW e \in Endpoint
    PROVE  /\ ReceiveReadyFrame(e) \in Frame /\ ReceiveReadyFrame(e).kind = "RR"
           /\ ReceiveReadyFrame(e).nr = receiveSequence[e]
           /\ Addressed(Peer[e], ReceiveReadyFrame(e))
BY AddressesMatch DEF TypeOK, ReceiveReadyFrame, Frame, SupervisoryFrame, SupervisoryKind,
                      Addressed

LEMMA IFrameType ==
    ASSUME TypeOK, NEW e \in Endpoint, NEW size \in InfoSizes, NEW m \in Payload
    PROVE  /\ IFrame(e, size, m) \in Frame /\ IFrame(e, size, m).kind = "I"
           /\ IFrame(e, size, m).ns = sendSequence[e]
           /\ IFrame(e, size, m).nr = receiveSequence[e]
           /\ IFrame(e, size, m).payload = m
           /\ IFrame(e, size, m).size = size
           /\ Addressed(Peer[e], IFrame(e, size, m))
BY AddressesMatch, InputAssumption DEF TypeOK, IFrame, Frame, InformationFrame, Addressed

-----------------------------------------------------------------------------
(***************************************************************************)
(* The wires.                                                              *)
(***************************************************************************)
LEMMA EmptySequence ==
    ASSUME NEW S, NEW q \in Seq(S)
    PROVE  Len(q) \in Nat /\ (Len(q) = 0 <=> q = <<>>)
OBVIOUS

LEMMA EmptyWire ==
    ASSUME WireType, NEW e \in Endpoint
    PROVE  Len(wire[e]) \in Nat /\ (wire[e] = <<>> <=> Len(wire[e]) = 0)
BY DEF WireType

LEMMA SendEffect ==
    ASSUME WireType, NEW e \in Endpoint, NEW f \in Frame, Send(e, f)
    PROVE  /\ WireType'
           /\ Len(wire'[e]) = Len(wire[e]) + 1
           /\ wire'[e][Len(wire[e]) + 1] = f
           /\ \A i \in 1 .. Len(wire[e]) : wire'[e][i] = wire[e][i]
           /\ wire'[Peer[e]] = wire[Peer[e]]
<1>1. wire[e] \in Seq(Frame) /\ wire \in [Endpoint -> Seq(Frame)]
  BY DEF WireType
<1>2. wire'[e] = Append(wire[e], f) /\ wire' \in [Endpoint -> Seq(Frame)]
  BY <1>1 DEF Send
<1>3. wire'[Peer[e]] = wire[Peer[e]]
  BY <1>1, TwoRoles DEF Send
<1> QED
  BY <1>1, <1>2, <1>3 DEF Send, WireType

LEMMA ShiftEffect ==
    ASSUME WireType, NEW e \in Endpoint, wire[e] # <<>>,
           wire' = [wire EXCEPT ![e] = Tail(@)]
    PROVE  /\ wire' \in [Endpoint -> Seq(Frame)]
           /\ Len(wire[e]) >= 1 /\ Head(wire[e]) = wire[e][1] /\ wire[e][1] \in Frame
           /\ Len(wire'[e]) = Len(wire[e]) - 1
           /\ Len(wire'[e]) \in Nat /\ (Len(wire'[e]) = 0 <=> wire'[e] = <<>>)
           /\ \A i \in 1 .. Len(wire'[e]) : wire'[e][i] = wire[e][i + 1]
           /\ wire'[Peer[e]] = wire[Peer[e]]
<1>1. wire[e] \in Seq(Frame) /\ wire \in [Endpoint -> Seq(Frame)]
  BY DEF WireType
<1>2. wire'[e] = Tail(wire[e])
  BY <1>1
<1>3. wire'[Peer[e]] = wire[Peer[e]]
  BY <1>1, TwoRoles
<1>4. Len(wire[e]) >= 1 /\ wire'[e] \in Seq(Frame)
  BY <1>1, <1>2
<1>5. Len(wire'[e]) \in Nat /\ (Len(wire'[e]) = 0 <=> wire'[e] = <<>>)
  BY <1>4, EmptySequence
<1> QED
  BY <1>1, <1>2, <1>3, <1>4, <1>5

LEMMA SendKeeps ==
    ASSUME WireType, NEW e \in Endpoint, NEW f \in Frame, Send(e, f), NEW k, NEW K, NEW n
    PROVE  /\ Carries(e, K) /\ f.kind \in K => Carries(e, K)'
           /\ Lacks(e, k) /\ f.kind # k => Lacks(e, k)'
           /\ Lacks(e, k) => Ends(e, k)'
           /\ Begins(e, k) /\ f.kind # k => Begins(e, k)'
           /\ Precedes(e, k, n) /\ f.kind = n => Precedes(e, k, n)'
           /\ Lacks(e, k) => Precedes(e, k, n)'
<1> DEFINE l == Len(wire[e])
<1>1. /\ l \in Nat /\ Len(wire'[e]) = l + 1 /\ wire'[e][l + 1] = f
      /\ \A i \in 1 .. l : wire'[e][i] = wire[e][i]
  BY SendEffect, EmptyWire
<1>2. \A i \in 1 .. l + 1 : i \in 1 .. l \/ i = l + 1
  BY <1>1
<1> HIDE DEF l
<1>3. Carries(e, K) /\ f.kind \in K => Carries(e, K)'
  BY <1>1, <1>2 DEF Carries, l
<1>4. /\ Lacks(e, k) /\ f.kind # k => Lacks(e, k)'
      /\ Lacks(e, k) => Ends(e, k)'
  BY <1>1, <1>2 DEF Lacks, Ends, l
<1>5. Begins(e, k) /\ f.kind # k => Begins(e, k)'
  BY <1>1, <1>2 DEF Begins, l
<1>6. /\ Precedes(e, k, n) /\ f.kind = n => Precedes(e, k, n)'
      /\ Lacks(e, k) => Precedes(e, k, n)'
  BY <1>1, <1>2 DEF Precedes, Lacks, l
<1> QED
  BY <1>3, <1>4, <1>5, <1>6

LEMMA ShiftKeeps ==
    ASSUME WireType, NEW e \in Endpoint, wire[e] # <<>>,
           wire' = [wire EXCEPT ![e] = Tail(@)], NEW k, NEW K, NEW n
    PROVE  /\ Carries(e, K) => Carries(e, K)' /\ wire[e][1].kind \in K
           /\ Lacks(e, k) => Lacks(e, k)'
           /\ Begins(e, k) => Begins(e, k)'
           /\ Ends(e, k) => Ends(e, k)'
           /\ Ends(e, k) /\ wire[e][1].kind = k => wire'[e] = <<>>
           /\ Precedes(e, k, n) => Precedes(e, k, n)'
           /\ Precedes(e, k, n) /\ wire[e][1].kind = k => Carries(e, {n})'
<1> DEFINE l == Len(wire'[e])
<1>1. /\ l \in Nat /\ Len(wire[e]) = l + 1 /\ wire'[e] \in Seq(Frame)
      /\ \A i \in 1 .. l : wire'[e][i] = wire[e][i + 1]
  <2>1. wire' \in [Endpoint -> Seq(Frame)] /\ l = Len(wire[e]) - 1 /\ Len(wire[e]) >= 1
    BY ShiftEffect
  <2>2. Len(wire[e]) \in Nat
    BY EmptyWire
  <2> QED
    BY <2>1, <2>2, ShiftEffect
<1>2. \A i \in 1 .. l : i + 1 \in 1 .. Len(wire[e]) /\ i \in 1 .. Len(wire[e])
  BY <1>1
<1>3. 1 \in 1 .. Len(wire[e]) /\ (l = 0 => wire'[e] = <<>>)
  BY <1>1
<1>4. Carries(e, K) => Carries(e, K)' /\ wire[e][1].kind \in K
  BY <1>1, <1>2, <1>3 DEF Carries
<1>5. Lacks(e, k) => Lacks(e, k)'
  BY <1>1, <1>2 DEF Lacks
<1>6. Begins(e, k) => Begins(e, k)'
  BY <1>1, <1>2 DEF Begins
<1>7. /\ Ends(e, k) => Ends(e, k)'
      /\ Ends(e, k) /\ wire[e][1].kind = k => wire'[e] = <<>>
  <2>1. ASSUME Ends(e, k), NEW i \in 1 .. l, wire'[e][i].kind = k PROVE i = l
    <3>1. wire[e][i + 1].kind = k
      BY <1>1, <2>1
    <3>2. i + 1 = l + 1
      BY <1>1, <1>2, <2>1, <3>1 DEF Ends
    <3> QED
      BY <1>1, <3>2
  <2>2. ASSUME Ends(e, k), wire[e][1].kind = k PROVE l = 0
    <3>1. 1 = Len(wire[e])
      BY <1>3, <2>2 DEF Ends
    <3> QED
      BY <1>1, <3>1
  <2> QED
    BY <1>3, <2>1, <2>2 DEF Ends
<1>8. Precedes(e, k, n) => Precedes(e, k, n)'
  <2> SUFFICES ASSUME Precedes(e, k, n), NEW i \in 1 .. l, NEW j \in 1 .. l,
                      i < j, wire'[e][i].kind = k
               PROVE  wire'[e][j].kind = n
    BY DEF Precedes
  <2>1. wire[e][i + 1].kind = k /\ i + 1 < j + 1
    BY <1>1
  <2> QED
    BY <1>1, <1>2, <2>1 DEF Precedes
<1>9. Precedes(e, k, n) /\ wire[e][1].kind = k => Carries(e, {n})'
  <2> SUFFICES ASSUME Precedes(e, k, n), wire[e][1].kind = k, NEW i \in 1 .. l
               PROVE  wire'[e][i].kind = n
    BY DEF Carries
  <2>1. 1 < i + 1
    BY <1>1
  <2> QED
    BY <1>1, <1>2, <1>3, <2>1 DEF Precedes
<1> QED
  BY <1>4, <1>5, <1>6, <1>7, <1>8, <1>9

LEMMA SameWireKeeps ==
    ASSUME NEW e \in Endpoint, wire'[e] = wire[e], NEW k, NEW K, NEW n
    PROVE  /\ Carries(e, K)' <=> Carries(e, K)
           /\ Lacks(e, k)' <=> Lacks(e, k)
           /\ Begins(e, k)' <=> Begins(e, k)
           /\ Ends(e, k)' <=> Ends(e, k)
           /\ Precedes(e, k, n)' <=> Precedes(e, k, n)
BY DEF Carries, Lacks, Ends, Begins, Precedes

LEMMA SequencedFrame ==
    ASSUME NEW f \in Frame, Sequenced(f)
    PROVE  f.nr \in SequenceNumber /\ (f.kind = "I" => f.ns \in SequenceNumber /\ f.payload \in Payload)
BY DEF Sequenced, Frame, UnnumberedFrame, SupervisoryFrame, InformationFrame, UnnumberedKind,
       SupervisoryKind

LEMMA SendAddressing ==
    ASSUME WireType, Addressing, NEW e \in Endpoint, NEW f \in Frame, Send(e, f),
           Addressed(Peer[e], f)
    PROVE  Addressing'
<1>1. /\ Len(wire[e]) \in Nat /\ Len(wire'[e]) = Len(wire[e]) + 1
      /\ wire'[e][Len(wire[e]) + 1] = f
      /\ \A i \in 1 .. Len(wire[e]) : wire'[e][i] = wire[e][i]
  BY SendEffect, EmptyWire
<1> DEFINE l == Len(wire[e])
<1>2. \A i \in 1 .. l + 1 : i \in 1 .. l \/ i = l + 1
  BY <1>1
<1>3. \A x \in Endpoint : x # e => wire'[x] = wire[x]
  BY SendEffect, TwoRoles
<1>4. \A i \in 1 .. Len(wire'[e]) : Addressed(Peer[e], wire'[e][i])
  BY <1>1, <1>2 DEF Addressing, Addressed
<1> QED
  BY <1>3, <1>4 DEF Addressing, Addressed

LEMMA ShiftAddressing ==
    ASSUME WireType, Addressing, NEW e \in Endpoint, wire[e] # <<>>,
           wire' = [wire EXCEPT ![e] = Tail(@)]
    PROVE  Addressing'
<1>1. /\ Len(wire[e]) \in Nat /\ Len(wire'[e]) = Len(wire[e]) - 1
      /\ \A i \in 1 .. Len(wire'[e]) : wire'[e][i] = wire[e][i + 1]
  BY ShiftEffect, EmptyWire
<1>2. \A i \in 1 .. Len(wire'[e]) : i + 1 \in 1 .. Len(wire[e])
  BY <1>1
<1>3. \A x \in Endpoint : x # e => wire'[x] = wire[x]
  BY ShiftEffect, TwoRoles
<1>4. \A i \in 1 .. Len(wire'[e]) : Addressed(Peer[e], wire'[e][i])
  BY <1>1, <1>2 DEF Addressing, Addressed
<1> QED
  BY <1>3, <1>4 DEF Addressing, Addressed

-----------------------------------------------------------------------------
(***************************************************************************)
(* The windows.                                                            *)
(***************************************************************************)
LEMMA NarrowByte ==
    ASSUME NEW w \in Nat, w < Modulus
    PROVE  w % 256 \in Nat /\ w % 256 < Modulus
BY DEF Modulus

LEMMA AnswerNarrow ==
    ASSUME NarrowWindows, TypeOK, NEW e \in Endpoint
    PROVE  /\ UaBlock(e).params.windowTx < Modulus
           /\ ServerLimits(Answer(e)).windowTransmit < Modulus
<1>1. Answer(e) \in Params /\ LocalLimits(e) \in Limits
  BY ConnectResponseType, LocalLimitsType
<1>2. /\ LocalLimits(e).windowTransmit \in Nat /\ LocalLimits(e).windowReceive \in Nat
      /\ LocalLimits(e).windowTransmit < Modulus /\ LocalLimits(e).windowReceive < Modulus
  BY <1>1 DEF NarrowWindows, Limits
<1>3. Answer(e).windowTx \in Nat /\ Answer(e).windowRx \in Nat
  BY <1>1 DEF Params
<1>4. Answer(e).windowTx < Modulus /\ Answer(e).windowRx < Modulus
  <2>1. pendingNegotiation[e].params \in Params
    BY DEF TypeOK, NegotiationBlock
  <2>2. /\ Answer(e).windowTx = Smaller(pendingNegotiation[e].params.windowTx,
                                        LocalLimits(e).windowReceive)
        /\ Answer(e).windowRx = Smaller(pendingNegotiation[e].params.windowRx,
                                        LocalLimits(e).windowTransmit)
    BY DEF Answer, NegotiateParams
  <2>3. /\ pendingNegotiation[e].params.windowTx \in Nat
        /\ pendingNegotiation[e].params.windowRx \in Nat
    BY <2>1 DEF Params
  <2> QED
    BY <1>2, <2>2, <2>3 DEF Smaller, Modulus
<1>5. Answer(e).windowTx % 256 < Modulus /\ Answer(e).windowRx % 256 < Modulus
  BY <1>3, <1>4, NarrowByte
<1>6. UaBlock(e).params.windowTx = Answer(e).windowTx % 256 \/ UaBlock(e).params.windowTx = 1
  BY DEF UaBlock, Block, EncodedParams, NoBlock, DefaultSnrmParams, DefaultWindowSize
<1> QED
  BY <1>5, <1>6 DEF ServerLimits, Modulus

\* The line keeps narrow windows when what joins it does.
LEMMA SendNarrow ==
    ASSUME WireType, Narrow, NEW e \in Endpoint, NEW f \in Frame, Send(e, f),
           f.kind = "UA" => f.block.params.windowTx < Modulus, NEW x \in Endpoint
    PROVE  NarrowWire(x)'
<1>1. CASE x = e
  <2>1. /\ Len(wire[e]) \in Nat /\ Len(wire'[e]) = Len(wire[e]) + 1
        /\ wire'[e][Len(wire[e]) + 1] = f
        /\ \A i \in 1 .. Len(wire[e]) : wire'[e][i] = wire[e][i]
    BY SendEffect, EmptyWire
  <2> DEFINE l == Len(wire[e])
  <2>2. \A i \in 1 .. l + 1 : i \in 1 .. l \/ i = l + 1
    BY <2>1
  <2>3. \A i \in 1 .. l : wire[e][i].kind = "UA" => wire[e][i].block.params.windowTx < Modulus
    BY DEF Narrow, NarrowAt, NarrowWire
  <2> HIDE DEF l
  <2> QED
    BY <1>1, <2>1, <2>2, <2>3 DEF l, NarrowWire
<1>2. CASE x # e
  <2>1. wire'[x] = wire[x]
    BY <1>2, SendEffect, TwoRoles
  <2> QED
    BY <2>1 DEF Narrow, NarrowAt, NarrowWire
<1> QED
  BY <1>1, <1>2

LEMMA ShiftNarrow ==
    ASSUME WireType, Narrow, NEW y \in Endpoint, wire[y] # <<>>,
           wire' = [wire EXCEPT ![y] = Tail(@)], NEW x \in Endpoint
    PROVE  NarrowWire(x)'
<1>1. CASE x = y
  <2>1. /\ Len(wire[x]) \in Nat /\ Len(wire'[x]) = Len(wire[x]) - 1
        /\ \A i \in 1 .. Len(wire'[x]) : wire'[x][i] = wire[x][i + 1]
    BY <1>1, ShiftEffect, EmptyWire
  <2>2. \A i \in 1 .. Len(wire'[x]) : i + 1 \in 1 .. Len(wire[x])
    BY <2>1
  <2> QED
    BY <2>1, <2>2 DEF Narrow, NarrowAt, NarrowWire
<1>2. CASE x # y
  <2>1. wire'[x] = wire[x]
    BY <1>2, ShiftEffect, TwoRoles
  <2> QED
    BY <2>1 DEF Narrow, NarrowAt, NarrowWire
<1> QED
  BY <1>1, <1>2
============================================================================
