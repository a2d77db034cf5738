---------------------------- MODULE HdlcRestart ----------------------------
(***************************************************************************)
(* Two sessions on a line whose applications lose patience, or crash.  The *)
(* session owns no timers (docs/04, section 10): the application aborts    *)
(* after a timeout, and as HdlcSession has no Reset() it does so by        *)
(* constructing the session anew.  What it had written is still on the     *)
(* line, and so are the answers it no longer waits for.                    *)
(*                                                                         *)
(* A message is marked with the session its sender was in, by the sender's *)
(* own count; opened, sent, accepted and acknowledged are history.         *)
(***************************************************************************)
EXTENDS HdlcLine

CONSTANTS
    MaxRestarts,    \* bound: how often the endpoints restart, by endpoint, each
                    \* function one combination
    MaxOpened,      \* bound: sessions an endpoint enters
    MaxMessages     \* bound: messages each endpoint sends in one session

ASSUME RestartAssumption ==
    /\ MaxRestarts \subseteq [Endpoint -> Nat]
    /\ MaxOpened \in Nat
    /\ MaxMessages \in [Endpoint -> Nat]
    /\ \A e \in Endpoint : (1 .. MaxOpened) \X (1 .. MaxMessages[e]) \subseteq Payload

VARIABLES
    restarts,      \* history: restarts of each endpoint
    opened,        \* history: how often each endpoint has become Connected
    sent,          \* history: messages each endpoint sent in its session
    accepted,      \* history: messages each endpoint accepted, each with the
                   \* endpoint's own count of its session
    acknowledged   \* history: messages each endpoint saw acknowledged in its session

history == <<opened, sent, accepted, acknowledged>>
restartVars == <<sessionVars, lineVars, restarts, history>>

RestartInit ==
    /\ Init
    /\ LineInit
    /\ restarts = [e \in Endpoint |-> 0]
    /\ opened = [e \in Endpoint |-> 0]
    /\ sent = [e \in Endpoint |-> 0]
    /\ accepted = [e \in Endpoint |-> <<>>]
    /\ acknowledged = [e \in Endpoint |-> 0]

\* When the step makes e Connected, its counts begin anew.
CountSession(e) ==
    IF state[e] # "Connected" /\ state'[e] = "Connected"
    THEN /\ opened' = [opened EXCEPT ![e] = @ + 1]
         /\ sent' = [sent EXCEPT ![e] = 0]
         /\ acknowledged' = [acknowledged EXCEPT ![e] = 0]
    ELSE UNCHANGED <<opened, sent, acknowledged>>

-----------------------------------------------------------------------------
\* The constructor: Init at one endpoint.
Construct(e) ==
    /\ state' = [state EXCEPT ![e] = "Disconnected"]
    /\ ResetSequences(e)
    /\ connectResponsePending' = [connectResponsePending EXCEPT ![e] = FALSE]
    /\ disconnectResponsePending' = [disconnectResponsePending EXCEPT ![e] = FALSE]
    /\ dmResponsePending' = [dmResponsePending EXCEPT ![e] = FALSE]
    /\ pendingNegotiation' = [pendingNegotiation EXCEPT ![e] = NoBlock]
    /\ negotiatedLimits' = [negotiatedLimits EXCEPT ![e] = LocalLimits(e)]
    /\ windowSizeTransmit' =
           [windowSizeTransmit EXCEPT ![e] = LocalLimits(e).windowTransmit]
    /\ maximumInformationFieldSize' =
           [maximumInformationFieldSize EXCEPT ![e] =
               Options[e].limits.maximumInformationFieldSize]
    /\ receivedUserInformation' = [receivedUserInformation EXCEPT ![e] = 0]

\* What is on its way to e is kept, or discarded with the input buffer.
Restart(e) ==
    /\ restarts' = [restarts EXCEPT ![e] = @ + 1]
    /\ \E most \in MaxRestarts : \A x \in Endpoint : restarts'[x] <= most[x]
    /\ Construct(e)
    /\ wire' \in {wire, [wire EXCEPT ![Peer[e]] = <<>>]}
    /\ UNCHANGED <<losses, history>>

-----------------------------------------------------------------------------
Connect(e) ==
    /\ opened[e] < MaxOpened
    /\ \E form \in ConnectRequestForms(e) :
          BuildConnectRequest(e, form) /\ Send(e, SnrmFrame(e, form))
    /\ UNCHANGED <<restarts, history>>

AcceptConnection(e) ==
    /\ opened[e] < MaxOpened
    /\ BuildConnectResponse(e)
    /\ Send(e, ConnectResponseFrame(e))
    /\ CountSession(e)
    /\ UNCHANGED <<restarts, accepted>>

Disconnect(e) ==
    /\ \E user \in UserSizes :
          BuildDisconnectRequest(e, user) /\ Send(e, DiscFrame(e, user))
    /\ UNCHANGED <<restarts, history>>

AnswerDisconnect(e) ==
    /\ BuildDisconnectResponse(e)
    /\ Send(e, DisconnectResponseFrame(e))
    /\ UNCHANGED <<restarts, history>>

SendMessage(e) ==
    /\ sent[e] < MaxMessages[e]
    /\ \E size \in InfoSizes :
          /\ BuildInformationFrame(e, size)
          /\ Send(e, IFrame(e, size, <<opened[e], sent[e] + 1>>))
    /\ sent' = [sent EXCEPT ![e] = @ + 1]
    /\ UNCHANGED <<restarts, opened, accepted, acknowledged>>

AcknowledgeReceipt(e) ==
    /\ BuildReceiveReadyFrame(e)
    /\ Send(e, ReceiveReadyFrame(e))
    /\ UNCHANGED <<restarts, history>>

DeliverData(e) ==
    /\ \E f \in {Head(w) : w \in {wire[Peer[e]]} \ {<<>>}} :
          /\ f.kind \in SupervisoryKind \cup {"I"} /\ Accepts(e, f)
          /\ ReceiveFrame(e, f)
          /\ acknowledged' =
                [acknowledged EXCEPT ![e] = @ + Distance(acknowledgeSequence[e], f.nr)]
          /\ accepted' = IF f.kind = "I"
                         THEN [accepted EXCEPT ![e] = Append(@, <<opened[e], f.payload>>)]
                         ELSE accepted
    /\ Take(e)
    /\ UNCHANGED <<restarts, opened, sent>>

DeliverOther(e) ==
    /\ \E f \in {Head(w) : w \in {wire[Peer[e]]} \ {<<>>}} :
          /\ f.kind \in UnnumberedKind \/ ~Accepts(e, f)
          /\ ReceiveFrame(e, f)
    /\ CountSession(e)
    /\ Take(e)
    /\ UNCHANGED <<restarts, accepted>>

Lose(e) ==
    /\ LoseFrame(e)
    /\ UNCHANGED <<sessionVars, restarts, history>>

RestartNext ==
    \E e \in Endpoint :
        \/ Restart(e)
        \/ Connect(e)
        \/ AcceptConnection(e)
        \/ Disconnect(e)
        \/ AnswerDisconnect(e)
        \/ SendMessage(e)
        \/ AcknowledgeReceipt(e)
        \/ DeliverData(e)
        \/ DeliverOther(e)
        \/ Lose(e)

RestartSpec == RestartInit /\ [][RestartNext]_restartVars

-----------------------------------------------------------------------------
(***************************************************************************)
(* Properties.                                                             *)
(***************************************************************************)

\* Whatever is accepted in one session is what the peer sent in one session of
\* its own, from its first message on and in order: the numbers of an abandoned
\* session are never taken for those of the next one.
OneSenderSession ==
    \A e \in Endpoint : \A i \in DOMAIN accepted[e] :
        LET a == accepted[e][i]
            before == accepted[e][i - 1]
        IN  IF i > 1 /\ before[1] = a[1]
            THEN a[2] = <<before[2][1], before[2][2] + 1>>
            ELSE a[2][2] = 1

\* What a sender counts as acknowledged has been accepted by its peer.
AcknowledgedWasAccepted ==
    \A e \in Endpoint : \A n \in 1 .. acknowledged[e] :
        \E i \in DOMAIN accepted[Peer[e]] : accepted[Peer[e]][i][2] = <<opened[e], n>>
============================================================================
