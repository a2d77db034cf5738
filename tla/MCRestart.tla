----------------------------- MODULE MCRestart -----------------------------
(***************************************************************************)
(* Messages of HdlcRestart: the sender's session and the number in it. The *)
(* invariant is there to be evaluated with the properties it proves.       *)
(***************************************************************************)
EXTENDS HdlcRestartInvariant, MCLine

MCPayload == (1 .. MaxOpened) \X (1 .. 12)

OneEach == (client :> 1) @@ (server :> 1)

\* One end abandons: the client once, or the server twice, after which a third
\* session is the last within the bound.
ClientOnceOrServerTwice == {(client :> 1) @@ (server :> 0), (client :> 0) @@ (server :> 2)}
============================================================================
