--------------------------- MODULE MCSegmentation ---------------------------
(***************************************************************************)
(* Three sources on one line: two stations that send I-frames, one of      *)
(* which also sends UI frames.                                             *)
(***************************************************************************)
EXTENDS HdlcSegmentation, TLC

CONSTANTS meter, spare, meterUI, meterAddr, spareAddr, I, U

MCSource == {meter, spare, meterUI}
MCOrigin == (meter :> meterAddr) @@ (spare :> spareAddr) @@ (meterUI :> meterAddr)
MCKind == (meter :> I) @@ (spare :> I) @@ (meterUI :> U)

Of(size, field) == [size |-> size, field |-> field]

\* Sizes at, below and above the segment size, at the maximum of reassembly, and
\* above it, in one frame and in several; one message without bytes.
MCScript ==
    (meter :> <<Of(3, 2), Of(5, 2), Of(4, 2)>>)
    @@ (spare :> <<Of(3, 1), Of(2, 2)>>)
    @@ (meterUI :> <<Of(5, 5), Of(0, 2), Of(2, 1)>>)

\* One station whose segment size is raised above the maximum of reassembly.
MCRaised ==
    (meter :> <<Of(3, 2), Of(9, 6)>>) @@ (spare :> <<>>) @@ (meterUI :> <<>>)
============================================================================
