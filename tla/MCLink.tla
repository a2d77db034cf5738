------------------------------ MODULE MCLink ------------------------------
(***************************************************************************)
(* Messages of HdlcLink: the session and the number in it.  LinkInv and,   *)
(* where no frame is lost, LosslessInv may be checked in the instances of  *)
(* LinkLossy.cfg and LinkLossless.cfg.                                     *)
(***************************************************************************)
EXTENDS HdlcLinkInvariant, MCLine

MCPayload == (1 .. MaxSessions) \X (1 .. 12)
============================================================================
