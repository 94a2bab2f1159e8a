------------------------- MODULE MCEpochChangeHost -------------------------
(***************************************************************************)
(* The host scripts and the epoch-change program on the chain of           *)
(* MCEpochChange.                                                          *)
(***************************************************************************)
EXTENDS MCEpochChange, EpochChangeHost
=============================================================================
