-------------------------- MODULE MCInclusionHost --------------------------
(***************************************************************************)
(* The host scripts and the inclusion program on the chain of MCInclusion. *)
(***************************************************************************)
EXTENDS MCInclusion, InclusionHost
=============================================================================
