---------------------------- MODULE TrustedState ----------------------------
(***************************************************************************)
(* The TrustedState type of aptos_lc_core (spec 3; not under src/), which  *)
(* the epoch-change program decodes from its first input.                  *)
(***************************************************************************)
EXTENDS Chain

\* TrustedState::EpochState: an epoch and the committee governing it.
EpochStates(E) == [kind : {"EpochState"}, epoch : E, verifier : Committees]

\* TrustedState::EpochWaypoint: a version and a ledger hash, no committee.
Waypoints == [kind : {"Waypoint"}, epoch : Epochs, verifier : {None}]

TrustedStates == EpochStates(Epochs) \cup Waypoints

\* The absent value is no trusted state.
ASSUME NoneAssumption == None \notin TrustedStates
=============================================================================
