------------------------- MODULE EpochChangeAbstract -------------------------
(***************************************************************************)
(* What one run of the epoch-change program promises whoever checks its    *)
(* proof (spec 4.2): it decodes a trusted state, then either aborts or      *)
(* commits two hashes, that of the trusted state's committee and then that *)
(* of the committee of a later epoch.  When the trusted state is the real  *)
(* chain's, the second is the real committee of that later epoch.  Which   *)
(* entries were read, and in how many steps, is not part of the promise.   *)
(***************************************************************************)
EXTENDS TrustedState

VARIABLES
  pc,         \* "start", "running", "done" or "aborted"
  trusted,    \* the decoded trusted state
  committed   \* the public values

vars == <<pc, trusted, committed>>

\* The committees a run may move the trusted state ts to.
Successors(ts) ==
  IF ts.verifier = ChainCommittee[ts.epoch]
  THEN {ChainCommittee[e] : e \in (ts.epoch + 1)..MaxEpoch}
  ELSE Committees

Init ==
  /\ pc = "start"
  /\ trusted = None
  /\ committed = << >>

Decode ==
  /\ pc = "start"
  /\ \E ts \in TrustedStates : trusted' = ts
  /\ pc' = "running"
  /\ UNCHANGED committed

Fail ==
  /\ pc \in {"start", "running"}
  /\ pc' = "aborted"
  /\ UNCHANGED <<trusted, committed>>

Commit ==
  /\ pc = "running"
  /\ trusted.kind = "EpochState"
  /\ \E c \in Successors(trusted) :
       committed' = << VerifierHash(trusted.verifier), VerifierHash(c) >>
  /\ pc' = "done"
  /\ UNCHANGED trusted

Next == Decode \/ Fail \/ Commit

Spec == Init /\ [][Next]_vars
=============================================================================
