\* The chaining verifier over two runs of the epoch-change program, on the
\* chain A, B, A, C with one faulty key.  It stops after MaxRuns runs.
CONSTANTS
  k1 = k1
  k2 = k2
  k3 = k3
  k4 = k4
  None = None
  Malformed = Malformed
  Keys <- MCKeys
  Faulty <- MCFaulty
  Committees <- MCCommittees
  ChainCommittee <- MCChainCommittee
  MaxPower = 2
  MaxEpoch = 3
  MaxProofLen = 3
  MaxSigs = 3
  MaxRuns = 2
SPECIFICATION LCSpec
INVARIANTS
  TrustsChainCommittee
CHECK_DEADLOCK FALSE
