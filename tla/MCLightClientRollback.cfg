\* Whether the chaining verifier can be moved back to an older committee,
\* on a chain of three distinct committees B, C, A, over two runs.
CONSTANTS
  k1 = k1
  k2 = k2
  k3 = k3
  k4 = k4
  None = None
  Malformed = Malformed
  Keys <- MCKeys
  Faulty <- MCFaulty
  Committees <- MCCommittees
  ChainCommittee <- MCDistinctChain
  MaxPower = 2
  MaxEpoch = 2
  MaxProofLen = 3
  MaxSigs = 3
  MaxRuns = 2
SPECIFICATION LCSpec
PROPERTY
  NoRollback
CHECK_DEADLOCK FALSE
