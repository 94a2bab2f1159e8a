\* The host scripts drive the epoch-change program on inputs built from
\* the chain A, B, A, E, C.  A run stops when the host exits, panics or returns.
CONSTANTS
  k1 = k1
  k2 = k2
  k3 = k3
  k4 = k4
  None = None
  Malformed = Malformed
  Keys <- MCKeys
  Faulty <- MCFaulty
  Committees <- MCCommittees
  ChainCommittee <- MCChainCommittee
  MaxPower = 2
  MaxEpoch = 4
  MaxProofLen = 3
  MaxSigs = 3
SPECIFICATION HostSpec
INVARIANTS
  EpochHonestRunSucceeds
  PublicValuesOfAssets
CHECK_DEADLOCK FALSE
