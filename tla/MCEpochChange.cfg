\* The epoch-change program on a chain A, B, A, E, C with one faulty key.
\* The program stops after committing or aborting.
CONSTANTS
  k1 = k1
  k2 = k2
  k3 = k3
  k4 = k4
  None = None
  Malformed = Malformed
  Keys <- MCKeys
  Faulty <- MCFaulty
  Committees <- MCCommittees
  ChainCommittee <- MCChainCommittee
  MaxPower = 2
  MaxEpoch = 4
  MaxProofLen = 3
  MaxSigs = 3
SPECIFICATION Spec
INVARIANTS
  TypeOK
  RatchetSound
PROPERTY
  AbstractSpec
CHECK_DEADLOCK FALSE
