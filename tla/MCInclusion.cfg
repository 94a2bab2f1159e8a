\* The inclusion program against a prover that chooses every input.
\* The program stops after committing or aborting.
CONSTANTS
  k1 = k1
  k2 = k2
  k3 = k3
  k4 = k4
  q1 = q1
  q2 = q2
  w1 = w1
  w2 = w2
  x1 = x1
  x2 = x2
  b1 = b1
  b2 = b2
  Malformed = Malformed
  None = None
  Keys <- MCKeys
  Faulty <- MCFaulty
  Committees <- MCCommittees
  ChainCommittee <- MCChainCommittee
  StateKeys <- MCStateKeys
  StateValues <- MCStateValues
  TxIds <- MCTxIds
  BlockIds <- MCBlockIds
  ChainBlock <- MCChainBlock
  TxnLists <- MCTxnLists
  MaxPower = 2
  MaxEpoch = 1
  MaxSigs = 3
  MaxIndex = 3
SPECIFICATION Spec
INVARIANTS
  CommitmentSound
CHECK_DEADLOCK FALSE
