\* Signers "A" and "A_0": A's nonce range [nonce_0/A_0/, nonce_0/A_1)
\* also holds every key of A_0, and those sort after A's own.
CONSTANTS
  TxIDs = {t1, t2, t3}
  Signers <- MCCollidingSigners
  NonceWidth = 1
  InSignerRange <- MCInSignerRange
  KeyRank <- MCKeyRank
  Nonces <- MCAllocNonces
  NodeNonces = {0}
  CreateStatuses <- MCCreateStatuses
  UpdateStatuses <- MCForwardStatuses
  Writers = {a1}
  Updaters = {}
  Deleters = {}
  Listers = {}
  MaxSeq = 3
  MaxFaults = 0
  NoTx = NoTx
  Free = Free
SPECIFICATION Spec
INVARIANT NoDuplicateNonce
CHECK_DEADLOCK FALSE
