\* One submitter: a crash leaves a nonce index entry without its record, the
\* cleanup that the next allocation scan triggers fails silently, and the same
\* transaction ID is re-created with a lower nonce from the node. The stale
\* top nonce key then resolves to that record and two allocations agree.
CONSTANTS
  TxIDs = {t1, t2, t3}
  Signers <- MCSigners
  NonceWidth = 1
  InSignerRange <- MCInSignerRange
  KeyRank <- MCKeyRank
  Nonces <- MCAllocNonces
  NodeNonces <- MCNodeNonces
  CreateStatuses <- MCCreateStatuses
  UpdateStatuses <- MCForwardStatuses
  Writers = {a1}
  Updaters = {}
  Deleters = {}
  Listers = {}
  MaxSeq = 4
  MaxFaults = 2
  NoTx = NoTx
  Free = Free
SPECIFICATION Spec
INVARIANT NoDuplicateNonce
\* Inputs are bounded: once they are used up every goroutine is idle and
\* the server waits for requests, which is not a deadlock.
CHECK_DEADLOCK FALSE
