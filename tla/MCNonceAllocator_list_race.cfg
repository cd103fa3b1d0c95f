\* One submitter and one API lister: the lister collects an orphaned nonce key,
\* the allocator cleans it and re-uses the nonce, and the lister's late cleanup
\* deletes the new live key, so the next allocation returns the same nonce.
CONSTANTS
  TxIDs = {t1, t2, t3}
  Signers <- MCSigners
  NonceWidth = 1
  InSignerRange <- MCInSignerRange
  KeyRank <- MCKeyRank
  Nonces <- MCAllocNonces
  NodeNonces <- MCNodeNonces
  CreateStatuses <- MCCreateStatuses
  UpdateStatuses <- MCForwardStatuses
  Writers = {a1}
  Updaters = {}
  Deleters = {}
  Listers = {l1}
  MaxSeq = 3
  MaxFaults = 1
  NoTx = NoTx
  Free = Free
SPECIFICATION ApiSpec
INVARIANT NoDuplicateNonce
\* Inputs are bounded: once they are used up every goroutine is idle and
\* the server waits for requests, which is not a deadlock.
CHECK_DEADLOCK FALSE
