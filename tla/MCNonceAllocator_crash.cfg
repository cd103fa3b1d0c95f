\* Two submitters allocating for one signer, with crashes, failed writes,
\* node answers behind local history and history going stale.
CONSTANTS
  TxIDs = {t1, t2, t3}
  Signers <- MCSigners
  NonceWidth = 1
  InSignerRange <- MCInSignerRange
  KeyRank <- MCKeyRank
  Nonces <- MCAllocNonces
  NodeNonces = {0, 1}
  CreateStatuses <- MCCreateStatuses
  UpdateStatuses <- MCForwardStatuses
  Writers = {a1, a2}
  Updaters = {}
  Deleters = {}
  Listers = {}
  MaxSeq = 3
  MaxFaults = 1
  NoTx = NoTx
  Free = Free
SPECIFICATION FairSpec
INVARIANT TypeOK NonceLockExclusive NoDuplicateNonce
PROPERTY NoncesIncrease NonceEventuallyReleased WaiterEventuallyWoken ImplementsNonceLease
\* Inputs are bounded: once they are used up every goroutine is idle and
\* the server waits for requests, which is not a deadlock.
CHECK_DEADLOCK FALSE
