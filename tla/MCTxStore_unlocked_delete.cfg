\* DeleteTransaction (no lock) racing a create that reuses the deleted ID.
CONSTANTS
  TxIDs = {t1, t2}
  Signers <- MCSigners
  NonceWidth = 1
  InSignerRange <- MCInSignerRange
  KeyRank <- MCKeyRank
  Nonces <- MCNonces
  CreateStatuses <- MCCreateStatuses
  UpdateStatuses <- MCForwardStatuses
  Writers = {w1}
  Updaters = {}
  Deleters = {d1}
  Listers = {l1}
  MaxSeq = 2
  MaxFaults = 0
  NoTx = NoTx
  Free = Free
SPECIFICATION StoreSpec
INVARIANT NoStrayIndex
\* Inputs are bounded: once they are used up every goroutine is idle and
\* the server waits for requests, which is not a deadlock.
CHECK_DEADLOCK FALSE
