\* Creates of two signers racing DeleteTransaction, which holds no lock and removes the
\* primary before its index keys; IDs are re-created after a delete.  One fault: a
\* delete that stops at a failing Delete, a failed write or cleanup, or a crash; one
\* lister whose scans must remove what it leaves.
CONSTANTS
  TxIDs = {t1, t2}
  Signers <- MCSigners
  NonceWidth = 1
  InSignerRange <- MCInSignerRange
  KeyRank <- MCKeyRank
  Nonces <- MCNonces
  CreateStatuses <- MCCreateStatuses
  UpdateStatuses <- MCForwardStatuses
  Writers = {w1}
  Updaters = {}
  Deleters = {d1}
  Listers = {l1}
  MaxSeq = 3
  MaxFaults = 1
  NoTx = NoTx
  Free = Free
SPECIFICATION StoreFairSpec
PROPERTY OrphansEventuallyCleaned ImplementsTxTable
\* Inputs are bounded: once they are used up every goroutine is idle and
\* the server waits for requests, which is not a deadlock.
CHECK_DEADLOCK FALSE
