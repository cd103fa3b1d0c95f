\* A crash inside an update, between deleting the pending index and writing the record.
CONSTANTS
  TxIDs = {t1, t2}
  Signers <- MCSigners
  NonceWidth = 1
  InSignerRange <- MCInSignerRange
  KeyRank <- MCKeyRank
  Nonces <- MCNonces
  CreateStatuses <- MCCreateStatuses
  UpdateStatuses <- MCForwardStatuses
  Writers = {w1}
  Updaters = {u1}
  Deleters = {}
  Listers = {l1}
  MaxSeq = 2
  MaxFaults = 1
  NoTx = NoTx
  Free = Free
SPECIFICATION StoreSpec
INVARIANT PrimaryIndexed
\* Inputs are bounded: once they are used up every goroutine is idle and
\* the server waits for requests, which is not a deadlock.
CHECK_DEADLOCK FALSE
