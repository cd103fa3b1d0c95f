\* Creates of two signers, forward status updates and list scans, without
\* faults or deletes.
CONSTANTS
  TxIDs = {t1, t2}
  Signers <- MCTwoSigners
  NonceWidth = 1
  InSignerRange <- MCInSignerRange
  KeyRank <- MCKeyRank
  Nonces <- MCNonces
  CreateStatuses <- MCCreateStatuses
  UpdateStatuses <- MCForwardStatuses
  Writers = {w1, w2}
  Updaters = {u1}
  Deleters = {}
  Listers = {l1}
  MaxSeq = 3
  MaxFaults = 0
  NoTx = NoTx
  Free = Free
SPECIFICATION StoreSpec
INVARIANT PrimaryIndexed NoStrayIndex
PROPERTY ImplementsTxTable
\* Inputs are bounded: once they are used up every goroutine is idle and
\* the server waits for requests, which is not a deadlock.
CHECK_DEADLOCK FALSE
