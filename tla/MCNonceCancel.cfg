\* Two submitters of one signer, no faults; the waiter's caller may cancel.
CONSTANTS
  TxIDs = {t1, t2}
  Signers <- MCSigners
  NonceWidth = 1
  InSignerRange <- MCInSignerRange
  KeyRank <- MCKeyRank
  Nonces <- MCAllocNonces
  NodeNonces = {0}
  CreateStatuses <- MCCreateStatuses
  UpdateStatuses <- MCForwardStatuses
  Writers = {a1, a2}
  Updaters = {}
  Deleters = {}
  Listers = {}
  MaxSeq = 2
  MaxFaults = 0
  NoTx = NoTx
  Free = Free
SPECIFICATION CSpec
INVARIANT CancelledWaiterAbandons
\* Inputs are bounded: once they are used up every goroutine is idle and
\* the server waits for requests, which is not a deadlock.
CHECK_DEADLOCK FALSE
