\* Creates racing a list scan and its orphan cleanup, with crashes and
\* failed writes at every step of WriteTransaction.
CONSTANTS
  TxIDs = {t1, t2}
  Signers <- MCSigners
  NonceWidth = 1
  InSignerRange <- MCInSignerRange
  KeyRank <- MCKeyRank
  Nonces <- MCNonces
  CreateStatuses <- MCCreateStatuses
  UpdateStatuses <- MCForwardStatuses
  Writers = {w1, w2}
  Updaters = {}
  Deleters = {}
  Listers = {l1}
  MaxSeq = 4
  MaxFaults = 2
  NoTx = NoTx
  Free = Free
SPECIFICATION StoreFairSpec
INVARIANT StoreTypeOK PrimaryIndexed
PROPERTY OrphansEventuallyCleaned
\* Inputs are bounded: once they are used up every goroutine is idle and
\* the server waits for requests, which is not a deadlock.
CHECK_DEADLOCK FALSE
