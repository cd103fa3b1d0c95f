------------------------------ MODULE NonceKeys ------------------------------
(***************************************************************************)
(* The per-signer nonce index keys of leveldb_persistence.go as byte      *)
(* strings, and the half-open util.Range test.  Shared by RangeScan (one  *)
(* list call over an arbitrary keyspace) and TxStore (whose nonce scans   *)
(* select and order keys by these bytes).  A signer is the sequence of    *)
(* the ASCII codes of its text.                                           *)
(***************************************************************************)
EXTENDS KeyOrder

CONSTANT NonceWidth   \* the %.Nd width of txNonceAllocationKey (24 in the code)

ASSUME NonceWidth \in Nat \ {0}

nonceAllocationPrefix == <<C("n"), C("o"), C("n"), C("c"), C("e"), C("_"), C("0"), C("/")>>
signerNoncePrefix(signer) == nonceAllocationPrefix \o signer \o <<C("_"), C("0"), C("/")>>
signerNonceEnd(signer) == nonceAllocationPrefix \o signer \o <<C("_"), C("1")>>
txNonceAllocationKey(signer, n) == signerNoncePrefix(signer) \o Pad(n, NonceWidth)

\* util.Range: Start inclusive, Limit exclusive.
InKeyRange(k, start, limit) == ~LexLess(k, start) /\ LexLess(k, limit)
====
