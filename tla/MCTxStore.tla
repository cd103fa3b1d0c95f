----------------------------- MODULE MCTxStore -----------------------------
(***************************************************************************)
(* Model-checking harness for TxStore: the sets and bounds the .cfg files *)
(* substitute, and the fairness the liveness runs assume.                 *)
(***************************************************************************)
EXTENDS TxStore, Sequences

\* One signer, "A", as its ASCII codes.
MCSigners        == {<<65>>}
\* Two signers, "A" and "Aa", whose nonce ranges are adjacent.
MCTwoSigners     == {<<65>>, <<65, 97>>}
MCNonces         == 0..2
MCCreateStatuses == {"Pending"}
MCForwardStatuses == {"Succeeded"}
MCAllStatuses    == {"Pending", "Succeeded", "Suspended"}

\* A goroutine inside WriteTransaction or DeleteTransaction runs on to its
\* end; listers scan and clean up whenever they can (the cleanup only
\* waits for txMux).  Starting a create, update or delete is up to callers
\* and gets no fairness.
StoreFairSpec ==
  /\ StoreSpec
  /\ \A a \in Writers \cup Updaters : WF_storeVars(StoreStep(a))
  /\ \A a \in Deleters : WF_storeVars(DeleteIndexes(a))
  /\ \A a \in Listers : WF_storeVars(\E r \in ScanRanges : ListScan(a, r))
  /\ \A a \in Listers : WF_storeVars(CleanupOrphans(a))
\* The byte order of the nonce keys in closed form (TxStore's ASSUME checks
\* it): a signer's range also holds the keys of the signer that continues
\* its text with "_0".
MCInSignerRange(x, s) == x[1] \in {s, s \o <<95, 48>>}
\* The runs' signers "A", "A_0" and "Aa" in the byte order of their
\* prefixes ("/" < "_" < "a"), ten ranks apart (nonces are one digit).
MCKeyRank(x) == 10 * (CASE x[1] = <<65>> -> 0 [] x[1] = <<65, 95, 48>> -> 1
                       [] x[1] = <<65, 97>> -> 2) + x[2]
=============================================================================
