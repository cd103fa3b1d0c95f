-------------------------- MODULE MCNonceAllocator --------------------------
(***************************************************************************)
(* Model-checking harness for NonceAllocator.  Nonces must hold every     *)
(* value the allocator can reach: a node answer plus one per create.      *)
(***************************************************************************)
EXTENDS NonceAllocator, Sequences

\* One signer, "A", as its ASCII codes.
MCSigners        == {<<65>>}
\* Signers "A" and "A_0".
MCCollidingSigners == {<<65>>, <<65, 95, 48>>}
MCNodeNonces     == 0..2
\* Every nonce reachable: the highest node answer plus one per create.
MCAllocNonces    == 0..((CHOOSE n \in NodeNonces : \A m \in NodeNonces : m <= n) + MaxSeq)
MCCreateStatuses == {"Pending"}
MCForwardStatuses == {"Succeeded"}

ASSUME \A n \in NodeNonces : n + MaxSeq \in Nonces
\* The byte order of the nonce keys in closed form (TxStore's ASSUME checks
\* it): a signer's range also holds the keys of the signer that continues
\* its text with "_0".
MCInSignerRange(x, s) == x[1] \in {s, s \o <<95, 48>>}
\* The runs' signers "A", "A_0" and "Aa" in the byte order of their
\* prefixes ("/" < "_" < "a"), ten ranks apart (nonces are one digit).
MCKeyRank(x) == 10 * (CASE x[1] = <<65>> -> 0 [] x[1] = <<65, 95, 48>> -> 1
                       [] x[1] = <<65, 97>> -> 2) + x[2]
=============================================================================
