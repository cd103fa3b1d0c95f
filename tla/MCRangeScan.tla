---------------------------- MODULE MCRangeScan ----------------------------
(* Signer strings for the RangeScan runs, as ASCII codes. *)
EXTENDS RangeScan

\* Hex-style signers: "A" and "Aa", one a prefix of the other.
MCHexSigners == {<<65>>, <<65, 97>>}

\* Nonces below 10^NonceWidth for NonceWidth = 1.
MCInRangeNonces == 0..2
====
