------------------------------ MODULE NonceLease ------------------------------
(***************************************************************************)
(* What the nonce allocator promises its callers (spec §5 and §8.3),      *)
(* without scans, channels or the node.  A signer is leased to at most    *)
(* one submitter at a time, and a submitter holds at most one lease.  The *)
(* holder is granted one nonce, above every nonce of the signer's stored  *)
(* transactions, and stores transactions of the signer only with that     *)
(* nonce and only while it holds the lease.  Releasing ends the lease; a  *)
(* crash ends every lease and keeps what was stored; deletes forget       *)
(* stored nonces.                                                         *)
(***************************************************************************)
EXTENDS Naturals, TLC

CONSTANTS
  Signers,      \* signing identities
  Submitters,   \* callers of AssignAndLockNonce
  Nonces        \* the nonces that can be granted

VARIABLES
  owner,  \* partial function: signer -> the submitter holding its lease
  lease,  \* partial function: submitter -> the nonce it was granted
  used    \* signer -> the nonces of its stored transactions

leaseVars == <<owner, lease, used>>

\* f without key k.
Without(f, k) == [x \in DOMAIN f \ {k} |-> f[x]]

Holders == {owner[s] : s \in DOMAIN owner}

LInit ==
  /\ owner = <<>>
  /\ lease = <<>>
  /\ used = [s \in Signers |-> {}]

\* A free signer is leased to a submitter that holds no lease.
Acquire(a, s) ==
  /\ s \notin DOMAIN owner
  /\ a \notin Holders
  /\ owner' = owner @@ (s :> a)
  /\ UNCHANGED <<lease, used>>

\* The holder of s is granted a nonce above all of s's stored ones.
Grant(a, s, n) ==
  /\ s \in DOMAIN owner /\ owner[s] = a
  /\ a \notin DOMAIN lease
  /\ \A m \in used[s] : m < n
  /\ lease' = lease @@ (a :> n)
  /\ UNCHANGED <<owner, used>>

\* The holder stores a transaction of s with its granted nonce.
Store(a, s) ==
  /\ s \in DOMAIN owner /\ owner[s] = a
  /\ a \in DOMAIN lease
  /\ used' = [used EXCEPT ![s] = @ \cup {lease[a]}]
  /\ UNCHANGED <<owner, lease>>

\* The holder gives the signer back, with or without a grant.
Release(a, s) ==
  /\ s \in DOMAIN owner /\ owner[s] = a
  /\ owner' = Without(owner, s)
  /\ lease' = Without(lease, a)
  /\ UNCHANGED used

\* Deleting transactions forgets some of a signer's stored nonces.
Forget(s, gone) ==
  /\ gone # {}
  /\ used' = [used EXCEPT ![s] = @ \ gone]
  /\ UNCHANGED <<owner, lease>>

\* A restart ends every lease; stored transactions survive.
Reset ==
  /\ owner' = <<>>
  /\ lease' = <<>>
  /\ UNCHANGED used

LNext ==
  \/ \E a \in Submitters, s \in Signers :
       \/ Acquire(a, s)
       \/ \E n \in Nonces : Grant(a, s, n)
       \/ Store(a, s)
       \/ Release(a, s)
  \/ \E s \in Signers : \E gone \in SUBSET used[s] : Forget(s, gone)
  \/ Reset

LSpec == LInit /\ [][LNext]_leaseVars
====
