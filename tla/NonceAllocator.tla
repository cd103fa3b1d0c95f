--------------------------- MODULE NonceAllocator ---------------------------
(***************************************************************************)
(* The per-signer nonce allocator (internal/persistence/leveldb/nonces.go) *)
(* composed with the transaction store it reads and its callers write.    *)
(*                                                                         *)
(* The Writers of TxStore are here submitters: each round a submitter     *)
(* calls assignAndLockNonce for a signer, then WriteTransaction(tx, true) *)
(* with the nonce it got (or gives up), then lockedNonce.complete.        *)
(* assignAndLockNonce installs a lockedNonce in the registry under        *)
(* nonceMux, or waits on the installed one's channel and retries; the     *)
(* winner runs calcNextNonce without nonceMux: a descending, limit-1 scan *)
(* of the signer's nonce index (ListTransactionsByNonce, orphan cleanup   *)
(* included), trusted if its record is younger than nonceStateTimeout,    *)
(* otherwise the node's answer, raised to lastNonce+1 if it is not ahead. *)
(* complete deletes the registry entry and closes the channel.            *)
(* A crash loses the registry; the store keeps every completed write.     *)
(*                                                                         *)
(* Time is abstracted to staleBelow: the records whose sequence ID (hence *)
(* creation time) is at most staleBelow are older than nonceStateTimeout. *)
(***************************************************************************)
EXTENDS TxStore

CONSTANTS
  NodeNonces     \* answers NextNonceCallback may give

ASSUME NodeNonces \subseteq Nonces

VARIABLES
  lockedNonces,  \* registry: signer -> submitter holding its lockedNonce
  npc,           \* where each submitter is in the allocation protocol
  signer,        \* the signer each submitter is allocating for
  lastTx,        \* calcNextNonce's lastTxn (record or NoTx)
  nonce,         \* the allocated nonce (lockedNonce.nonce)
  staleBelow     \* records with seq <= staleBelow are older than nonceStateTimeout

allocVars == <<lockedNonces, npc, signer, lastTx, nonce, staleBelow>>
vars == <<storeVars, allocVars>>

Submitters == Writers

NPCs == {"idle", "wait", "retry", "calc", "decide", "locked", "writing"}

\* Submitters that own the signer's lockedNonce, from install to complete.
Holding == {"calc", "decide", "locked", "writing"}

TypeOK ==
  /\ StoreTypeOK
  /\ DOMAIN lockedNonces \subseteq Signers
  /\ \A s \in DOMAIN lockedNonces : lockedNonces[s] \in Submitters
  /\ npc \in [Submitters -> NPCs]
  /\ signer \in [Submitters -> Signers]
  /\ lastTx \in [Submitters -> TxRecords \cup {NoTx}]
  /\ nonce \in [Submitters -> Nonces]
  /\ staleBelow \in 0..MaxSeq

Init ==
  /\ StoreInit
  /\ lockedNonces = <<>>
  /\ npc = [a \in Submitters |-> "idle"]
  /\ signer = [a \in Submitters |-> CHOOSE s \in Signers : TRUE]
  /\ lastTx = [a \in Submitters |-> NoTx]
  /\ nonce = [a \in Submitters |-> 0]
  /\ staleBelow = 0

-----------------------------------------------------------------------------
(* One pass of the assignAndLockNonce loop under nonceMux: install a new  *)
(* lockedNonce and go on to calcNextNonce, or find one installed and wait *)
(* on its channel.  A retry after waking uses the same signer.            *)
\* Fault variant: the registry is not consulted; every caller installs.
AssignLockUnchecked(a, s) ==
  /\ \/ npc[a] = "idle"
     \/ npc[a] = "retry" /\ s = signer[a]
  /\ signer' = [signer EXCEPT ![a] = s]
  /\ lockedNonces' = Put(lockedNonces, s, a)
  /\ npc' = [npc EXCEPT ![a] = "calc"]
  /\ UNCHANGED <<storeVars, lastTx, nonce, staleBelow>>

AssignLock(a, s) ==
  /\ \/ npc[a] = "idle"
     \/ npc[a] = "retry" /\ s = signer[a]
  /\ signer' = [signer EXCEPT ![a] = s]
  /\ IF s \in DOMAIN lockedNonces
       THEN /\ npc' = [npc EXCEPT ![a] = "wait"]
            /\ UNCHANGED lockedNonces
       ELSE /\ lockedNonces' = Put(lockedNonces, s, a)
            /\ npc' = [npc EXCEPT ![a] = "calc"]
  /\ UNCHANGED <<storeVars, lastTx, nonce, staleBelow>>

\* Fault variant: complete deletes the entry but never closes the channel.
ReleasedNoWake(a) ==
  /\ lockedNonces' = DeleteKeys(lockedNonces, {signer[a]})
  /\ npc' = [npc EXCEPT ![a] = "idle"]

(* lockedNonce.complete: under nonceMux delete the registry entry and     *)
(* close the channel, which wakes every submitter waiting on it.          *)
Released(a) ==
  /\ lockedNonces' = DeleteKeys(lockedNonces, {signer[a]})
  /\ npc' = [b \in Submitters |->
               IF b = a THEN "idle"
               ELSE IF npc[b] = "wait" /\ signer[b] = signer[a] THEN "retry"
               ELSE npc[b]]

(* calcNextNonce, first half: ListTransactionsByNonce(signer, nil, 1,     *)
(* descending).  Under RLock walk the signer's nonce keys from the        *)
(* highest, skipping keys whose record is absent (collected as orphans),  *)
(* and stop at the first that resolves.  The orphans are then deleted by  *)
(* cleanupOrphanedTXIdxKeys (TxStore's CleanupOrphans) before returning.  *)
NonceScan(a) ==
  LET keys == {k \in DOMAIN idx : InRange(k, <<"nonce", signer[a]>>)}
      live == {k \in keys : txs[idx[k]] # NoTx}
      above(j, k) == KeyRank(<<k[2], k[3]>>) < KeyRank(<<j[2], j[3]>>)   \* j after k bytewise
      top  == CHOOSE k \in live : \A j \in live : ~above(j, k)
      skipped == {k \in keys \ live : live = {} \/ above(k, top)}
  IN /\ npc[a] = "calc" /\ pc[a] = "idle" /\ txMux = Free
     /\ lastTx' = [lastTx EXCEPT ![a] = IF live = {} THEN NoTx ELSE txs[idx[top]]]
     /\ orphans' = [orphans EXCEPT ![a] = skipped]
     /\ pc' = [pc EXCEPT ![a] = IF skipped = {} THEN "idle" ELSE "l_cleanup"]
     /\ npc' = [npc EXCEPT ![a] = "decide"]
     /\ UNCHANGED <<txs, idx, txMux, cur, nextSeq, faults,
                    lockedNonces, signer, nonce, staleBelow>>

Fresh(tx) == tx # NoTx /\ tx.seq > staleBelow

\* Fault variants: the history step is off by one either way.
NonceFromHistoryReuses(a) ==
  /\ npc[a] = "decide" /\ pc[a] = "idle" /\ Fresh(lastTx[a])
  /\ nonce' = [nonce EXCEPT ![a] = lastTx[a].nonce]
  /\ npc' = [npc EXCEPT ![a] = "locked"]
  /\ UNCHANGED <<storeVars, lockedNonces, signer, lastTx, staleBelow>>

NonceFromHistorySkips(a) ==
  /\ npc[a] = "decide" /\ pc[a] = "idle" /\ Fresh(lastTx[a])
  /\ nonce' = [nonce EXCEPT ![a] = lastTx[a].nonce + 2]
  /\ npc' = [npc EXCEPT ![a] = "locked"]
  /\ UNCHANGED <<storeVars, lockedNonces, signer, lastTx, staleBelow>>

(* calcNextNonce, second half, with the list's cleanup done.  A fresh     *)
(* lastTxn gives lastNonce+1 without asking the node ...                  *)
NonceFromHistory(a) ==
  /\ npc[a] = "decide" /\ pc[a] = "idle" /\ Fresh(lastTx[a])
  /\ nonce' = [nonce EXCEPT ![a] = lastTx[a].nonce + 1]
  /\ npc' = [npc EXCEPT ![a] = "locked"]
  /\ UNCHANGED <<storeVars, lockedNonces, signer, lastTx, staleBelow>>

\* Fault variant: the node's answer is taken as it is.
NonceFromNodeTrusting(a, answer) ==
  /\ npc[a] = "decide" /\ pc[a] = "idle" /\ ~Fresh(lastTx[a])
  /\ nonce' = [nonce EXCEPT ![a] = answer]
  /\ npc' = [npc EXCEPT ![a] = "locked"]
  /\ UNCHANGED <<storeVars, lockedNonces, signer, lastTx, staleBelow>>

(* ... otherwise nextNonceCB answers, and a stale lastTxn that is not     *)
(* behind the answer wins with lastNonce+1.                               *)
NonceFromNode(a, answer) ==
  /\ npc[a] = "decide" /\ pc[a] = "idle" /\ ~Fresh(lastTx[a])
  /\ nonce' = [nonce EXCEPT ![a] =
                 IF lastTx[a] # NoTx /\ answer <= lastTx[a].nonce
                   THEN lastTx[a].nonce + 1 ELSE answer]
  /\ npc' = [npc EXCEPT ![a] = "locked"]
  /\ UNCHANGED <<storeVars, lockedNonces, signer, lastTx, staleBelow>>

\* Fault variant: the error return forgets to call complete.
NonceCallbackFailsLeaks(a) ==
  /\ npc[a] = "decide" /\ pc[a] = "idle" /\ ~Fresh(lastTx[a])
  /\ npc' = [npc EXCEPT ![a] = "idle"]
  /\ UNCHANGED <<storeVars, lockedNonces, signer, lastTx, nonce, staleBelow>>

\* nextNonceCB returns an error: assignAndLockNonce calls complete and
\* returns the error.
NonceCallbackFails(a) ==
  /\ npc[a] = "decide" /\ pc[a] = "idle" /\ ~Fresh(lastTx[a])
  /\ Released(a)
  /\ UNCHANGED <<storeVars, signer, lastTx, nonce, staleBelow>>

(* The caller of the handle writes a new Pending transaction with the     *)
(* nonce (TxStore's WriteTransaction, Conflict and write errors included) *)
(* and then calls complete ...                                            *)
SubmitWrite(a, id) ==
  /\ npc[a] = "locked"
  /\ CreateBegin(a, [id |-> id, seq |-> nextSeq, from |-> signer[a],
                     nonce |-> nonce[a], status |-> Pending])
  /\ npc' = [npc EXCEPT ![a] = "writing"]
  /\ UNCHANGED <<lockedNonces, signer, lastTx, nonce, staleBelow>>

\* Fault variant: complete is called without waiting for the write.
SubmitCompleteEarly(a) ==
  /\ npc[a] = "writing"
  /\ Released(a)
  /\ UNCHANGED <<storeVars, signer, lastTx, nonce, staleBelow>>

SubmitComplete(a) ==
  /\ npc[a] = "writing" /\ pc[a] = "idle"
  /\ Released(a)
  /\ UNCHANGED <<storeVars, signer, lastTx, nonce, staleBelow>>

\* ... or fails before writing (preparing the transaction) and calls
\* complete with the nonce unspent.
SubmitAbort(a) ==
  /\ npc[a] = "locked"
  /\ Released(a)
  /\ UNCHANGED <<storeVars, signer, lastTx, nonce, staleBelow>>

\* Wall-clock time passes nonceStateTimeout for the next oldest record.
TimePasses ==
  /\ staleBelow < nextSeq - 1
  /\ staleBelow' = staleBelow + 1
  /\ UNCHANGED <<storeVars, lockedNonces, npc, signer, lastTx, nonce>>

\* A crash also loses the in-memory registry and every waiter.
Crash ==
  /\ StoreCrash
  /\ lockedNonces' = <<>>
  /\ npc' = [a \in Submitters |-> "idle"]
  /\ UNCHANGED <<signer, lastTx, nonce, staleBelow>>

-----------------------------------------------------------------------------
\* The allocator's own goroutines: submitters allocating, writing (their
\* store steps and the cleanup of their nonce scans included), time and
\* crashes.
Next ==
  \/ \E a \in Submitters :
       \/ \E s \in Signers : AssignLock(a, s)
       \/ NonceScan(a)
       \/ NonceFromHistory(a)
       \/ \E ans \in NodeNonces : NonceFromNode(a, ans)
       \/ NonceCallbackFails(a)
       \/ \E id \in TxIDs : SubmitWrite(a, id)
       \/ SubmitComplete(a)
       \/ SubmitAbort(a)
       \/ (StoreStep(a) \/ CleanupOrphans(a) \/ CleanupFails(a)) /\ UNCHANGED allocVars
  \/ TimePasses
  \/ Crash

\* API goroutines sharing the store with the allocator: DeleteTransaction
\* and list scans of any index, with their orphan cleanup.
ApiNext ==
  /\ \/ \E a \in Deleters : \E id \in TxIDs : DeletePrimary(a, id)
     \/ \E a \in Deleters : DeleteIndexes(a)
     \/ \E a \in Listers : \E r \in ScanRanges : ListScan(a, r)
     \/ \E a \in Listers : CleanupOrphans(a) \/ CleanupFails(a)
  /\ UNCHANGED allocVars

Spec == Init /\ [][Next]_vars

ApiSpec == Init /\ [][Next \/ ApiNext]_vars

\* A submitter that is running code (not waiting, not between requests)
\* keeps running, and the node eventually answers.  A caller holding a
\* handle eventually writes or gives up: complete must be called.
\* Starting a request is up to callers and gets no fairness.
Fairness ==
  /\ \A a \in Submitters :
       /\ WF_vars(StoreStep(a) /\ UNCHANGED allocVars)
       /\ WF_vars(CleanupOrphans(a) /\ UNCHANGED allocVars)
       /\ WF_vars(npc[a] = "retry" /\ AssignLock(a, signer[a]))
       /\ WF_vars(NonceScan(a))
       /\ WF_vars(NonceFromHistory(a) \/ \E ans \in NodeNonces : NonceFromNode(a, ans)
                    \/ NonceCallbackFails(a))
       /\ WF_vars(SubmitComplete(a))
       /\ WF_vars(\E id \in TxIDs : SubmitWrite(a, id) \/ SubmitAbort(a))

FairSpec == Spec /\ Fairness

-----------------------------------------------------------------------------
(* Per-signer serialisation, spec §5: from install to complete at most    *)
(* one submitter owns a signer, so no two calcNextNonce of one signer     *)
(* overlap, and the owner is the one the registry names.                  *)
NonceLockExclusive ==
  \A a, b \in Submitters :
    npc[a] \in Holding =>
      /\ signer[a] \in DOMAIN lockedNonces /\ lockedNonces[signer[a]] = a
      /\ (a # b /\ npc[b] \in Holding => signer[b] # signer[a])

(* Spec §3 invariant 4: no two stored transactions of a signer share a   *)
(* nonce, whatever crashes, failed writes and stale history do.          *)
NoDuplicateNonce ==
  \A i, j \in TxIDs :
    (i # j /\ txs[i] # NoTx /\ txs[j] # NoTx /\ txs[i].from = txs[j].from)
      => txs[i].nonce # txs[j].nonce

(* Spec §8.3: a transaction stored for a signer gets a nonce above every  *)
(* nonce the signer's stored transactions had before it.                  *)
NoncesIncrease ==
  [][\A i \in TxIDs :
       txs[i] = NoTx /\ txs'[i] # NoTx =>
         \A j \in TxIDs : txs[j] # NoTx /\ txs[j].from = txs'[i].from
                            => txs[j].nonce < txs'[i].nonce]_txs

(* Every lockedNonce is eventually completed: no error path of           *)
(* assignAndLockNonce or its caller leaves a signer locked forever.       *)
NonceEventuallyReleased ==
  \A s \in Signers : s \in DOMAIN lockedNonces ~> s \notin DOMAIN lockedNonces

(* No lost wake-up: a submitter blocked on another's lockedNonce channel  *)
(* (assignAndLockNonce's <-locked.unlocked) is eventually woken, because  *)
(* every path out of the holder's allocation ends in complete.            *)
WaiterEventuallyWoken ==
  \A a \in Submitters : npc[a] = "wait" ~> npc[a] # "wait"

-----------------------------------------------------------------------------
(* The allocator implements NonceLease: the registry is the lease owner,  *)
(* a submitter holding a handle (after calcNextNonce, until complete) is  *)
(* granted the handle's nonce, and the nonces of a signer's stored        *)
(* transactions are the used ones.                                        *)
Lease == INSTANCE NonceLease WITH
  owner <- lockedNonces,
  lease <- [a \in {b \in Submitters : npc[b] \in {"locked", "writing"}} |-> nonce[a]],
  used  <- [s \in Signers |->
              {txs[i].nonce : i \in {i \in TxIDs : txs[i] # NoTx /\ txs[i].from = s}}]

(* Spec §5 and §8.3 together: every step of the allocator, its callers'  *)
(* writes and crashes is a step of NonceLease.  So a signer's stored      *)
(* transactions only ever gain the nonce its current lease holder was     *)
(* granted, and the grant (calcNextNonce's answer, from fresh history or  *)
(* from the node) is above every nonce the signer already has stored.     *)
ImplementsNonceLease == Lease!LSpec
=============================================================================
