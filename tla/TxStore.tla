------------------------------ MODULE TxStore ------------------------------
(***************************************************************************)
(* The managed-transaction layer of the LevelDB persistence               *)
(* (internal/persistence/leveldb_persistence.go).                         *)
(*                                                                         *)
(* A transaction is stored once under tx_0/<id> and referenced from three *)
(* index families whose value is the primary key:                         *)
(*   tx_created_0/<created>/<seq>     every transaction                   *)
(*   tx_inflight_0/<seq>              only while status = Pending         *)
(*   nonce_0/<signer>_0/<nonce>       one per (signer, nonce)             *)
(* There are no multi-key commits: every Put/Delete is atomic on its own. *)
(* WriteTransaction holds txMux exclusively across its several writes;     *)
(* a list scan holds it shared, then drops it and takes it exclusively to *)
(* delete the orphaned index keys it found.  DeleteTransaction takes no   *)
(* lock at all.  The process may crash between any two writes, and any    *)
(* single write may fail and return an error with no rollback.            *)
(*                                                                         *)
(* Data abstraction: the creation timestamp is represented by the         *)
(* sequence ID (both grow with creation order and the created-index key   *)
(* is unique by its sequence ID); IDs are model values, a signer is its  *)
(* text as ASCII codes (NonceKeys); an index                              *)
(* key is a tuple naming its family and the fields the key encodes.       *)
(***************************************************************************)
EXTENDS Naturals, FiniteSets, Functions, TLC

CONSTANTS
  TxIDs,           \* caller-supplied transaction IDs
  Signers,         \* "from" addresses
  Nonces,          \* nonces callers write (a small set of naturals)
  CreateStatuses,  \* statuses a new transaction is written with
  UpdateStatuses,  \* statuses an update may write
  Writers,         \* goroutines calling WriteTransaction(tx, true)
  Updaters,        \* goroutines calling GetTransactionByID then WriteTransaction(tx, false)
  Deleters,        \* goroutines calling DeleteTransaction
  Listers,         \* goroutines calling ListTransactionsBy*/Pending
  MaxSeq,          \* bound on minted sequence IDs
  MaxFaults,       \* bound on crashes plus failed writes
  NoTx,            \* model value: no record / nil
  Free,            \* model value: txMux not held exclusively
  NonceWidth,      \* the %.Nd width of the nonce in txNonceAllocationKey
  InSignerRange(_, _), \* does key x lie in signer s's range?  (ASSUME below)
  KeyRank(_)       \* a number ordering the nonce keys bytewise (ASSUME below)

Pending   == "Pending"
Statuses  == {"Pending", "Succeeded", "Failed", "Suspended"}

ASSUME /\ Nonces \subseteq Nat
       /\ CreateStatuses \subseteq Statuses /\ UpdateStatuses \subseteq Statuses
       /\ MaxSeq \in Nat \ {0} /\ MaxFaults \in Nat

StoreActors == Writers \cup Updaters \cup Deleters \cup Listers
Seqs        == 1..MaxSeq

\* apitypes.ManagedTX, reduced to the fields the persistence layer reads.
TxRecords == [id: TxIDs, seq: Seqs, from: Signers, nonce: Nonces, status: Statuses]

\* Key builders: txCreatedIndexKey, txPendingIndexKey, txNonceAllocationKey.
txCreatedIndexKey(tx)          == <<"tx_created", tx.seq>>
txPendingIndexKey(seq)         == <<"tx_inflight", seq>>
txNonceAllocationKey(s, n)     == <<"nonce", s, n>>

IndexKeys == {<<"tx_created", q>> : q \in Seqs} \cup {<<"tx_inflight", q>> : q \in Seqs}
               \cup {<<"nonce", s, n>> : s \in Signers, n \in Nonces}

\* The scan ranges [prefix, end) of listTransactionsByIndex: one per index
\* family, the nonce family narrowed to one signer by signerNoncePrefix.
ScanRanges == {<<"tx_created">>, <<"tx_inflight">>} \cup {<<"nonce", s>> : s \in Signers}
\* The nonce keys as the store orders them (NonceKeys).
NK == INSTANCE NonceKeys
\* The bytes of the nonce key of a (signer, nonce) pair.
NonceKeyOf(x) == NK!txNonceAllocationKey(x[1], x[2])
\* InSignerRange(x, s): the key of the (signer, nonce) pair x lies in the
\* range [signerNoncePrefix(s), signerNonceEnd(s)) of signer s: its own
\* keys, and those of any signer whose text continues s with "_0".
\* KeyRank orders the pairs as their keys sort bytewise.  Both are
\* constant operators that the MC modules give in closed form, checked
\* here once against the byte order, so that fairness tests (which TLC
\* evaluates without caching definitions) never rebuild the byte strings.
ASSUME \A x \in Signers \X Nonces :
         /\ \A s \in Signers :
              InSignerRange(x, s) <=>
                NK!InKeyRange(NonceKeyOf(x), NK!signerNoncePrefix(s), NK!signerNonceEnd(s))
         /\ \A y \in Signers \X Nonces :
              KeyRank(x) < KeyRank(y) <=> NK!LexLess(NonceKeyOf(x), NonceKeyOf(y))
InRange(k, r) == k[1] = r[1] /\ (r[1] = "nonce" => InSignerRange(<<k[2], k[3]>>, r[2]))

VARIABLES
  txs,      \* tx_0/ family: TxIDs -> record or NoTx
  idx,      \* the three index families: a function from present keys to TxIDs
  txMux,    \* the exclusive holder of txMux, or Free
  pc,       \* where each goroutine is
  cur,      \* the record a writer, updater or deleter is working on
  orphans,  \* orphaned index keys a lister found and has yet to delete
  nextSeq,  \* next sequence ID NewULID() mints (ULIDs grow with time)
  faults    \* crashes and failed writes so far

storeVars == <<txs, idx, txMux, pc, cur, orphans, nextSeq, faults>>

PCs == {"idle", "w_created", "w_pending", "w_nonce", "w_unpend", "w_primary",
        "u_ready", "d_indexes", "l_cleanup"}
WriteSteps == {"w_created", "w_pending", "w_nonce", "w_unpend", "w_primary"}

Put(f, k, v)   == [x \in DOMAIN f \cup {k} |-> IF x = k THEN v ELSE f[x]]
DeleteKeys(f, ks) == Restrict(f, DOMAIN f \ ks)

StoreTypeOK ==
  /\ txs \in [TxIDs -> TxRecords \cup {NoTx}]
  /\ DOMAIN idx \subseteq IndexKeys /\ \A k \in DOMAIN idx : idx[k] \in TxIDs
  /\ txMux \in StoreActors \cup {Free}
  /\ pc \in [StoreActors -> PCs]
  /\ cur \in [StoreActors -> TxRecords \cup {NoTx}]
  /\ orphans \in [StoreActors -> SUBSET IndexKeys]
  /\ nextSeq \in 1..MaxSeq + 1
  /\ faults \in 0..MaxFaults
  \* txMux is held exactly by the goroutine inside WriteTransaction's writes.
  /\ \A a \in StoreActors : txMux = a <=> pc[a] \in WriteSteps

StoreInit ==
  /\ txs = [i \in TxIDs |-> NoTx]
  /\ idx = <<>>
  /\ txMux = Free
  /\ pc = [a \in StoreActors |-> "idle"]
  /\ cur = [a \in StoreActors |-> NoTx]
  /\ orphans = [a \in StoreActors |-> {}]
  /\ nextSeq = 1
  /\ faults = 0

-----------------------------------------------------------------------------
(* WriteTransaction(tx, new=true).  Under txMux.Lock(): mint the sequence  *)
(* ID, return Conflict if tx_0/<id> exists, else write the created index, *)
(* the pending index (if Pending), the nonce index, delete the pending    *)
(* index (if not Pending) and finally the primary record.                 *)
(* The required-field and preset-sequence-ID checks reject before any    *)
(* write; callers here always pass complete records without a sequence. *)
\* Fault variant: the MsgDuplicateID check on tx_0/<id> is missing.
CreateBeginNoConflictCheck(a, tx) ==
  /\ pc[a] = "idle" /\ txMux = Free /\ nextSeq <= MaxSeq
  /\ nextSeq' = nextSeq + 1
  /\ txMux' = a
  /\ cur' = [cur EXCEPT ![a] = tx]
  /\ pc' = [pc EXCEPT ![a] = "w_created"]
  /\ UNCHANGED <<txs, idx, orphans, faults>>

CreateBegin(a, tx) ==
  /\ pc[a] = "idle" /\ txMux = Free /\ nextSeq <= MaxSeq
  /\ nextSeq' = nextSeq + 1
  /\ IF txs[tx.id] # NoTx
       THEN UNCHANGED <<txMux, pc, cur>>           \* MsgDuplicateID, unlocked by defer
       ELSE /\ txMux' = a
            /\ cur' = [cur EXCEPT ![a] = tx]
            /\ pc' = [pc EXCEPT ![a] = "w_created"]
  /\ UNCHANGED <<txs, idx, orphans, faults>>

\* Fault variant: the pending index is never written on create.
WriteCreatedIndexSkipsPending(a) ==
  /\ pc[a] = "w_created"
  /\ idx' = Put(idx, txCreatedIndexKey(cur[a]), cur[a].id)
  /\ pc' = [pc EXCEPT ![a] = "w_nonce"]
  /\ UNCHANGED <<txs, txMux, cur, orphans, nextSeq, faults>>

WriteCreatedIndex(a) ==
  /\ pc[a] = "w_created"
  /\ idx' = Put(idx, txCreatedIndexKey(cur[a]), cur[a].id)
  /\ pc' = [pc EXCEPT ![a] = IF cur[a].status = Pending THEN "w_pending" ELSE "w_nonce"]
  /\ UNCHANGED <<txs, txMux, cur, orphans, nextSeq, faults>>

WritePendingIndex(a) ==
  /\ pc[a] = "w_pending"
  /\ idx' = Put(idx, txPendingIndexKey(cur[a].seq), cur[a].id)
  /\ pc' = [pc EXCEPT ![a] = "w_nonce"]
  /\ UNCHANGED <<txs, txMux, cur, orphans, nextSeq, faults>>

WriteNonceIndex(a) ==
  /\ pc[a] = "w_nonce"
  /\ idx' = Put(idx, txNonceAllocationKey(cur[a].from, cur[a].nonce), cur[a].id)
  /\ pc' = [pc EXCEPT ![a] = IF cur[a].status # Pending THEN "w_unpend" ELSE "w_primary"]
  /\ UNCHANGED <<txs, txMux, cur, orphans, nextSeq, faults>>

\* Fault variant: the pending index is left behind.
DeletePendingIndexNoop(a) ==
  /\ pc[a] = "w_unpend"
  /\ pc' = [pc EXCEPT ![a] = "w_primary"]
  /\ UNCHANGED <<txs, idx, txMux, cur, orphans, nextSeq, faults>>

\* Shared tail of create and update: deleteKeys(txPendingIndexKey(seq))
\* when the status is not Pending (absence tolerated) ...
DeletePendingIndex(a) ==
  /\ pc[a] = "w_unpend"
  /\ idx' = DeleteKeys(idx, {txPendingIndexKey(cur[a].seq)})
  /\ pc' = [pc EXCEPT ![a] = "w_primary"]
  /\ UNCHANGED <<txs, txMux, cur, orphans, nextSeq, faults>>

\* ... then writeJSON(idKey, tx) and the deferred txMux.Unlock().
WritePrimary(a) ==
  /\ pc[a] = "w_primary"
  /\ txs' = [txs EXCEPT ![cur[a].id] = cur[a]]
  /\ txMux' = Free
  /\ pc' = [pc EXCEPT ![a] = "idle"]
  /\ cur' = [cur EXCEPT ![a] = NoTx]
  /\ UNCHANGED <<idx, orphans, nextSeq, faults>>

\* Fault variant: the error return skips the Unlock (no defer).
WriteFailsKeepsLock(a) ==
  /\ pc[a] \in WriteSteps /\ faults < MaxFaults
  /\ faults' = faults + 1
  /\ pc' = [pc EXCEPT ![a] = "idle"]
  /\ cur' = [cur EXCEPT ![a] = NoTx]
  /\ UNCHANGED <<txs, idx, txMux, orphans, nextSeq>>

\* Any Put/Delete of the sequence returns an error: nothing is rolled back,
\* the deferred Unlock runs and the caller gets StoreIOError.
WriteFails(a) ==
  /\ pc[a] \in WriteSteps /\ faults < MaxFaults
  /\ faults' = faults + 1
  /\ txMux' = Free
  /\ pc' = [pc EXCEPT ![a] = "idle"]
  /\ cur' = [cur EXCEPT ![a] = NoTx]
  /\ UNCHANGED <<txs, idx, orphans, nextSeq>>

-----------------------------------------------------------------------------
(* An updater is a policy loop: it reads a record with GetTransactionByID *)
(* (under RLock), keeps it in memory, and later writes it back with a new *)
(* status through WriteTransaction(tx, new=false), which does not check  *)
(* that the record still exists.                                          *)
UpdateRead(a, id) ==
  /\ pc[a] = "idle" /\ txMux = Free /\ txs[id] # NoTx
  /\ cur' = [cur EXCEPT ![a] = txs[id]]
  /\ pc' = [pc EXCEPT ![a] = "u_ready"]
  /\ UNCHANGED <<txs, idx, txMux, orphans, nextSeq, faults>>

UpdateBegin(a, status) ==
  /\ pc[a] = "u_ready" /\ txMux = Free
  /\ txMux' = a
  /\ cur' = [cur EXCEPT ![a].status = status]
  /\ pc' = [pc EXCEPT ![a] = IF status # Pending THEN "w_unpend" ELSE "w_primary"]
  /\ UNCHANGED <<txs, idx, orphans, nextSeq, faults>>

-----------------------------------------------------------------------------
(* DeleteTransaction: readJSON of the primary (nil: return), then         *)
(* deleteKeys of the primary and the three index keys, in that order,     *)
(* with no lock held.  The read is merged with the primary delete.        *)
DeletePrimary(a, id) ==
  /\ pc[a] = "idle" /\ txs[id] # NoTx
  /\ cur' = [cur EXCEPT ![a] = txs[id]]
  /\ txs' = [txs EXCEPT ![id] = NoTx]
  /\ pc' = [pc EXCEPT ![a] = "d_indexes"]
  /\ UNCHANGED <<idx, txMux, orphans, nextSeq, faults>>

\* The index keys DeleteTransaction passes to deleteKeys after the primary.
DeletionKeys(tx) ==
  <<txCreatedIndexKey(tx), txPendingIndexKey(tx.seq), txNonceAllocationKey(tx.from, tx.nonce)>>

DeleteIndexes(a) ==
  /\ pc[a] = "d_indexes"
  /\ idx' = DeleteKeys(idx, Range(DeletionKeys(cur[a])))
  /\ pc' = [pc EXCEPT ![a] = "idle"]
  /\ cur' = [cur EXCEPT ![a] = NoTx]
  /\ UNCHANGED <<txs, txMux, orphans, nextSeq, faults>>

\* A Delete fails: deleteKeys stops there and DeleteTransaction returns the
\* error; the index keys before it are gone, the rest stay as orphans.
\* (A failure of the first, primary Delete changes nothing.)
DeleteFails(a) ==
  /\ pc[a] = "d_indexes" /\ faults < MaxFaults
  /\ \E n \in 0..2 : idx' = DeleteKeys(idx, {DeletionKeys(cur[a])[i] : i \in 1..n})
  /\ faults' = faults + 1
  /\ pc' = [pc EXCEPT ![a] = "idle"]
  /\ cur' = [cur EXCEPT ![a] = NoTx]
  /\ UNCHANGED <<txs, txMux, orphans, nextSeq>>

-----------------------------------------------------------------------------
(* listTransactionsByIndex with no limit: under RLock, scan the range and *)
(* resolve every value through indexLookupCallback; a key whose primary   *)
(* is absent is collected as orphaned.  RUnlock, then, if any were found, *)
(* cleanupOrphanedTXIdxKeys takes the write lock and deletes them.        *)
\* Fault variant: every key in range is taken for an orphan.
OrphansInAll(r) == {k \in DOMAIN idx : InRange(k, r)}

OrphansIn(r) == {k \in DOMAIN idx : InRange(k, r) /\ txs[idx[k]] = NoTx}

ListScan(a, r) ==
  /\ pc[a] = "idle" /\ txMux = Free
  /\ OrphansIn(r) # {}
  /\ orphans' = [orphans EXCEPT ![a] = OrphansIn(r)]
  /\ pc' = [pc EXCEPT ![a] = "l_cleanup"]
  /\ UNCHANGED <<txs, idx, txMux, cur, nextSeq, faults>>

\* Fault variant: the collected keys are never deleted.
CleanupOrphansNoDelete(a) ==
  /\ pc[a] = "l_cleanup" /\ txMux = Free
  /\ orphans' = [orphans EXCEPT ![a] = {}]
  /\ pc' = [pc EXCEPT ![a] = "idle"]
  /\ UNCHANGED <<txs, idx, txMux, cur, nextSeq, faults>>

CleanupOrphans(a) ==
  /\ pc[a] = "l_cleanup" /\ txMux = Free
  /\ idx' = DeleteKeys(idx, orphans[a])
  /\ orphans' = [orphans EXCEPT ![a] = {}]
  /\ pc' = [pc EXCEPT ![a] = "idle"]
  /\ UNCHANGED <<txs, txMux, cur, nextSeq, faults>>

\* deleteKeys stops at the first failing Delete; the error is logged and
\* swallowed, the keys not yet deleted stay (the next scan retries).
CleanupFails(a) ==
  /\ pc[a] = "l_cleanup" /\ txMux = Free /\ faults < MaxFaults
  /\ \E done \in SUBSET orphans[a] :
       /\ done # orphans[a]
       /\ idx' = DeleteKeys(idx, done)
  /\ faults' = faults + 1
  /\ orphans' = [orphans EXCEPT ![a] = {}]
  /\ pc' = [pc EXCEPT ![a] = "idle"]
  /\ UNCHANGED <<txs, txMux, cur, nextSeq>>

-----------------------------------------------------------------------------
(* The process dies: LevelDB keeps every completed Put/Delete, all        *)
(* goroutines, the lock and in-memory state are gone.                     *)
StoreCrash ==
  /\ faults < MaxFaults
  /\ faults' = faults + 1
  /\ txMux' = Free
  /\ pc' = [a \in StoreActors |-> "idle"]
  /\ cur' = [a \in StoreActors |-> NoTx]
  /\ orphans' = [a \in StoreActors |-> {}]
  /\ UNCHANGED <<txs, idx, nextSeq>>

\* Nonces of a signer that a stored record or an index entry already uses.
NoncesInUse(s) ==
  {k[3] : k \in {k \in DOMAIN idx : k[1] = "nonce" /\ k[2] = s}}
    \cup {txs[i].nonce : i \in {i \in TxIDs : txs[i] # NoTx /\ txs[i].from = s}}

\* What a standalone writer is called with: the nonce allocator's contract
\* (nonces.go) is that a new transaction's nonce is not in use for its
\* signer.  NonceAllocator replaces this by the allocator itself.
NewTxs ==
  {tx \in [id: TxIDs, seq: {nextSeq}, from: Signers, nonce: Nonces, status: CreateStatuses] :
     tx.nonce \notin NoncesInUse(tx.from)}

StoreStep(a) ==
  \/ WriteCreatedIndex(a) \/ WritePendingIndex(a) \/ WriteNonceIndex(a)
  \/ DeletePendingIndex(a) \/ WritePrimary(a) \/ WriteFails(a)

StoreNext ==
  \/ \E a \in Writers : \E tx \in NewTxs : CreateBegin(a, tx)
  \/ \E a \in Writers \cup Updaters : StoreStep(a)
  \/ \E a \in Updaters : \E id \in TxIDs : UpdateRead(a, id)
  \/ \E a \in Updaters : \E s \in UpdateStatuses : UpdateBegin(a, s)
  \/ \E a \in Deleters : \E id \in TxIDs : DeletePrimary(a, id)
  \/ \E a \in Deleters : DeleteIndexes(a) \/ DeleteFails(a)
  \/ \E a \in Listers : \E r \in ScanRanges : ListScan(a, r)
  \/ \E a \in Listers : CleanupOrphans(a) \/ CleanupFails(a)
  \/ StoreCrash

StoreSpec == StoreInit /\ [][StoreNext]_storeVars

-----------------------------------------------------------------------------
(* Readers hold txMux shared, so they only ever observe states where no   *)
(* WriteTransaction is in the middle of its writes.                        *)
AtRest == txMux = Free

\* The keys a stored record must have, by §3 of the spec.
ExpectedKeys(tx) ==
  {txCreatedIndexKey(tx), txNonceAllocationKey(tx.from, tx.nonce)}
    \cup (IF tx.status = Pending THEN {txPendingIndexKey(tx.seq)} ELSE {})

\* An index key describes the record it resolves to.
Describes(k, tx) ==
  CASE k[1] = "tx_created"  -> k[2] = tx.seq
    [] k[1] = "tx_inflight" -> k[2] = tx.seq /\ tx.status = Pending
    [] k[1] = "nonce"       -> k[2] = tx.from /\ k[3] = tx.nonce

(* Every record a reader can see has all its index entries, each pointing *)
(* back at it: written first by WriteTransaction, never removed by an     *)
(* update or a list scan's orphan cleanup while the record exists.        *)
PrimaryIndexed ==
  AtRest => \A i \in TxIDs : txs[i] # NoTx =>
              \A k \in ExpectedKeys(txs[i]) : k \in DOMAIN idx /\ idx[k] = i

(* The only inconsistency a reader can see is an orphan: an index entry  *)
(* that resolves to a record either is absent or is the record the key    *)
(* describes (a crashed write never leaves an index that resolves to a    *)
(* different record).                                                     *)
NoStrayIndex ==
  AtRest => \A k \in DOMAIN idx : txs[idx[k]] = NoTx \/ Describes(k, txs[idx[k]])

\* An index entry whose primary record is absent.
Orphaned(k) == k \in DOMAIN idx /\ txs[idx[k]] = NoTx

(* Crash recovery, spec §4.2 / §8.2: an index entry left dangling by a    *)
(* crashed or failed WriteTransaction, or by a DeleteTransaction that     *)
(* failed or crashed between its deletes, is eventually deleted by the    *)
(* list scans' cleanupOrphanedTXIdxKeys (or resolves because its record   *)
(* is written), however the scans interleave with writers and deletes.   *)
OrphansEventuallyCleaned == \A k \in IndexKeys : Orphaned(k) ~> ~Orphaned(k)

-----------------------------------------------------------------------------
(* Refinement: the primary records behave as TxTable, the atomic table of *)
(* spec 4.2.  WriteTransaction's index writes, the lock and the orphans   *)
(* are hidden; a create's WritePrimary is TxTable's Create, an update's   *)
(* is Update, DeleteTransaction's first delete is Delete, and everything  *)
(* else leaves the table alone.                                           *)
Table == INSTANCE TxTable WITH table <- txs

(* WriteTransaction(new) writes a record only for an ID that is absent,  *)
(* under a fresh sequence ID, even though its existence check and its     *)
(* final write are several steps apart; an update of a stored record     *)
(* changes only its status; crashes and failed writes never change a     *)
(* stored record.                                                         *)
ImplementsTxTable == Table!TSpec
=============================================================================
