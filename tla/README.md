# TLA+ models of the firefly-transaction-manager persistence core

These modules model the LevelDB persistence layer of the transaction manager:
- the managed-transaction store (`src/internal/persistence/leveldb_persistence.go`);
- the per-signer nonce allocator built on it (`src/internal/persistence/leveldb/nonces.go`);
- the range scan engine every list call uses (`listJSON`, `iterateJSON`), with the byte encoding of its keys;
- the listener listings (`ListListeners`, `ListStreamListeners`).

All of this is checked with TLC. `PROJECT.json` lists the components, the runs, the mutants, the finding of each violation run, the hazards, and the source lines each definition models.

## 1. Inventory

| Component | State it keeps | Operations that change state |
|---|---|---|
| Transaction store | `tx_0/<id>` primary records; three index families whose value is the primary key: `tx_created_0/<nanos>/<seq>`, `tx_inflight_0/<seq>` (Pending only), `nonce_0/<signer>_0/<nonce>`; `txMux` (RWMutex) | `WriteTransaction(tx,new)`, `DeleteTransaction`, and the orphan cleanup inside every `ListTransactionsBy*`/`Pending` scan |
| Range scan engine | LevelDB iterators (transient) | none of its own; it collects orphaned index keys for the cleanup |
| Key encoding | none | none (pure functions: nonce, created, pending and listener keys) |
| Nonce allocator | `lockedNonces` map signer → `lockedNonce{nonce, unlocked chan, spent}`, guarded by `nonceMux` | `assignAndLockNonce` (install, or wait then retry), `calcNextNonce` (nonce-index scan, node callback), `lockedNonce.complete` |
| Checkpoint / stream / listener CRUD | one key per record | Write/Delete: a single Put or Delete each, with no lock; listings through the range scan |
| Store lifecycle | DB handle | `NewLevelDBPersistence`, `Close` |
| PostgreSQL persistence, HTTP routes, ffcapi types, mocks | none relevant | none (out of scope, glue or generated code) |

**How they interact:**
- The allocator reads the store. `calcNextNonce` calls `ListTransactionsByNonce(signer, nil, 1, descending)`, whose orphan cleanup writes to the store.
- The caller then writes the transaction with `WriteTransaction(tx, true)` and calls `complete`.
- API list calls and `DeleteTransaction` run concurrently with all of this, on the same keys.

**What makes it hard:**
- No write spans keys atomically: every Put or Delete is atomic on its own.
- `WriteTransaction` relies on its write order (indexes first, primary last) plus `txMux`, so that a reader can tell a crash leftover ("orphan") from a write in progress.
- A list scan drops its read lock before it takes the write lock for the cleanup.
- `DeleteTransaction` takes no lock.
- The allocator trusts whatever record the highest nonce key resolves to.
- Crashes, failed writes and swallowed cleanup failures can each strike between any two steps.

**What makes each component correct** (spec §3, §5, §8):
- **Store:**
  - every stored record has all of its index entries pointing back at it;
  - the only inconsistency is an orphan, and every orphan is eventually removed.
- **Allocator:**
  - per-signer exclusion;
  - no two stored transactions of a signer share a nonce;
  - a new transaction's nonce is above its signer's stored ones;
  - every lock is released, and every waiter is woken.

## 2. Modules and how they map to the code

**`TxStore`** models the transaction store. Variables:
- `txs` is the `tx_0/` family.
- `idx` is a function from present index keys to IDs. Keys are tuples `<<family, fields>>`. A nonce key `<<"nonce", signer, nonce>>` is placed in the byte order of its real key `nonce_0/<signer>_0/<nonce:N>` (below).
- `txMux` names the exclusive holder or is `Free`. Shared holds are not tracked: every read and scan is guarded by `txMux = Free`.
- `pc` and `cur` give each goroutine's position and working record.
- `orphans` holds the keys a scan has collected.
- `nextSeq` stands in for `NewULID` / created time.
- `faults` counts crashes plus failed writes.

Actions:
- `WriteTransaction` is `CreateBegin` (Lock, mint, Conflict check), then one action per write (`WriteCreatedIndex`, `WritePendingIndex`, `WriteNonceIndex`, `DeletePendingIndex`, `WritePrimary` with the deferred Unlock). `WriteFails` lets any of those writes fail with no rollback.
- An update is `UpdateRead` (`GetTransactionByID`) then `UpdateBegin`.
- `DeleteTransaction` is `DeletePrimary` then `DeleteIndexes`; `DeleteFails` is deleteKeys returning at a failing Delete, which leaves the later index keys (`DeletionKeys` order: created, pending, nonce) as orphans.
- A scan is `ListScan` (under the read lock: collect the keys whose primary is absent), then `CleanupOrphans` or `CleanupFails` (the swallowed `deleteKeys` error).
- `StoreCrash` loses all goroutines and the lock, and keeps every completed write.
- Standalone writers draw their input from `NewTxs`: a record whose nonce is not in use, which is the allocator's contract.

**Nonce keys in the store.** A signer is its text as ASCII codes. Which signer's scan range a nonce key falls in, and how nonce keys sort, are those of their byte strings built by `NonceKeys`. Two constant operators carry them:
- `InSignerRange(x, s)`: the key of pair x lies in `[signerNoncePrefix(s), signerNonceEnd(s))`;
- `KeyRank(x)`: a number that orders the pairs as their keys sort.

The MC modules give both in closed form, and an ASSUME in `TxStore` checks them once against the byte strings for every signer and nonce of the run. TLC evaluates fairness conditions without caching definitions, so building the byte strings inside `NonceScan` would be redone on every fairness test; this split keeps `nonce_crash` under two minutes. It is how the signer-collision run sees signer "A_0"'s keys inside "A"'s range.

**`TxTable`** is the abstract store of spec 4.2: a table from ID to record in which a create (of an absent ID, with an unused sequence ID), a status update and a delete each take effect at once. `TxStore` instantiates it as `Table == INSTANCE TxTable WITH table <- txs`, hiding indexes, lock and orphans. `ImplementsTxTable == Table!TSpec` is a PROPERTY of `store_lifecycle` and `store_deletes`. It shows that the primary records change only by whole operations, even though a create's existence check and its final write are several steps apart and the unlocked delete can run between them. (In `store_crash` it would only restate that crashes and failed writes leave `txs` alone, so it is not checked there.) It is a refinement of the primary family only; what goes wrong in the indexes is caught by `PrimaryIndexed` and `NoStrayIndex`.

**`NonceAllocator`** (EXTENDS `TxStore`) composes the allocator with the store. The store's Writers are the submitters.
- `AssignLock` is one pass of the `assignAndLockNonce` loop under `nonceMux`: install and go on to calculate, or go to wait.
- `Released` is `complete`: it deletes the entry and wakes every waiter of the signer.
- `NonceScan` is the descending limit-1 scan. It skips orphans above the first live key, hands them to the store's cleanup, and records `lastTxn`.
- `NonceFromHistory`, `NonceFromNode` and `NonceCallbackFails` are the three outcomes of `calcNextNonce`.
- The caller is modelled as `SubmitWrite` (`WriteTransaction` with the nonce), then `SubmitComplete`; or `SubmitAbort`.
- `TimePasses` advances `staleBelow`: records with sequence ID ≤ `staleBelow` are older than `nonceStateTimeout`.
- `Crash` also empties the registry.
- `ApiNext` adds API deletes and list scans, for the composition runs.

**`NonceLease`** is the allocator's promise to its callers (spec §5 and §8.3), with no scans, channels or node:
- a signer is leased to at most one submitter, and a submitter holds at most one lease (`Acquire`);
- the holder is granted one nonce above every nonce of the signer's stored transactions (`Grant`);
- only the holder stores transactions of the signer, and only with its grant (`Store`);
- `Release` and `Reset` (a crash) end leases, and `Forget` (deletes) drops stored nonces.

`NonceAllocator` instantiates it as `Lease`: `owner` is the registry `lockedNonces`; a submitter between `calcNextNonce` and `complete` has the lease of its handle's nonce; `used` is the set of nonces of each signer's stored transactions. `ImplementsNonceLease == Lease!LSpec` is a PROPERTY of `nonce_crash`. It ties the registry, the handle and the store together: for example, calling `complete` before the write has returned (mutant `SubmitCompleteEarly`) lets a transaction be stored by a submitter that no longer holds the signer.

**`NonceCancel`** (EXTENDS `NonceAllocator`) adds request contexts. `Cancel(a)` cancels a submitter that is waiting on another's `lockedNonce`. The code waits with a bare `<-locked.unlocked` and never reads `ctx`, so every other step is the allocator's own `Next`.

**`KeyOrder`** gives the byte-level key primitives: `Digits` and `Pad` are `%d` and `%.Nd` on ASCII codes (a wider number is never truncated), and `LexLess` is goleveldb's bytewise comparator, in which a proper prefix sorts first.

**`NonceKeys`** (EXTENDS `KeyOrder`) builds the nonce keys as the code does: `nonceAllocationPrefix`, `signerNoncePrefix`, `signerNonceEnd`, `txNonceAllocationKey` with `%.Nd` of width `NonceWidth`, and `InKeyRange` for `util.Range` (Start inclusive, Limit exclusive). `RangeScan` extends it; `TxStore` instantiates it as `NK`.

**`RangeScan`** models one list call as a state machine over an arbitrary keyspace of byte-string keys, for four key families:
- the nonce index (`ListTransactionsByNonce`, cursor `%.24d` of the nonce);
- the created index (`ListTransactionsByCreateTime`, key `tx_created_0/<%.19d nanos>/<seq>`, cursor the same two fields);
- the pending index (`ListTransactionsPending`, key `tx_inflight_0/<seq>`, cursor the sequence ID);
- the three index families' values resolve through `indexLookupCallback`, so orphans are collected;
- listeners (`ListListeners`, and `ListStreamListeners` with its `StreamID` filter).

Its state and actions:
- `db` is the family, and `query` the call's arguments.
- `Open` is `listJSON`: the half-open `util.Range`. An ascending cursor starts the range at prefix+after, and when the first key does not begin with prefix+after the code steps back with `Prev`. A descending cursor becomes the exclusive Limit.
- One loop iteration of `iterateJSON` is `ScanEnd`, `SkipOrphan`, `SkipFiltered` or `AddRecord`. `AddRecord` counts the record and stops at a positive limit.
- The iterator is a position 0..n+1 moved by `Next`/`Prev`/`Last`.
- `ExpectedResult` and `ExpectedOrphans` are the reference: the records strictly after the cursor in index order (nonce, created time then sequence ID, sequence ID, or listener ID), cut at the limit-th record that passes the filter, and the orphans met before the cut.

A sequence ID is one digit here; it stands for a ULID, whose string form has a fixed length, and created times use width `CreatedWidth` = 2 for the code's 19. A listener ID stands for its UUID, whose string form has a fixed length, so its one-digit key orders the way the UUID string does.

**`MCTxStore`**, **`MCNonceAllocator`**, **`MCNonceCancel`** and **`MCRangeScan`** give the small sets and the fairness. Each definition whose comment says "Fault variant" is a plausible coding error of the operation that follows it. Each property of a passing run is shown to detect one of them (`mutants` in PROJECT.json).

## 3. Runs

| Run | Bounds | Checks | Result |
|---|---|---|---|
| `store_crash` | 2 writers, 1 lister, 2 IDs, 4 creates, 2 faults | `StoreTypeOK`, `PrimaryIndexed`, `OrphansEventuallyCleaned` | holds (174k states) |
| `store_lifecycle` | signers "A" and "Aa", 2 writers, 1 updater (to Succeeded), 1 lister, 3 creates, no faults | `PrimaryIndexed`, `NoStrayIndex`, `ImplementsTxTable` | holds |
| `store_deletes` | 1 signer, 1 writer, 1 deleter, 1 lister, IDs re-created, 3 creates, 1 fault | `OrphansEventuallyCleaned`, `ImplementsTxTable` | holds (227k states) |
| `nonce_crash` | 2 submitters, 1 signer, 3 IDs, 3 creates, node answers {0,1}, 1 fault | `TypeOK`, `NonceLockExclusive`, `NoDuplicateNonce`, `NoncesIncrease`, `NonceEventuallyReleased`, `WaiterEventuallyWoken`, `ImplementsNonceLease` | holds (520k states) |
| `range_scan` | signers "A" and "Aa", nonces 0..2 at width 1; sequence IDs 1..3 at created times {5,10}; listeners 1..3 of 2 streams; limits 0..2; every cursor, direction and filter | `TypeOK`, `ScanMatchesReference` | holds (162k states) |
| `store_resume_pending` | update back to Pending | `PrimaryIndexed` | **violated** |
| `store_update_crash` | update failing between its two writes | `PrimaryIndexed` | **violated** |
| `store_unlocked_delete` | delete racing re-create | `NoStrayIndex` | **violated** |
| `nonce_stray_retry` | 1 submitter, 4 creates, 2 faults | `NoDuplicateNonce` | **violated**: crash, failed cleanup and same-ID retry |
| `nonce_list_race` | 1 submitter, 1 API lister, 1 fault | `NoDuplicateNonce` | **violated**: the lister's late cleanup deletes the fresh nonce key |
| `nonce_signer_collision` | signers "A" and "A_0", 1 submitter, 3 creates, no faults | `NoDuplicateNonce` | **violated**: A's nonce scan returns A_0's last transaction, so A gets a nonce it already used |
| `nonce_cancel_wait` | 2 submitters, 1 signer, cancellation | `CancelledWaiterAbandons` | **violated**: the cancelled waiter wakes and installs its own lock |

The violations are real behaviours of the code. They are recorded under `findings`.

**Folded results.** The project keeps one run per distinct question. Four further traces share a root cause with a run above, so they are recorded in that run's finding rather than as runs of their own:
- A second lister's stale cleanup deleting a live key has the same cause as `nonce_list_race` (the cleanup drops the read lock, `leveldb_persistence.go:351`).
- A same-ID retry after a crash leaving a stray index has the same cause as `nonce_stray_retry`.
- An update racing a delete is the spec gap of hazard `leveldb_persistence.go:410`.
- `ListTransactionsByNonce("A")` returning A_0's transactions (`RangeScan`'s `ScanMatchesReference` with signers "A" and "A_0") has the same cause as `nonce_signer_collision` (`leveldb_persistence.go:79`).

**The key-width edge.** `%.24d` keeps nonces in numeric order only below 10^24. Nonces come from a uint64 counter and cannot reach that. The hazard entry notes it, together with spec 4.1's missing rejection of wider values.

**Passing runs and the violations.** The passing runs hold only where the failing combination is absent:
- `store_crash` has one lister and no deleter. It cannot meet the stale-cleanup race at line 351 (a cleanup deleting a key re-written after the scan): besides having one lister, its writers draw from `NewTxs`, which refuses a nonce whose index key still exists, orphan included, so no orphaned key is re-written. The allocator does reuse such a nonce; `nonce_list_race` composes the two and finds the race.
- `store_deletes` has one writer and one signer: with two writers, or a fourth create, the lister and the fault take it past the time budget. Its orphans come from a delete or write stopped by the fault or a crash, and only the lister's scans remove them.
- `nonce_crash` has no API lister and one fault. Two faults give the stray-retry trace once a fourth create is allowed.
- `range_scan`, `store_lifecycle` and `nonce_crash` use signers of which none is another's text plus "_0"; `store_crash`, `store_deletes` and `nonce_crash` have one signer.

**Why the bounds are enough:**
- Every store run has enough creates to reuse a nonce key, or an ID after a delete or crash.
- The crash runs allow a fault at every write step.
- The allocator run lets history go stale and the node lag, with answers and nonces sized so every reachable nonce is in `Nonces`.
- `range_scan` enumerates every keyspace of its family: each key absent, live or orphaned, and each listener absent or in either stream. It also enumerates every query. A cursor may therefore be stored or missing, limits cut before and after orphans and filtered records, and the keys of signer "Aa" sort just past "A"'s range end ("a" > "_"). Two created times for three sequence IDs give ties on time broken by sequence ID, and orders where time and sequence ID disagree.

**Deadlock:** every cfg sets CHECK_DEADLOCK FALSE. The inputs are bounded, so at the end every goroutine is idle (or a scan is done) and the server simply waits for requests. Blocking is checked instead by the liveness properties: a waiter is woken, a lock is released, and an orphan is cleaned.

## 4. Fairness

Weak fairness applies to a goroutine that is already inside an operation:
- the write steps of `WriteTransaction`, the index deletes of `DeleteTransaction`, the scan and its cleanup, a woken waiter's retry, `calcNextNonce` (the node eventually answers or fails), and the caller's write-or-abort and `complete`.

Justification:
- Those goroutines block only on `txMux` or on KV I/O, which the code always returns from.
- In the store runs, listers scan whenever orphans exist. The orphan protocol (spec §4.2) relies on later scans, and the allocator's own scans make that the code's behaviour for nonce keys.
- Starting a new request (create, update, delete, allocation, cancellation) is up to callers and gets no fairness.
- `RangeScan` and `NonceCancel` check safety only.

## 5. Not modelled

- **Postgres backend:** out of the spec's scope.
- **HTTP routes:** delegation only.
- **ffcapi types:** declarations. `Events.Less` and `ProtocolID` agree as long as each field fits its width. That is a constant-level fact with no caller in this repository, so it gets no run.
- **Mocks:** generated code.
- **Close and configuration errors:** no interleaving to check.
- **Checkpoint, stream and listener Get/Write/Delete:** each is one Put, Get or Delete on one key, with no lock, no index and no multi-key invariant. Their listings are modelled in `RangeScan`; `ListStreams` is the listener listing with another prefix and no filter.
- **fsync or machine crash:** the model assumes a completed Put survives a process crash.
- **Updates that change `from`/`nonce`/`created`:** an update changes only the status. The hazard at `leveldb_persistence.go:443` (a stale created or nonce index after such an update) is acknowledged in spec §9 and has no run.
- **Created and pending keys in `TxStore`:** they stay tuples there, ordered by sequence ID, because the store runs create in sequence; their byte encoding and scan order are checked in `RangeScan`.
- **Starvation of a waiter:** the allocator wakes every waiter on `complete` and lets them race for the lock. A waiter may lose every race, and weak fairness cannot rule that out; see the hazard note at `nonces.go:52`.
