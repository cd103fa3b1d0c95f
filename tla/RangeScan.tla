------------------------------ MODULE RangeScan ------------------------------
(***************************************************************************)
(* One list call of leveldb_persistence.go, run over an arbitrary         *)
(* keyspace: the key builders as byte strings, the half-open range        *)
(* listJSON opens with its ascending-cursor step back, and one action per *)
(* outcome of an iterateJSON loop iteration.  Four families are listed:   *)
(*  - the three transaction indexes (ListTransactionsByNonce,             *)
(*    ListTransactionsByCreateTime, ListTransactionsPending), whose values *)
(*    are primary keys resolved by indexLookupCallback, so orphans are    *)
(*    collected;                                                          *)
(*  - listeners (ListListeners, ListStreamListeners), read directly, with *)
(*    ListStreamListeners' filter on StreamID.                            *)
(* The scan is sequential: the question is whether the byte order of the  *)
(* keys delivers what the listing promises (spec 4.1, 8.4).  Bytes are    *)
(* ASCII codes; a listener ID stands for its fixed-length UUID string and *)
(* a sequence ID for its fixed-length ULID string, as one digit each.     *)
(***************************************************************************)
EXTENDS NonceKeys, FiniteSets, SequencesExt

CONSTANTS
    Signers,      \* signer strings, as sequences of ASCII codes
    Nonces,       \* nonce values that index records
    Createds,     \* created times (UnixNano) of records
    CreatedWidth, \* the %.Nd width of created in txCreatedIndexKey (19 in the code)
    Seqs,         \* sequence IDs, each with a one-digit key
    ListenerIDs,  \* listener IDs, each with a one-digit key
    Streams,      \* event stream IDs a listener may belong to
    Limits,       \* the limit argument (0 = unlimited)
    NoCursor,     \* model value: after == nil
    NoFilter,     \* model value: ListListeners, no StreamID filter
    Orphan        \* model value: an index value whose primary record is missing

ASSUME /\ Nonces \subseteq Nat /\ Limits \subseteq Nat
       /\ ListenerIDs \subseteq 0..9 /\ Seqs \subseteq 0..9
       /\ Createds \subseteq Nat /\ CreatedWidth \in Nat

VARIABLES
    db,       \* the family listed: key -> value (record or Orphan)
    query,    \* the call: [kind, signer, after, limit, dir, stream]
    pc,       \* "open" | "iterate" | "done"
    view,     \* the keys inside the iterator's range, in byte order
    pos,      \* iterator position: 0 before the first key, Len(view)+1 after the last
    nextOp,   \* the iterator method iterateJSON calls next: "Next" | "Last" | "Prev"
    count,    \* records added
    result,   \* the records returned, in order
    orphans   \* orphanedIdxKeys, in order

vars == <<db, query, pc, view, pos, nextOp, count, result, orphans>>


listenersFamily == <<C("l"), C("i"), C("s"), C("t"), C("e"), C("n"), C("e"), C("r"), C("s"), C("_")>>
listenersPrefix == listenersFamily \o <<C("0"), C("/")>>
listenersEnd == listenersFamily \o <<C("1")>>
\* prefixedKey(listenersPrefix, id)
listenerKey(i) == listenersPrefix \o Digits(i)

txCreatedIndexPrefix == <<C("t"), C("x"), C("_"), C("c"), C("r"), C("e"), C("a"), C("t"),
                         C("e"), C("d"), C("_"), C("0"), C("/")>>
txCreatedIndexEnd == SubSeq(txCreatedIndexPrefix, 1, 11) \o <<C("1")>>
txPendingIndexPrefix == <<C("t"), C("x"), C("_"), C("i"), C("n"), C("f"), C("l"), C("i"),
                         C("g"), C("h"), C("t"), C("_"), C("0"), C("/")>>
txPendingIndexEnd == SubSeq(txPendingIndexPrefix, 1, 12) \o <<C("1")>>
\* "%.19d/%s" of a record's created time and sequence ID, the record
\* standing for its <<created, sequenceID>>.
createdStr(x) == Pad(x[1], CreatedWidth) \o <<C("/")>> \o Digits(x[2])
txCreatedIndexKey(x) == txCreatedIndexPrefix \o createdStr(x)
txPendingIndexKey(sequenceID) == txPendingIndexPrefix \o Digits(sequenceID)

\* An iterator over n keys: Next from before-first goes to the first key,
\* Prev from the first key goes back to before-first, Last goes to key n.
Move(op, p, n) == CASE op = "Next" -> IF p <= n THEN p + 1 ELSE p
                    [] op = "Prev" -> IF p > 0 THEN p - 1 ELSE 0
                    [] op = "Last" -> n
ValidAt(p, n) == p \in 1..n

\* The arguments each list call passes to listJSON.  ListTransactionsByNonce
\* formats its cursor with "%.24d", ListTransactionsByCreateTime with
\* "%.19d/%s" of the after record; ListTransactionsPending passes the
\* sequence ID and the listener calls after.String(); "" for a nil cursor.
Prefix(q) == CASE q.kind = "nonce"   -> signerNoncePrefix(q.signer)
               [] q.kind = "created" -> txCreatedIndexPrefix
               [] q.kind = "pending" -> txPendingIndexPrefix
               [] OTHER              -> listenersPrefix
End(q)    == CASE q.kind = "nonce"   -> signerNonceEnd(q.signer)
               [] q.kind = "created" -> txCreatedIndexEnd
               [] q.kind = "pending" -> txPendingIndexEnd
               [] OTHER              -> listenersEnd
afterStr(q) == CASE q.after = NoCursor -> <<>>
                 [] q.kind = "nonce"   -> Pad(q.after, NonceWidth)
                 [] q.kind = "created" -> createdStr(q.after)
                 [] OTHER              -> Digits(q.after)
Resolves(q) == q.kind # "listeners"      \* indexLookupCallback, or nil
Accepts(q, v) == IF q.stream = NoFilter THEN TRUE ELSE v.stream = q.stream   \* StreamID.Equals

NonceQueries ==
    [kind : {"nonce"}, signer : Signers, after : Nonces \cup {NoCursor},
     limit : Limits, dir : {"asc", "desc"}, stream : {NoFilter}]
CreatedQueries ==
    [kind : {"created"}, signer : {<<>>}, after : (Createds \X Seqs) \cup {NoCursor},
     limit : Limits, dir : {"asc", "desc"}, stream : {NoFilter}]
PendingQueries ==
    [kind : {"pending"}, signer : {<<>>}, after : Seqs \cup {NoCursor},
     limit : Limits, dir : {"asc", "desc"}, stream : {NoFilter}]
ListenerQueries ==
    [kind : {"listeners"}, signer : {<<>>}, after : ListenerIDs \cup {NoCursor},
     limit : Limits, dir : {"asc", "desc"}, stream : Streams \cup {NoFilter}]

\* An index family as the store may hold it: per record (a signer and
\* nonce, a created time and sequence ID, or a sequence ID) no key, a key
\* resolving to that transaction, or a key whose primary is gone.
Entries == [Signers \X Nonces -> {"none", "live", Orphan}]
\* A sequence ID belongs to one record, so it has at most one created key.
CreatedEntries ==
    {e \in [Createds \X Seqs -> {"none", "live", Orphan}] :
        \A x, y \in DOMAIN e : e[x] # "none" /\ e[y] # "none" /\ x[2] = y[2] => x = y}
PendingEntries == [Seqs -> {"none", "live", Orphan}]
KeyOf(x) == txNonceAllocationKey(x[1], x[2])
\* The keyspace of entries e, each record stored under key[record].
KeyspaceOf(e, key) ==
    LET present == {x \in DOMAIN e : e[x] # "none"}
    IN [k \in {key[x] : x \in present} |->
          LET x == CHOOSE x \in present : key[x] = k
          IN IF e[x] = Orphan THEN Orphan ELSE x]

\* The listeners family: per ID, no record or a listener of some stream.
ListenerKeyspaceOf(e) ==
    [k \in {listenerKey(i) : i \in {i \in DOMAIN e : e[i] # "none"}} |->
        LET i == CHOOSE i \in DOMAIN e : listenerKey(i) = k
        IN [id |-> i, stream |-> e[i]]]

\* The key builders never map two records to one key.
ASSUME /\ \A x, y \in Signers \X Nonces : KeyOf(x) = KeyOf(y) => x = y
       /\ \A x, y \in Createds \X Seqs : txCreatedIndexKey(x) = txCreatedIndexKey(y) => x = y

Init ==
    /\ \/ /\ db \in {KeyspaceOf(e, [x \in DOMAIN e |-> KeyOf(x)]) : e \in Entries}
          /\ query \in NonceQueries
       \/ /\ db \in {KeyspaceOf(e, [x \in DOMAIN e |-> txCreatedIndexKey(x)]) : e \in CreatedEntries}
          /\ query \in CreatedQueries
       \/ /\ db \in {KeyspaceOf(e, [x \in DOMAIN e |-> txPendingIndexKey(x)]) : e \in PendingEntries}
          /\ query \in PendingQueries
       \/ /\ db \in {ListenerKeyspaceOf(e) : e \in [ListenerIDs -> {"none"} \cup Streams]}
          /\ query \in ListenerQueries
    /\ pc = "open"
    /\ view = <<>>
    /\ pos = 0
    /\ nextOp = "Next"
    /\ count = 0
    /\ result = <<>>
    /\ orphans = <<>>

-----------------------------------------------------------------------------
\* The range listJSON opens: ascending with a cursor starts at prefix+after,
\* descending with a cursor makes prefix+after the exclusive Limit.
AfterKey(q) == Prefix(q) \o afterStr(q)
StartKey(q) == IF q.dir = "asc" /\ afterStr(q) # <<>> THEN AfterKey(q) ELSE Prefix(q)
LimitKey(q) == IF q.dir = "desc" /\ afterStr(q) # <<>> THEN AfterKey(q) ELSE End(q)
RangeKeys(q) == LET start == StartKey(q)
                    limit == LimitKey(q)
                IN SetToSortSeq({k \in DOMAIN db : InKeyRange(k, start, limit)}, LexLess)

\* Fault variant: the ascending cursor never steps back, so the first key
\* after a cursor that is no longer stored is skipped.
OpenNoStepBack ==
    /\ pc = "open"
    /\ view' = RangeKeys(query)
    /\ pos' = IF query.dir = "asc" /\ afterStr(query) # <<>>
              THEN Move("Next", 0, Len(RangeKeys(query))) ELSE 0
    /\ nextOp' = IF query.dir = "desc" THEN "Last" ELSE "Next"
    /\ pc' = "iterate"
    /\ UNCHANGED <<db, query, count, result, orphans>>

(* listJSON: open the iterator on the range.  Ascending with a cursor, it  *)
(* calls Next and, when that key does not begin with prefix+after, steps  *)
(* back with Prev so that iterateJSON's first Next delivers that key.     *)
Open ==
    LET keys  == RangeKeys(query)
        first == Move("Next", 0, Len(keys))
    IN /\ pc = "open"
       /\ view' = keys
       /\ pos' = IF query.dir = "asc" /\ afterStr(query) # <<>>
                 THEN IF ValidAt(first, Len(keys)) /\ ~IsPrefix(AfterKey(query), keys[first])
                      THEN Move("Prev", first, Len(keys))
                      ELSE first
                 ELSE 0
       /\ nextOp' = IF query.dir = "desc" THEN "Last" ELSE "Next"
       /\ pc' = "iterate"
       /\ UNCHANGED <<db, query, count, result, orphans>>

\* One iteration of iterateJSON's loop: move the iterator; after the first
\* move a descending scan walks with Prev.
Advanced == Move(nextOp, pos, Len(view))
Stepped == /\ pos' = Advanced
           /\ nextOp' = IF query.dir = "desc" THEN "Prev" ELSE "Next"
Value == db[view[Advanced]]

\* next() returned false: the range is exhausted.
ScanEnd ==
    /\ pc = "iterate"
    /\ ~ValidAt(Advanced, Len(view))
    /\ pc' = "done"
    /\ UNCHANGED <<db, query, view, pos, nextOp, count, result, orphans>>

\* The index resolver found no primary: record the key and skip it.
SkipOrphan ==
    /\ pc = "iterate"
    /\ ValidAt(Advanced, Len(view))
    /\ Resolves(query) /\ Value = Orphan
    /\ Stepped
    /\ orphans' = Append(orphans, view[Advanced])
    /\ UNCHANGED <<db, query, pc, view, count, result>>

\* A filter rejects the record: skip it without counting it.
SkipFiltered ==
    /\ pc = "iterate"
    /\ ValidAt(Advanced, Len(view))
    /\ Value # Orphan /\ ~Accepts(query, Value)
    /\ Stepped
    /\ UNCHANGED <<db, query, pc, view, count, result, orphans>>

\* Fault variant: the record is added but count is not incremented.
AddRecordNoCount ==
    /\ pc = "iterate"
    /\ ValidAt(Advanced, Len(view))
    /\ Value # Orphan /\ Accepts(query, Value)
    /\ Stepped
    /\ result' = Append(result, Value)
    /\ pc' = IF query.limit > 0 /\ count >= query.limit THEN "done" ELSE "iterate"
    /\ UNCHANGED <<db, query, view, orphans, count>>

\* add(v), count++, and stop once count reaches a positive limit.
AddRecord ==
    /\ pc = "iterate"
    /\ ValidAt(Advanced, Len(view))
    /\ Value # Orphan /\ Accepts(query, Value)
    /\ Stepped
    /\ result' = Append(result, Value)
    /\ count' = count + 1
    /\ pc' = IF query.limit > 0 /\ count + 1 >= query.limit THEN "done" ELSE "iterate"
    /\ UNCHANGED <<db, query, view, orphans>>

Next == Open \/ ScanEnd \/ SkipOrphan \/ SkipFiltered \/ AddRecord

Spec == Init /\ [][Next]_vars

-----------------------------------------------------------------------------
(***************************************************************************)
(* Reference: what the listing promises (spec 4.1, 8.4), in terms of the   *)
(* numeric nonce, (created, sequence ID) pair, sequence ID or listener ID *)
(* rather than bytes.  The window is, in that order, the keys of the      *)
(* family (of the signer, or the matching listeners)                     *)
(* strictly after (ascending) or before (descending) the cursor; it is    *)
(* cut at the limit-th live record, and the orphans met before the cut    *)
(* are reported.                                                          *)
(***************************************************************************)
KeyAt(q, n) == CASE q.kind = "nonce"   -> KeyOf(<<q.signer, n>>)
                 [] q.kind = "created" -> txCreatedIndexKey(n)
                 [] q.kind = "pending" -> txPendingIndexKey(n)
                 [] OTHER              -> listenerKey(n)
Fields(q) == CASE q.kind = "nonce"   -> Nonces
               [] q.kind = "created" -> Createds \X Seqs
               [] q.kind = "pending" -> Seqs
               [] OTHER              -> ListenerIDs
\* Created keys list by created time, then by sequence ID.
Before(q, m, n) == IF q.kind = "created" THEN m[1] < n[1] \/ (m[1] = n[1] /\ m[2] < n[2])
                   ELSE m < n

\* The keys of the family after the cursor, in listing order.
Window(q) ==
    LET mine == {n \in Fields(q) :
                    LET k == KeyAt(q, n)
                    IN k \in DOMAIN db /\ (db[k] = Orphan \/ Accepts(q, db[k]))}
        inWin(n) == q.after = NoCursor \/ (q.dir = "asc" /\ Before(q, q.after, n))
                                       \/ (q.dir = "desc" /\ Before(q, n, q.after))
        order(m, n) == IF q.dir = "asc" THEN Before(q, m, n) ELSE Before(q, n, m)
        ws == SetToSortSeq({n \in mine : inWin(n)}, order)
    IN [i \in 1..Len(ws) |-> KeyAt(q, ws[i])]

\* The length of the prefix of window w that ends at its limit-th live record.
Cut(w, limit) ==
    LET live(i) == db[w[i]] # Orphan
        hits == {i \in 1..Len(w) : live(i) /\ Cardinality({j \in 1..i : live(j)}) = limit}
    IN IF limit > 0 /\ hits # {} THEN CHOOSE i \in hits : TRUE ELSE Len(w)

\* The keys up to the cut with the given liveness, in window order.
Picked(w, limit, live) ==
    SelectSeq(SubSeq(w, 1, Cut(w, limit)), LAMBDA k : (db[k] # Orphan) = live)

ExpectedResult(q) == LET p == Picked(Window(q), q.limit, TRUE) IN [j \in 1..Len(p) |-> db[p[j]]]
ExpectedOrphans(q) == Picked(Window(q), q.limit, FALSE)

TypeOK ==
    /\ pc \in {"open", "iterate", "done"}
    /\ pos \in 0..Len(view) + 1
    /\ nextOp \in {"Next", "Last", "Prev"}
    /\ count = Len(result)
    /\ \A k \in DOMAIN db : CASE query.kind = "nonce"   -> db[k] \in (Signers \X Nonces) \cup {Orphan}
                             [] query.kind = "created" -> db[k] \in (Createds \X Seqs) \cup {Orphan}
                             [] query.kind = "pending" -> db[k] \in Seqs \cup {Orphan}
                             [] OTHER -> db[k] \in [id : ListenerIDs, stream : Streams]

\* A finished list call (listJSON + iterateJSON) returned exactly the
\* records the listing promises after the cursor, in numeric order, up to
\* the limit counted over records that pass the filter, and reported
\* exactly the orphans it passed on the way: the keys the store's cleanup
\* will delete.
ScanMatchesReference ==
    pc = "done" => /\ result = ExpectedResult(query)
                   /\ orphans = ExpectedOrphans(query)
====
