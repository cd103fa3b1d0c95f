------------------------------- MODULE TxTable -------------------------------
(***************************************************************************)
(* What the transaction store promises its callers (spec 4.2): a table of *)
(* records by ID in which a create, an update and a delete each take      *)
(* effect at once.  A create succeeds only for an absent ID and gets a    *)
(* sequence ID no stored record has; an update changes only the status of *)
(* a stored record (spec 4.2, update contract item 4); a delete removes   *)
(* a stored record.  Indexes, locks and orphans are invisible here.       *)
(***************************************************************************)
CONSTANTS TxIDs, TxRecords, Statuses, NoTx

VARIABLE table   \* ID -> stored record, or NoTx

Present == {i \in TxIDs : table[i] # NoTx}

TInit == table = [i \in TxIDs |-> NoTx]

Create(r) ==
  /\ table[r.id] = NoTx
  /\ \A i \in Present : table[i].seq # r.seq
  /\ table' = [table EXCEPT ![r.id] = r]

Update(i, s) ==
  /\ i \in Present
  /\ table' = [table EXCEPT ![i].status = s]

Delete(i) ==
  /\ i \in Present
  /\ table' = [table EXCEPT ![i] = NoTx]

TNext ==
  \/ \E r \in TxRecords : Create(r)
  \/ \E i \in TxIDs, s \in Statuses : Update(i, s)
  \/ \E i \in TxIDs : Delete(i)

TSpec == TInit /\ [][TNext]_table
====
