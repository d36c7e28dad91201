--------------------------- MODULE EvidenceStore ---------------------------
(***************************************************************************)
(* The store of redacted events (bulwark-store): an audit log whose rows   *)
(* are linked by hashes, the evidence metadata of its rows, and the purge  *)
(* that ages both out.  One state space for its three backends.  SQLite    *)
(* holds its mutex and a transaction throughout a call.  The portable one  *)
(* holds its mutex, keeps everything in memory and rewrites a file after   *)
(* every change.  The Postgres one has a pool of connections: a record     *)
(* reads the head of the log with a row lock and inserts later, at the     *)
(* default isolation level, so the lock is all that orders two of them.    *)
(* A hash is what it covers: the rows linked so far, as a sequence.        *)
(* Bounds: MaxRecords events, a clock to MaxStoreTime.                     *)
(***************************************************************************)
EXTENDS Integers, Sequences, FiniteSets

CONSTANTS
    PoolConns,          \* connections of the Postgres pool
    EvidenceTtl,        \* evidence_ttl_days: 0 keeps evidence for ever
    AuditTtl,           \* audit_ttl_days: 0 keeps rows for ever
    AuditMaxRows,       \* audit_max_rows: 0 for no limit
    MaxRecords, MaxStoreTime

ASSUME EvidenceStoreAssumption ==
    /\ EvidenceTtl \in Nat /\ AuditTtl \in Nat /\ AuditMaxRows \in Nat
    /\ MaxRecords \in Nat /\ MaxStoreTime \in Nat

VARIABLES
    backend,    \* "sqlite", "portable" or "postgres"
    log,        \* the rows of audit_log; their ids give the order
    proofs,     \* evidence_meta: the row each belongs to, and (auxiliary) its event
    file,       \* what the portable backend has on disk
    txn,       \* the transactions of the Postgres pool
    storeTime,
    recorded,   \* events handed in so far (their numbers stand for their content)
    pruned      \* auxiliary: a purge has removed rows

storeVars == <<backend, log, proofs, file, txn, storeTime, recorded, pruned>>

Genesis == <<>>
\* Everything but the id is hashed.
Canonical(row) == [ts |-> row.ts, event |-> row.event]
ChainLink(prev, row) == Append(prev, Canonical(row))

NoTxn == [stage |-> "idle", seen |-> {}, head |-> 0, hash |-> Genesis,
          holds |-> FALSE, ts |-> 0, evidence |-> FALSE]

StoreInit ==
    /\ backend \in {"sqlite", "portable", "postgres"}
    /\ log = {} /\ proofs = {}
    /\ file = [torn |-> FALSE, log |-> {}, proofs |-> {}]
    /\ txn = [c \in PoolConns |-> NoTxn]
    /\ storeTime = 0 /\ recorded = 0 /\ pruned = FALSE

Ids == {row.id : row \in log}

\* ORDER BY id DESC LIMIT 1, or the last of the vector.
Newest(rows) == CHOOSE row \in rows : \A other \in rows : other.id <= row.id

NextRow(id, prev, ts) ==
    [id |-> id, ts |-> ts, event |-> recorded + 1,
     hash |-> ChainLink(prev, [ts |-> ts, event |-> recorded + 1])]

\* The row is stored, and its evidence if the verdict carries any.
Stores(row, evidence) ==
    /\ log' = log \union {row}
    /\ proofs' = proofs \union (IF evidence THEN {[row |-> row.id, event |-> row.event]} ELSE {})
    /\ recorded' = recorded + 1

Following(ts) == IF log = {} THEN NextRow(0, Genesis, ts)
                 ELSE NextRow(Newest(log).id + 1, Newest(log).hash, ts)

----------------------------------------------------------------------------
(* SQLite: one transaction under the mutex. *)

RecordSqlite(ts, evidence) ==
    /\ backend = "sqlite" /\ recorded < MaxRecords
    /\ Stores(Following(ts), evidence)
    /\ UNCHANGED <<backend, file, txn, storeTime, pruned>>

----------------------------------------------------------------------------
(* Portable: memory, then the file. *)

\* fs::write truncates and writes: it succeeds, fails before it, or is cut short.
Persists(outcome) ==
    file' = CASE outcome = "ok"     -> [torn |-> FALSE, log |-> log', proofs |-> proofs']
              [] outcome = "failed" -> file
              [] outcome = "torn"   -> [torn |-> TRUE, log |-> {}, proofs |-> {}]

\* What could not be saved stays in memory, and the caller is told it failed.
RecordPortable(ts, evidence, outcome) ==
    /\ backend = "portable" /\ recorded < MaxRecords
    /\ Stores(Following(ts), evidence)
    /\ Persists(outcome)
    /\ UNCHANGED <<backend, txn, storeTime, pruned>>

\* A restart loads the file; one that does not parse is an error, and there is no store.
OpenPortable ==
    /\ backend = "portable" /\ ~file.torn
    /\ log' = file.log /\ proofs' = file.proofs
    /\ UNCHANGED <<backend, file, txn, storeTime, recorded, pruned>>

----------------------------------------------------------------------------
(* Postgres: three statements of a transaction. *)

\* SELECT ... ORDER BY id DESC LIMIT 1 FOR UPDATE: what the statement sees.
PgReads(c, ts, evidence) ==
    /\ backend = "postgres" /\ txn[c].stage = "idle"
    /\ recorded + Cardinality({d \in PoolConns : txn[d].stage # "idle"}) < MaxRecords
    /\ txn' = [txn EXCEPT ![c] =
                  [NoTxn EXCEPT !.stage = "read", !.ts = ts, !.evidence = evidence,
                                !.seen = {row.event : row \in log}]]
    /\ UNCHANGED <<backend, log, proofs, file, storeTime, recorded, pruned>>

Locked(id) == \E c \in PoolConns : txn[c].holds /\ txn[c].head = id

\* It waits for the lock on the head it saw; a row that is gone by then is passed over.
PgLocks(c) ==
    LET left == {row \in log : row.event \in txn[c].seen}
        head == Newest(left)
    IN /\ txn[c].stage = "read"
       /\ left # {} => ~Locked(head.id)
       /\ txn' = [txn EXCEPT ![c] =
                     [@ EXCEPT !.stage = "insert", !.holds = left # {},
                               !.head = IF left = {} THEN -1 ELSE head.id,
                               !.hash = IF left = {} THEN Genesis ELSE head.hash]]
       /\ UNCHANGED <<backend, log, proofs, file, storeTime, recorded, pruned>>

\* Mutant: ids need not be unique.
IdTakenNever(id) == FALSE

\* PRIMARY KEY: the insert of an id that is there fails, and the transaction with it.
IdTaken(id) == id \in Ids

PgInserts(c) ==
    LET row == NextRow(txn[c].head + 1, txn[c].hash, txn[c].ts)
    IN /\ txn[c].stage = "insert"
       /\ IF IdTaken(row.id)
          THEN UNCHANGED <<log, proofs>> /\ recorded' = recorded + 1
          ELSE Stores(row, txn[c].evidence)
       /\ txn' = [txn EXCEPT ![c] = NoTxn]
       /\ UNCHANGED <<backend, file, storeTime, pruned>>

----------------------------------------------------------------------------
(* purge_expired *)

Expired(row, ttl) == ttl # 0 /\ row.ts < storeTime - ttl

\* Old rows go, then the oldest beyond the limit.
Surviving ==
    LET fresh == {row \in log : ~Expired(row, AuditTtl)}
        after(row) == {other \in fresh : other.id > row.id}
    IN {row \in fresh : AuditMaxRows # 0 => Cardinality(after(row)) < AuditMaxRows}

\* Evidence goes when its row is older than its own limit.
UnexpiredProofs ==
    {p \in proofs : \A row \in log : row.id = p.row => ~Expired(row, EvidenceTtl)}

\* Mutant: evidence stays behind when its row goes.
CascadeNot(kept, rows) == kept

\* ON DELETE CASCADE: no evidence outlives its row.
Cascade(kept, rows) == {p \in kept : \E row \in rows : row.id = p.row}

Prunes(cascade) ==
    /\ log' = Surviving
    /\ proofs' = IF cascade THEN Cascade(UnexpiredProofs, Surviving) ELSE UnexpiredProofs
    /\ pruned' = (pruned \/ log' # log)

PurgeSqlite ==
    /\ backend = "sqlite" /\ Prunes(TRUE)
    /\ UNCHANGED <<backend, file, txn, storeTime, recorded>>

\* There is no foreign key in memory.
PurgePortable(outcome) ==
    /\ backend = "portable" /\ Prunes(FALSE) /\ Persists(outcome)
    /\ UNCHANGED <<backend, txn, storeTime, recorded>>

\* A row that a record has locked is deleted after that record's transaction.
PurgePostgres ==
    /\ backend = "postgres" /\ Prunes(TRUE)
    /\ \A row \in log \ Surviving : ~Locked(row.id)
    /\ UNCHANGED <<backend, file, txn, storeTime, recorded>>

StoreTick ==
    /\ storeTime < MaxStoreTime
    /\ storeTime' = storeTime + 1
    /\ UNCHANGED <<backend, log, proofs, file, txn, recorded, pruned>>

StoreNext ==
    \/ \E ts \in 0..storeTime, evidence \in BOOLEAN :
          \/ RecordSqlite(ts, evidence)
          \/ \E outcome \in {"ok", "failed", "torn"} : RecordPortable(ts, evidence, outcome)
          \/ \E c \in PoolConns : PgReads(c, ts, evidence)
    \/ \E c \in PoolConns : PgLocks(c) \/ PgInserts(c)
    \/ OpenPortable \/ PurgeSqlite \/ PurgePostgres
    \/ \E outcome \in {"ok", "failed", "torn"} : PurgePortable(outcome)
    \/ StoreTick

----------------------------------------------------------------------------
(* What the store promises. *)

\* hashchain::verify, as verify_audit_chain calls it: every stored hash is the one
\* derived from the beginning.
ChainVerifies(rows) ==
    \A row \in rows :
        LET before == {other \in rows \ {row} : other.id <= row.id}
        IN row.hash = ChainLink(IF before = {} THEN Genesis ELSE Newest(before).hash, row)

\* A log from which the store itself removed nothing is reported intact, whichever
\* connections recorded at the same time, whatever could not be saved, and after a
\* restart on what was.
UnprunedLogVerifies == ~pruned => ChainVerifies(log)

\* With a database, evidence is never shown for another event than its own: a purge
\* that removes a row takes its evidence along, also when the log starts again with
\* the same ids.
EvidenceOfItsEvent ==
    backend # "portable" =>
        \A p \in proofs : \E row \in log : row.id = p.row /\ row.event = p.event
=============================================================================
