------------------------------ MODULE AuditLog ------------------------------
(***************************************************************************)
(* The append path of the hash-chained audit log: record_tool_call of      *)
(* app/audit.py over PostgreSQL (READ COMMITTED, the pool of app/db.py and *)
(* the audit_log table of migrations/versions/0001_create_audit_tables.py).*)
(*                                                                         *)
(* A writer is one call of record_tool_call and writes one row, so the     *)
(* writer stands for the row's id.  A step is one statement executed by    *)
(* PostgreSQL, between two awaits of the writer.                           *)
(***************************************************************************)
EXTENDS Integers, FiniteSets

CONSTANTS
    Writers,   \* calls of record_tool_call
    PoolSize,  \* max_size of the asyncpg pool
    Lossy,     \* those whose arguments or result jsonb does not give back as is
    MaxSeq,    \* bound on the sequence behind audit_log.seq
    DbFaults   \* whether statements, commits and processes may fail

ASSUME AuditAssumption ==
    /\ PoolSize \in Nat \ {0}
    /\ Lossy \subseteq Writers
    /\ MaxSeq \in Nat \ {0}
    /\ DbFaults \in BOOLEAN

VARIABLES
    log,      \* the committed rows of audit_log
    nextseq,  \* nextval of the BIGSERIAL: never rolled back
    lock,     \* who holds pg_advisory_xact_lock(CHAIN_LOCK_KEY)
    conns,    \* who holds a connection of the pool
    wpc,      \* where each writer is
    prev,     \* the prev_hash it read
    new       \* the row it has inserted and not yet committed

wvars == <<log, nextseq, lock, conns, wpc, prev, new>>

GENESIS_HASH == <<>>

\* What _row_hash sees of the hashed columns (agent_id, tool_name, args,
\* result_summary, created_at; "args" stands for them all): one string without
\* delimiters.  "shifted" are columns between which characters have moved, as
\* from the end of agent_id to the start of tool_name: the string is the same.
Payload(args) == IF args = "shifted" THEN "written" ELSE args

\* SHA-256 as a free constructor: equal digests mean equal payloads.  prev_hash
\* and id have a fixed length.  "result_status" stands for every column that
\* _row_hash leaves out.
RowHash(prev_hash, id, args) == <<prev_hash, id, Payload(args)>>

\* What the jsonb columns of the row of w hold: numbers are stored as numeric,
\* so that 1e+16 comes back as 10000000000000000 and -0.0 as 0.0, and
\* json.dumps of what comes back is not what was hashed.
Jsonb(w) == IF w \in Lossy THEN "renumbered" ELSE "written"

NoRow == [seq |-> 0, id |-> "none", args |-> "none", result_status |-> "none",
          row_hash |-> GENESIS_HASH]

\* SELECT row_hash ... ORDER BY seq DESC LIMIT 1
LastHash(rows) ==
    IF rows = {} THEN GENESIS_HASH
    ELSE (CHOOSE r \in rows : \A q \in rows : q.seq <= r.seq).row_hash

Before(rows, n) == {q \in rows : q.seq < n}

InTransaction == {"lock", "read", "insert", "commit"}

TypeOK ==
    /\ \A r \in log : /\ r.seq \in 1..MaxSeq
                      /\ r.id \in Writers
                      /\ r.args \in {"written", "renumbered", "shifted", "changed"}
                      /\ r.result_status \in {"written", "changed"}
    /\ nextseq \in 1..(MaxSeq + 1)
    /\ lock \subseteq Writers
    /\ Writers \cap conns = {w \in Writers : wpc[w] \in InTransaction}
    /\ wpc \in [Writers -> InTransaction \cup {"idle", "conn", "done", "failed"}]
    /\ DOMAIN prev = Writers
    /\ DOMAIN new = Writers

WriterInit ==
    /\ log = {}
    /\ nextseq = 1
    /\ lock = {}
    /\ conns = {}
    /\ wpc = [w \in Writers |-> "idle"]
    /\ prev = [w \in Writers |-> GENESIS_HASH]
    /\ new = [w \in Writers |-> NoRow]

\* The id and the timestamp of the row are fixed; wait for the pool.
Begin(w) ==
    /\ wpc[w] = "idle"
    /\ wpc' = [wpc EXCEPT ![w] = "conn"]
    /\ UNCHANGED <<log, nextseq, lock, conns, prev, new>>

\* pool.acquire() and BEGIN.
Acquire(w) ==
    /\ wpc[w] = "conn"
    /\ Cardinality(conns) < PoolSize
    /\ conns' = conns \cup {w}
    /\ wpc' = [wpc EXCEPT ![w] = "lock"]
    /\ UNCHANGED <<log, nextseq, lock, prev, new>>

\* Seeded bug: the advisory lock is taken in shared mode.
LockShared(w) ==
    /\ wpc[w] = "lock"
    /\ lock' = lock \cup {w}
    /\ wpc' = [wpc EXCEPT ![w] = "read"]
    /\ UNCHANGED <<log, nextseq, conns, prev, new>>

\* SELECT pg_advisory_xact_lock(CHAIN_LOCK_KEY) is granted.
Lock(w) ==
    /\ wpc[w] = "lock"
    /\ lock = {}
    /\ lock' = {w}
    /\ wpc' = [wpc EXCEPT ![w] = "read"]
    /\ UNCHANGED <<log, nextseq, conns, prev, new>>

\* Under READ COMMITTED this statement sees every row committed before it.
ReadPrev(w) ==
    /\ wpc[w] = "read"
    /\ prev' = [prev EXCEPT ![w] = LastHash(log)]
    /\ wpc' = [wpc EXCEPT ![w] = "insert"]
    /\ UNCHANGED <<log, nextseq, lock, conns, new>>

\* Seeded bug: the previous hash is read and not used.
InsertUnchained(w) ==
    /\ wpc[w] = "insert"
    /\ nextseq <= MaxSeq
    /\ new' = [new EXCEPT ![w] =
                 [seq |-> nextseq, id |-> w, args |-> Jsonb(w),
                  result_status |-> "written",
                  row_hash |-> RowHash(GENESIS_HASH, w, "written")]]
    /\ nextseq' = nextseq + 1
    /\ wpc' = [wpc EXCEPT ![w] = "commit"]
    /\ UNCHANGED <<log, lock, conns, prev>>

\* The hash is taken of the event as it is in memory.  The INSERT takes a sequence
\* number and stays invisible until the commit.
Insert(w) ==
    /\ wpc[w] = "insert"
    /\ nextseq <= MaxSeq
    /\ new' = [new EXCEPT ![w] =
                 [seq |-> nextseq, id |-> w, args |-> Jsonb(w),
                  result_status |-> "written",
                  row_hash |-> RowHash(prev[w], w, "written")]]
    /\ nextseq' = nextseq + 1
    /\ wpc' = [wpc EXCEPT ![w] = "commit"]
    /\ UNCHANGED <<log, lock, conns, prev>>

\* Seeded bug: a session lock, which outlives the transaction.
EndKeepsLock(w, outcome) ==
    /\ conns' = conns \ {w}
    /\ wpc' = [wpc EXCEPT ![w] = outcome]
    /\ UNCHANGED <<lock, nextseq, prev, new>>

\* Seeded bug: the connection is not given back.
EndKeepsConnection(w, outcome) ==
    /\ lock' = lock \ {w}
    /\ wpc' = [wpc EXCEPT ![w] = outcome]
    /\ UNCHANGED <<conns, nextseq, prev, new>>

\* The end of the transaction frees the lock and the connection.
EndTransaction(w, outcome) ==
    /\ lock' = lock \ {w}
    /\ conns' = conns \ {w}
    /\ wpc' = [wpc EXCEPT ![w] = outcome]
    /\ UNCHANGED <<nextseq, prev, new>>

Commit(w) ==
    /\ wpc[w] = "commit"
    /\ log' = log \cup {new[w]}
    /\ EndTransaction(w, "done")

\* Seeded bug: the exception is swallowed, the caller told of success.
FailSilently(w) ==
    /\ DbFaults
    /\ wpc[w] \in InTransaction
    /\ UNCHANGED log
    /\ EndTransaction(w, "done")

\* A statement raises, the connection breaks or the process dies: PostgreSQL
\* rolls back.  If the COMMIT was already executed only its reply is lost.
Fail(w) ==
    /\ DbFaults
    /\ wpc[w] \in InTransaction
    /\ \/ UNCHANGED log
       \/ wpc[w] = "commit" /\ log' = log \cup {new[w]}
    /\ EndTransaction(w, "failed")

WriterStep(w) ==
    \/ Acquire(w)
    \/ Lock(w)
    \/ ReadPrev(w)
    \/ Insert(w)
    \/ Commit(w)

WriterNext == \E w \in Writers : Begin(w) \/ WriterStep(w) \/ Fail(w)

WriterSpec == WriterInit /\ [][WriterNext]_wvars

-----------------------------------------------------------------------------
\* Every committed row is hashed, with what the call was given, over the committed
\* row with the next smaller seq (GENESIS_HASH for the first), whatever writers ran at the same time,
\* failed after their INSERT or lost the reply to their COMMIT: the chain
\* never forks and never skips a row.
ChainLinked ==
    \A r \in log : r.row_hash = RowHash(LastHash(Before(log, r.seq)), r.id, "written")

\* verify_rows takes seq - 1 for the predecessor of a row.  It is, as long as
\* no transaction rolls back after its INSERT.
PredecessorIsSeqMinusOne ==
    \A r \in log : r.seq = 1 \/ \E q \in log : q.seq = r.seq - 1

\* A writer whose caller was told of success has its row, one only, and a
\* writer still at work has none.
OneRowPerCall ==
    /\ \A w \in Writers : wpc[w] = "done" => \E r \in log : r.id = w
    /\ \A r, q \in log : r.id = q.id => r = q
    /\ \A r \in log : wpc[r.id] \in {"done", "failed"}

\* The inductive invariant behind them: who holds the lock knows the tip of the
\* chain, and the row it is about to commit goes on top of it.
ChainInv ==
    /\ TypeOK
    /\ \A w \in Writers : w \in lock <=> wpc[w] \in {"read", "insert", "commit"}
    /\ \A v, w \in lock : v = w
    /\ \A r \in log : r.seq < nextseq
    /\ \A w \in Writers : wpc[w] \in {"insert", "commit"} => prev[w] = LastHash(log)
    /\ \A w \in Writers : wpc[w] = "commit" =>
          /\ new[w] = [seq |-> new[w].seq, id |-> w, args |-> Jsonb(w),
                       result_status |-> "written",
                       row_hash |-> RowHash(prev[w], w, "written")]
          /\ new[w].seq \in 1..(nextseq - 1)
          /\ \A r \in log : r.seq < new[w].seq
    /\ ChainLinked
    /\ OneRowPerCall

\* Without failures every number taken from the sequence is a committed row or
\* the row about to be committed.
NumbersUsed ==
    \A n \in 1..(nextseq - 1) :
        \/ \E r \in log : r.seq = n
        \/ \E w \in Writers : wpc[w] = "commit" /\ new[w].seq = n

\* A log that is appended to in one step, each row over the current tip.
Chain == INSTANCE SerialChain
            WITH written <- {r.id : r \in log}, tip <- LastHash(log)

\* The lock, the read, the insert and the commit of the concurrent writers
\* amount to such atomic appends.
ImplementsSerialChain == Chain!Spec

=============================================================================
