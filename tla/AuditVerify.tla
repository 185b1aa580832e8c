---------------------------- MODULE AuditVerify -----------------------------
(***************************************************************************)
(* The read side of the audit log, running beside the writers of AuditLog: *)
(* GET /admin/audit (query_audit_log and verify_rows of app/audit.py) and  *)
(* GET /admin/audit/export (export_audit_log), which share the writers'    *)
(* connection pool.  Rows may also be changed by hand in the database, as  *)
(* tests/test_audit_docker_integration.py does: this is what the integrity *)
(* check is there to report.                                               *)
(***************************************************************************)
EXTENDS AuditLog

CONSTANTS
    Readers,   \* requests to GET /admin/audit
    Exports,   \* requests to GET /admin/audit/export
    Changes,   \* changes made by hand: "args", "shift", "status", "rewrite", "delete"
    MaxChanges \* bound: how many of them happen

ASSUME VerifyAssumption ==
    /\ Changes \subseteq {"args", "shift", "status", "rewrite", "delete"}
    /\ MaxChanges \in Nat
    /\ Writers \cap (Readers \cup Exports) = {}
    /\ Readers \cap Exports = {}

VARIABLES
    rpc,      \* where each query is
    page,     \* the rows it fetched
    todo,     \* those verify_rows has still to look at
    verdict,  \* its integrity_check: "none" so far, "pass" or "fail"
    broken,   \* its first_broken_seq, 0 without one
    epc,      \* where each export is
    sent,     \* the rows it has streamed
    changed,  \* the changes made by hand: [kind, seq, was, linked]
    known     \* those made before the query fetched its page

rvars == <<rpc, page, todo, verdict, broken, epc, sent, changed, known>>
vars == <<wvars, rvars>>

ReaderHolds == {"fetch", "verify"}

VerifyTypeOK ==
    /\ TypeOK
    /\ rpc \in [Readers -> {"idle", "conn", "reconn", "answered", "failed"} \cup ReaderHolds]
    /\ epc \in [Exports -> {"idle", "stream", "done"}]
    /\ DOMAIN page = Readers /\ DOMAIN todo = Readers /\ DOMAIN known = Readers
    /\ DOMAIN sent = Exports
    /\ conns = {w \in Writers : wpc[w] \in InTransaction}
               \cup {r \in Readers : rpc[r] \in ReaderHolds}
               \cup {e \in Exports : epc[e] = "stream"}
    /\ IsFiniteSet(conns) /\ Cardinality(conns) <= PoolSize
    /\ \A r \in Readers : todo[r] \subseteq page[r] /\ known[r] \subseteq changed
    /\ \A r \in Readers : \A row \in page[r] : row.seq \in 1..MaxSeq
    /\ verdict \in [Readers -> {"none", "pass", "fail"}]
    /\ broken \in [Readers -> 0..MaxSeq]

Init ==
    /\ WriterInit
    /\ rpc = [r \in Readers |-> "idle"]
    /\ page = [r \in Readers |-> {}]
    /\ todo = [r \in Readers |-> {}]
    /\ verdict = [r \in Readers |-> "none"]
    /\ broken = [r \in Readers |-> 0]
    /\ epc = [e \in Exports |-> "idle"]
    /\ sent = [e \in Exports |-> {}]
    /\ changed = {}
    /\ known = [r \in Readers |-> {}]

-----------------------------------------------------------------------------
TakeConn(x) == Cardinality(conns) < PoolSize /\ conns' = conns \cup {x}
DropConn(x) == conns' = conns \ {x}

QueryBegin(r) ==
    /\ rpc[r] = "idle"
    /\ rpc' = [rpc EXCEPT ![r] = "conn"]
    /\ UNCHANGED <<wvars, page, todo, verdict, broken, epc, sent, changed, known>>

\* query_audit_log acquires its connection.
QueryAcquire(r) ==
    /\ rpc[r] = "conn"
    /\ TakeConn(r)
    /\ rpc' = [rpc EXCEPT ![r] = "fetch"]
    /\ UNCHANGED <<log, nextseq, lock, wpc, prev, new,
                   page, todo, verdict, broken, epc, sent, changed, known>>

\* Seeded bug: verify_rows runs inside the block that holds the connection.
FetchKeepsConnection(r) ==
    /\ rpc[r] = "fetch"
    /\ \E rows \in SUBSET log :
          /\ page' = [page EXCEPT ![r] = rows]
          /\ todo' = [todo EXCEPT ![r] = rows]
    /\ known' = [known EXCEPT ![r] = changed]
    /\ rpc' = [rpc EXCEPT ![r] = "reconn"]
    /\ UNCHANGED <<wvars, verdict, broken, epc, sent, changed>>

\* The page: the filters and the offset and limit may leave any rows of the
\* table.  The connection goes back to the pool before verify_rows asks for
\* one of its own.
Fetch(r) ==
    /\ rpc[r] = "fetch"
    /\ \E rows \in SUBSET log :
          /\ page' = [page EXCEPT ![r] = rows]
          /\ todo' = [todo EXCEPT ![r] = rows]
    /\ known' = [known EXCEPT ![r] = changed]
    /\ DropConn(r)
    /\ rpc' = [rpc EXCEPT ![r] = "reconn"]
    /\ UNCHANGED <<log, nextseq, lock, wpc, prev, new, verdict, broken, epc, sent, changed>>

VerifyAcquire(r) ==
    /\ rpc[r] = "reconn"
    /\ TakeConn(r)
    /\ rpc' = [rpc EXCEPT ![r] = "verify"]
    /\ UNCHANGED <<log, nextseq, lock, wpc, prev, new,
                   page, todo, verdict, broken, epc, sent, changed, known>>

\* Seeded bug: the first row is looked for at seq 0.
PrevHashesFromZero(row) ==
    IF row.seq = 0 THEN {GENESIS_HASH}
    ELSE {q.row_hash : q \in {p \in log : p.seq = row.seq - 1}}

\* The stored hash of the row at seq - 1, looked up now; {} when it is gone.
PrevHashes(row) ==
    IF row.seq = 1 THEN {GENESIS_HASH}
    ELSE {q.row_hash : q \in {p \in log : p.seq = row.seq - 1}}

\* Seeded bug: a row without a predecessor is let through.
RowVerifiesAlone(row) ==
    \/ PrevHashes(row) = {}
    \/ \E prev_hash \in PrevHashes(row) :
          row.row_hash = RowHash(prev_hash, row.id, row.args)

RowVerifies(row) ==
    \E prev_hash \in PrevHashes(row) :
        row.row_hash = RowHash(prev_hash, row.id, row.args)

\* One turn of verify_rows' loop, in ascending seq order; the first mismatch
\* ends it.
VerifyRow(r) ==
    /\ rpc[r] = "verify"
    /\ todo[r] # {}
    /\ LET row == CHOOSE x \in todo[r] : \A y \in todo[r] : x.seq <= y.seq IN
       IF RowVerifies(row)
       THEN /\ todo' = [todo EXCEPT ![r] = @ \ {row}]
            /\ UNCHANGED <<rpc, verdict, broken, conns>>
       ELSE /\ verdict' = [verdict EXCEPT ![r] = "fail"]
            /\ broken' = [broken EXCEPT ![r] = row.seq]
            /\ rpc' = [rpc EXCEPT ![r] = "answered"]
            /\ DropConn(r)
            /\ UNCHANGED todo
    /\ UNCHANGED <<log, nextseq, lock, wpc, prev, new, page, epc, sent, changed, known>>

VerifyEnds(r) ==
    /\ rpc[r] = "verify"
    /\ todo[r] = {}
    /\ verdict' = [verdict EXCEPT ![r] = "pass"]
    /\ rpc' = [rpc EXCEPT ![r] = "answered"]
    /\ DropConn(r)
    /\ UNCHANGED <<log, nextseq, lock, wpc, prev, new,
                   page, todo, broken, epc, sent, changed, known>>

\* A statement of the query raises: the caller sees a 500.
QueryFails(r) ==
    /\ DbFaults
    /\ rpc[r] \in ReaderHolds
    /\ DropConn(r)
    /\ rpc' = [rpc EXCEPT ![r] = "failed"]
    /\ UNCHANGED <<log, nextseq, lock, wpc, prev, new,
                   page, todo, verdict, broken, epc, sent, changed, known>>

QueryStep(r) ==
    \/ QueryAcquire(r)
    \/ Fetch(r)
    \/ VerifyAcquire(r)
    \/ VerifyRow(r)
    \/ VerifyEnds(r)

-----------------------------------------------------------------------------
\* export_audit_log over a range that covers every created_at: one cursor,
\* hence one snapshot, read at the client's pace with the connection checked
\* out until the client has it all, goes away or the cursor raises.
ExportBegin(e) ==
    /\ epc[e] = "idle"
    /\ TakeConn(e)
    /\ epc' = [epc EXCEPT ![e] = "stream"]
    /\ sent' = [sent EXCEPT ![e] = log]
    /\ UNCHANGED <<log, nextseq, lock, wpc, prev, new,
                   rpc, page, todo, verdict, broken, changed, known>>

ExportEnd(e) ==
    /\ epc[e] = "stream"
    /\ DropConn(e)
    /\ epc' = [epc EXCEPT ![e] = "done"]
    /\ UNCHANGED <<log, nextseq, lock, wpc, prev, new,
                   rpc, page, todo, verdict, broken, sent, changed, known>>

-----------------------------------------------------------------------------
\* A row as a change by hand leaves it.  "args", "shift" and "status" leave
\* row_hash as it is; "shift" moves characters between two columns of a row that
\* is as it was written; "rewrite" recomputes row_hash, over the row at seq - 1.
ChangedRow(row, kind) ==
    CASE kind = "args"    -> [row EXCEPT !.args = "changed"]
      [] kind = "shift"   -> [row EXCEPT !.args = IF @ = "written" THEN "shifted" ELSE @]
      [] kind = "status"  -> [row EXCEPT !.result_status = "changed"]
      [] kind = "rewrite" -> [row EXCEPT !.args = "changed",
                                !.row_hash = RowHash(LastHash(Before(log, row.seq)),
                                                     row.id, "changed")]

\* was: the stored hash of the row until then.
\* linked: a later row was already there, hashed over this one.
ChangeByHand ==
    /\ Cardinality(changed) < MaxChanges
    /\ \E row \in log, kind \in Changes :
          /\ IF kind = "delete"
             THEN log' = log \ {row}
             ELSE /\ ChangedRow(row, kind) # row
                  /\ log' = (log \ {row}) \cup {ChangedRow(row, kind)}
          /\ changed' = changed \cup
                {[kind |-> kind, seq |-> row.seq, was |-> row.row_hash,
                  linked |-> \E q \in log : q.seq = row.seq + 1]}
    /\ UNCHANGED <<nextseq, lock, conns, wpc, prev, new,
                   rpc, page, todo, verdict, broken, epc, sent, known>>

-----------------------------------------------------------------------------
Next ==
    \/ WriterNext /\ UNCHANGED rvars
    \/ \E r \in Readers : QueryBegin(r) \/ QueryStep(r) \/ QueryFails(r)
    \/ \E e \in Exports : ExportBegin(e) \/ ExportEnd(e)
    \/ ChangeByHand

Spec == Init /\ [][Next]_vars

\* PostgreSQL executes what it is sent, lock waiters and pool waiters are
\* served, and the client of an export keeps reading.  Failures may happen and
\* are never relied on.
Fairness ==
    /\ \A w \in Writers : WF_vars(WriterStep(w) /\ UNCHANGED rvars)
    /\ \A r \in Readers : WF_vars(QueryStep(r))
    /\ \A e \in Exports : WF_vars(ExportEnd(e))

FairSpec == Spec /\ Fairness

-----------------------------------------------------------------------------
\* What verify_rows' docstring says of integrity_check "fail" at seq n: row n was
\* changed by hand, or its predecessor was.
FailMeansChanged ==
    \A r \in Readers : verdict[r] = "fail" =>
        \E x \in changed : x.seq \in {broken[r], broken[r] - 1}

\* The number n was taken from the sequence by a writer that rolled back.
Abandoned(n) ==
    /\ n > 0
    /\ \E w \in Writers : /\ wpc[w] = "failed" /\ new[w].seq = n
                          /\ \A row \in log : row.id # w

\* What "fail" at seq n does mean, whatever fails and whatever is changed beside
\* the query: row n or its predecessor was changed by hand, or n - 1 is a gap that
\* a rolled-back INSERT left, or jsonb does not give back what row n was hashed
\* with.  A row with none of these never fails.
FailExplained ==
    \A r \in Readers : verdict[r] = "fail" =>
        \/ \E x \in changed : x.seq \in {broken[r], broken[r] - 1}
        \/ Abandoned(broken[r] - 1)
        \/ \E row \in page[r] : row.seq = broken[r] /\ row.id \in Lossy

\* integrity_check "pass" is worth something: every row of the page that was
\* not itself rewritten has the payload it was written with, so that its hashed
\* columns differ from what was written by characters moved between neighbours
\* at most; and its predecessor was neither deleted nor rewritten under it before
\* the query.
PassMeansGenuine ==
    \A r \in Readers : verdict[r] = "pass" =>
        \A row \in page[r] :
            \/ \E x \in known[r] : x.kind = "rewrite" /\ x.seq = row.seq
            \/ /\ Payload(row.args) = "written"
               /\ ~ \E x \in known[r] :
                       x.kind \in {"delete", "rewrite"} /\ x.linked /\ x.seq = row.seq - 1

\* An export of the whole history is a prefix of the chain, for good: with a
\* row it holds every row before it, and no writer that was slower than the
\* export ever commits one in between.
ExportIsPrefix ==
    \A e \in Exports : \A row \in sent[e] : Before(log, row.seq) \subseteq sent[e]

\* The append path on its own: of the pool, the connections of the writers.
AppendPath == INSTANCE AuditLog WITH conns <- conns \cap Writers

\* Queries and exports take connections from the writers and nothing else:
\* beside them the writers behave as AuditLog says.
ImplementsWriters == AppendPath!WriterSpec

\* No audit write waits forever, for a connection or for the chain lock.
WriterFinishes ==
    \A w \in Writers : wpc[w] = "conn" ~> wpc[w] \in {"done", "failed"}

\* No query waits forever: it holds no connection while it waits for another.
QueryAnswered ==
    \A r \in Readers : rpc[r] = "conn" ~> rpc[r] \in {"answered", "failed"}

-----------------------------------------------------------------------------
\* The writers beside a table that changes by hand.  Of ChainInv it keeps what
\* a change leaves true: rows are told apart by seq and by id, and the row about
\* to be committed goes above every row there is, was changed or was deleted.
RowsInv ==
    /\ VerifyTypeOK
    /\ \A w \in Writers : w \in lock <=> wpc[w] \in {"read", "insert", "commit"}
    /\ \A v, w \in lock : v = w
    /\ \A row \in log :
          /\ row = [seq |-> row.seq, id |-> row.id, args |-> row.args,
                    result_status |-> row.result_status, row_hash |-> row.row_hash]
          /\ row.seq < nextseq
          /\ wpc[row.id] \in {"done", "failed"}
    /\ \A p, q \in log : p.seq = q.seq \/ p.id = q.id => p = q
    /\ \A x \in changed :
          /\ x.kind \in {"args", "shift", "status", "rewrite", "delete"}
          /\ x.seq \in 1..(nextseq - 1)
          /\ x.linked => x.seq + 1 < nextseq
    /\ \A w \in Writers : wpc[w] = "commit" =>
          /\ nextseq > 1
          /\ new[w] = [seq |-> nextseq - 1, id |-> w, args |-> Jsonb(w),
                       result_status |-> "written",
                       row_hash |-> RowHash(prev[w], w, "written")]
          /\ \A row \in log : row.seq < nextseq - 1
          /\ \A x \in changed : /\ x.seq < nextseq - 1
                                /\ x.linked => x.seq + 1 < nextseq - 1

\* The stored hashes that a rewrite replaced or a delete removed.
Superseded == {x.was : x \in {y \in changed : y.kind \in {"rewrite", "delete"}}}

Rewritten(xs, n) == \E x \in xs : x.kind = "rewrite" /\ x.seq = n

\* Row n was hashed over the row at n - 1, and that one rewritten or deleted.
Undercut(xs, n) ==
    \E x \in xs : x.kind \in {"rewrite", "delete"} /\ x.linked /\ x.seq = n - 1

\* h is a hash of row id, over prev_hash = h[1] and the payload h[3].
HashOfRow(h, id) ==
    /\ h = <<h[1], id, h[3]>>
    /\ h[3] \in {"written", "changed"}

\* What is known of a row as it is stored, or was when a query fetched it, from
\* the changes made until then.
RowFits(row, xs) ==
    /\ HashOfRow(row.row_hash, row.id)
    /\ ~ Rewritten(xs, row.seq) =>
          /\ row.row_hash[3] = "written"
          /\ Undercut(xs, row.seq) => row.row_hash[1] \in Superseded

\* A superseded hash never comes back: a stored hash is over the current hash of
\* the row before it or over a superseded one, so a rewrite that changes a row
\* for the second time does so because its predecessor's hash has gone for good.
HashInv ==
    /\ \A row \in log :
          /\ RowFits(row, changed)
          /\ row.row_hash[3] = "changed" => row.args = "changed"
          /\ row.row_hash \notin Superseded
          /\ row.row_hash[1] \in {LastHash(Before(log, row.seq))} \cup Superseded
    /\ \A w \in Writers : wpc[w] \in {"insert", "commit"} =>
          prev[w] \in {LastHash(log)} \cup Superseded
    /\ \A h \in Superseded :
          /\ h[2] \in Writers
          /\ HashOfRow(h, h[2])
          /\ wpc[h[2]] \in {"done", "failed"}
          /\ h[3] = "changed" => h[1] \in Superseded \/ \A row \in log : row.id # h[2]
    /\ \A r \in Readers : \A row \in page[r] : RowFits(row, known[r])

\* The rows of the page that verify_rows has let through are genuine.
PassInv ==
    \A r \in Readers :
        /\ verdict[r] = "pass" => rpc[r] = "answered" /\ todo[r] = {}
        /\ \A row \in page[r] \ todo[r] :
              \/ Rewritten(known[r], row.seq)
              \/ Payload(row.args) = "written" /\ ~ Undercut(known[r], row.seq)

Touched(n) == \E x \in changed : x.seq = n

\* The numbers have no gap that no change and no failed writer explains, and a row
\* verifies unless it or the row before it was touched, the number before it was
\* abandoned or jsonb changed it.
FailInv ==
    /\ \A n \in 1..(nextseq - 1) :
          \/ Touched(n)
          \/ Abandoned(n)
          \/ \E row \in log : row.seq = n
          \/ \E w \in Writers : wpc[w] = "commit" /\ n = nextseq - 1
    /\ \A row \in log : \/ Touched(row.seq) \/ Touched(row.seq - 1) \/ Abandoned(row.seq - 1)
                        \/ row.id \in Lossy
                        \/ RowVerifies(row)
    /\ \A w \in Writers, n \in 0..(nextseq - 1) :
          /\ \/ wpc[w] = "insert" /\ n = nextseq - 1
             \/ wpc[w] = "commit" /\ n = nextseq - 2
          /\ ~ Touched(n)
          /\ ~ Abandoned(n)
          => \/ n = 0 /\ prev[w] = GENESIS_HASH
             \/ n > 0 /\ \E q \in log : q.seq = n /\ q.row_hash = prev[w]
    /\ \A r \in Readers : \A row \in page[r] : Touched(row.seq) \/ row \in log
    /\ \A r \in Readers : verdict[r] = "fail" => rpc[r] = "answered"
    /\ FailExplained

=============================================================================
