--------------------------- MODULE AuditLogProofs ---------------------------
(***************************************************************************)
(* For every number of concurrent writers, every pool size and all         *)
(* failures: the audit log is one chain.                                   *)
(***************************************************************************)
EXTENDS AuditLog, TLAPS

USE DEF Payload, Jsonb

\* The row with the largest seq is the one LIMIT 1 returns.
LEMMA LastHashOfMax ==
    ASSUME NEW rows, NEW r \in rows, \A q \in rows : q.seq \in Int,
           \A q \in rows : q # r => q.seq < r.seq
    PROVE  LastHash(rows) = r.row_hash
  <1> DEFINE m == CHOOSE x \in rows : \A q \in rows : q.seq <= x.seq
  <1>1. \A q \in rows : q.seq <= r.seq
    OBVIOUS
  <1>2. m \in rows /\ \A q \in rows : q.seq <= m.seq
    BY <1>1
  <1>3. m = r
    <2>1. r.seq <= m.seq /\ m.seq \in Int /\ r.seq \in Int
      BY <1>2
    <2>2. QED  BY <1>2, <2>1
  <1>4. rows # {}
    OBVIOUS
  <1>5. QED  BY <1>3, <1>4 DEF LastHash

LEMMA InitInv == WriterInit => ChainInv
  <1> SUFFICES ASSUME WriterInit PROVE ChainInv
    OBVIOUS
  <1>1. TypeOK
    BY AuditAssumption DEF WriterInit, TypeOK, AuditAssumption, InTransaction
  <1>2. ChainLinked /\ OneRowPerCall
    BY DEF WriterInit, ChainLinked, OneRowPerCall
  <1>3. QED  BY <1>1, <1>2 DEF WriterInit, ChainInv

\* The steps that leave the committed rows alone keep the parts about them.
LEMMA LogUnchanged ==
    ASSUME ChainInv, UNCHANGED log,
           \A w \in Writers : /\ wpc'[w] = "done" <=> wpc[w] = "done"
                              /\ wpc[w] = "failed" => wpc'[w] = "failed"
    PROVE  ChainLinked' /\ OneRowPerCall'
  <1>1. ChainLinked'
    BY DEF ChainInv, ChainLinked, LastHash, Before
  <1>2. \A r \in log : r.id \in Writers
    BY DEF ChainInv, TypeOK
  <1>3. OneRowPerCall'
    BY <1>2 DEF ChainInv, OneRowPerCall
  <1>4. QED  BY <1>1, <1>3

\* A commit, acknowledged or not, appends the writer's row on top.
LEMMA CommitStep ==
    ASSUME ChainInv, NEW w \in Writers, wpc[w] = "commit",
           log' = log \cup {new[w]},
           NEW outcome \in {"done", "failed"}, EndTransaction(w, outcome)
    PROVE  ChainInv'
  <1> DEFINE r == new[w]
  <1>t. TypeOK BY DEF ChainInv
  <1>1. /\ r.id = w /\ r.args = Jsonb(w) /\ r.result_status = "written"
        /\ r.row_hash = RowHash(LastHash(log), w, "written")
        /\ r.seq \in 1..(nextseq - 1)
        /\ \A q \in log : q.seq < r.seq
    <2>1. r = [seq |-> r.seq, id |-> w, args |-> Jsonb(w), result_status |-> "written",
               row_hash |-> RowHash(prev[w], w, "written")]
      BY DEF ChainInv
    <2>2. prev[w] = LastHash(log)
      BY DEF ChainInv
    <2>3. r.seq \in 1..(nextseq - 1) /\ \A q \in log : q.seq < r.seq
      BY DEF ChainInv
    <2>4. r.id = w /\ r.args = Jsonb(w) /\ r.result_status = "written"
      BY <2>1
    <2>5. r.row_hash = RowHash(prev[w], w, "written")
      BY <2>1
    <2>6. QED  BY <2>2, <2>3, <2>4, <2>5
  <1>2. /\ wpc'[w] = outcome
        /\ \A v \in Writers \ {w} : wpc'[v] = wpc[v]
        /\ UNCHANGED <<nextseq, prev, new>>
        /\ lock' = lock \ {w}
        /\ conns' = conns \ {w}
    BY <1>t DEF EndTransaction, TypeOK
  <1>3. TypeOK'
    <2>1. \A q \in log' : /\ q.seq \in 1..MaxSeq
                          /\ q.id \in Writers
                          /\ q.args \in {"written", "renumbered", "shifted", "changed"}
                          /\ q.result_status \in {"written", "changed"}
      <3>1. r.seq \in 1..MaxSeq
        BY <1>1, <1>t, AuditAssumption DEF TypeOK, AuditAssumption
      <3>2. QED  BY <1>1, <1>t, <3>1 DEF TypeOK
    <2>2. wpc' \in [Writers -> InTransaction \cup {"idle", "conn", "done", "failed"}]
      BY <1>t DEF TypeOK, EndTransaction
    <2>3. Writers \cap conns' = {v \in Writers : wpc'[v] \in InTransaction}
      BY <1>t, <1>2 DEF TypeOK, InTransaction
    <2>4. QED  BY <1>t, <1>2, <2>1, <2>2, <2>3 DEF TypeOK
  <1>4. \A v \in Writers \ {w} : wpc[v] \notin {"read", "insert", "commit"}
    BY DEF ChainInv
  <1>5. \A v \in Writers : wpc'[v] \notin {"read", "insert", "commit"}
    BY <1>2, <1>4
  <1>6. \A v \in Writers : v \notin lock'
    BY <1>2, <1>4 DEF ChainInv
  <1>7. \A q \in log' : q.seq < nextseq'
    BY <1>t, <1>1, <1>2 DEF ChainInv, TypeOK
  <1>8. ChainLinked'
    <2>1. SUFFICES ASSUME NEW x \in log'
                   PROVE  x.row_hash = RowHash(LastHash(Before(log', x.seq)), x.id, "written")
      BY DEF ChainLinked, Before, LastHash
    <2>2. CASE x = r
      <3>1. Before(log', r.seq) = log
        BY <1>t, <1>1 DEF Before, TypeOK
      <3>2. QED  BY <1>1, <2>2, <3>1
    <2>3. CASE x \in log
      <3>1. Before(log', x.seq) = Before(log, x.seq)
        BY <1>t, <1>1, <2>3 DEF Before, TypeOK
      <3>2. QED  BY <2>3, <3>1 DEF ChainInv, ChainLinked
    <2>4. QED  BY <2>1, <2>2, <2>3
  <1>9. OneRowPerCall'
    <2>1. \A q \in log : q.id \in Writers /\ q.id # w
      BY <1>t DEF ChainInv, OneRowPerCall, TypeOK
    <2>2. \A v \in Writers : wpc'[v] = "done" => \E q \in log' : q.id = v
      BY <1>1, <1>2 DEF ChainInv, OneRowPerCall
    <2>3. \A p, q \in log' : p.id = q.id => p = q
      BY <1>1, <2>1 DEF ChainInv, OneRowPerCall
    <2>4. \A q \in log' : wpc'[q.id] \in {"done", "failed"}
      BY <1>1, <1>2, <2>1 DEF ChainInv, OneRowPerCall
    <2>5. QED  BY <2>2, <2>3, <2>4 DEF OneRowPerCall
  <1>10. QED
    <2>1. lock' \subseteq Writers
      BY <1>3 DEF TypeOK
    <2>2. QED
      BY <1>3, <1>5, <1>6, <1>7, <1>8, <1>9, <2>1 DEF ChainInv

\* One step per action.
LEMMA StepInv == ChainInv /\ [WriterNext]_wvars => ChainInv'
  <1> SUFFICES ASSUME ChainInv, [WriterNext]_wvars PROVE ChainInv'
    OBVIOUS
  <1> USE AuditAssumption DEF AuditAssumption
  <1>t. TypeOK BY DEF ChainInv
  <1>1. CASE UNCHANGED wvars
    BY <1>1 DEF wvars, ChainInv, TypeOK, ChainLinked, OneRowPerCall, LastHash, Before
  <1>2. ASSUME NEW w \in Writers, Begin(w) PROVE ChainInv'
    <2>1. TypeOK'
      BY <1>t, <1>2 DEF TypeOK, Begin, InTransaction
    <2>2. ChainLinked' /\ OneRowPerCall'
      BY <1>t, <1>2, LogUnchanged DEF TypeOK, Begin
    <2>3. QED
      BY <1>t, <1>2, <2>1, <2>2 DEF ChainInv, TypeOK, Begin, LastHash
  <1>3. ASSUME NEW w \in Writers, Acquire(w) PROVE ChainInv'
    <2>1. TypeOK'
      BY <1>t, <1>3 DEF TypeOK, Acquire, InTransaction
    <2>2. ChainLinked' /\ OneRowPerCall'
      BY <1>t, <1>3, LogUnchanged DEF TypeOK, Acquire
    <2>3. QED
      BY <1>t, <1>3, <2>1, <2>2 DEF ChainInv, TypeOK, Acquire, LastHash
  <1>4. ASSUME NEW w \in Writers, Lock(w) PROVE ChainInv'
    <2>1. TypeOK'
      BY <1>t, <1>4 DEF TypeOK, Lock, InTransaction
    <2>2. ChainLinked' /\ OneRowPerCall'
      BY <1>t, <1>4, LogUnchanged DEF TypeOK, Lock
    <2>3. QED
      BY <1>t, <1>4, <2>1, <2>2 DEF ChainInv, TypeOK, Lock, LastHash
  <1>5. ASSUME NEW w \in Writers, ReadPrev(w) PROVE ChainInv'
    <2>1. TypeOK'
      BY <1>t, <1>5 DEF TypeOK, ReadPrev, InTransaction
    <2>2. ChainLinked' /\ OneRowPerCall'
      BY <1>t, <1>5, LogUnchanged DEF TypeOK, ReadPrev
    <2>3. LastHash(log') = LastHash(log)
      BY <1>5 DEF ReadPrev
    <2>4. QED
      BY <1>t, <1>5, <2>1, <2>2, <2>3 DEF ChainInv, TypeOK, ReadPrev
  <1>6. ASSUME NEW w \in Writers, Insert(w) PROVE ChainInv'
    <2>1. TypeOK'
      BY <1>t, <1>6 DEF TypeOK, Insert, InTransaction
    <2>2. ChainLinked' /\ OneRowPerCall'
      BY <1>t, <1>6, LogUnchanged DEF TypeOK, Insert
    <2>3. /\ new'[w] = [seq |-> nextseq, id |-> w, args |-> Jsonb(w),
                        result_status |-> "written",
                        row_hash |-> RowHash(prev[w], w, "written")]
          /\ wpc'[w] = "commit"
          /\ \A v \in Writers \ {w} : wpc'[v] = wpc[v] /\ new'[v] = new[v]
          /\ nextseq' = nextseq + 1
          /\ UNCHANGED <<log, lock, conns, prev>>
      BY <1>t, <1>6 DEF TypeOK, Insert
    <2>4. LastHash(log') = LastHash(log)
      BY <2>3
    <2>5. w \in lock /\ prev[w] = LastHash(log)
      BY <1>6 DEF ChainInv, Insert
    <2>6. \A v \in Writers \ {w} : wpc[v] \notin {"read", "insert", "commit"}
      BY <2>5 DEF ChainInv
    <2>7. \A v \in Writers : v \in lock' <=> wpc'[v] \in {"read", "insert", "commit"}
      BY <2>3, <2>5, <2>6 DEF ChainInv
    <2>8. \A v \in Writers : wpc'[v] \in {"insert", "commit"} => v = w
      BY <2>3, <2>6
    <2>9. new'[w].seq = nextseq /\ nextseq \in 1..(nextseq' - 1)
      BY <1>t, <2>3 DEF TypeOK
    <2>10. \A r \in log' : r.seq < nextseq /\ r.seq < nextseq'
      BY <1>t, <2>3 DEF ChainInv, TypeOK
    <2>11. \A v, u \in lock' : v = u
      BY <2>3 DEF ChainInv
    <2>12. \A v \in Writers : wpc'[v] = "commit" =>
             /\ new'[v] = [seq |-> new'[v].seq, id |-> v, args |-> Jsonb(v),
                           result_status |-> "written",
                           row_hash |-> RowHash(prev'[v], v, "written")]
             /\ new'[v].seq \in 1..(nextseq' - 1)
             /\ \A r \in log' : r.seq < new'[v].seq
      BY <2>3, <2>8, <2>9, <2>10
    <2>13. \A v \in Writers : wpc'[v] \in {"insert", "commit"} => prev'[v] = LastHash(log')
      BY <2>3, <2>4, <2>5, <2>8
    <2>14. QED
      BY <2>1, <2>2, <2>7, <2>10, <2>11, <2>12, <2>13 DEF ChainInv
  <1>7. ASSUME NEW w \in Writers, Commit(w) PROVE ChainInv'
    BY <1>7, CommitStep DEF Commit
  <1>8. ASSUME NEW w \in Writers, Fail(w) PROVE ChainInv'
    <2>1. CASE wpc[w] = "commit" /\ log' = log \cup {new[w]}
      BY <1>8, <2>1, CommitStep DEF Fail
    <2>2. CASE UNCHANGED log
      <3>1. TypeOK'
        BY <1>t, <1>8, <2>2 DEF TypeOK, Fail, EndTransaction, InTransaction
      <3>2. ChainLinked' /\ OneRowPerCall'
        BY <1>t, <1>8, <2>2, LogUnchanged DEF TypeOK, Fail, EndTransaction, InTransaction
      <3>3. LastHash(log') = LastHash(log)
        BY <2>2
      <3>4. QED
        BY <1>t, <1>8, <2>2, <3>1, <3>2, <3>3
           DEF ChainInv, TypeOK, Fail, EndTransaction, InTransaction
    <2>3. QED  BY <1>8, <2>1, <2>2 DEF Fail
  <1>9. QED
    BY <1>1, <1>2, <1>3, <1>4, <1>5, <1>6, <1>7, <1>8 DEF WriterNext, WriterStep

LEMMA SpecInv == WriterSpec => []ChainInv
  BY InitInv, StepInv, PTL DEF WriterSpec

\* The state of the writers is always well-typed.
THEOREM AuditTypeCorrect == WriterSpec => []TypeOK
  <1>1. ChainInv => TypeOK
    BY DEF ChainInv
  <1>2. QED  BY <1>1, SpecInv, PTL

\* Every committed row is hashed over the committed row before it.
THEOREM AuditChainLinked == WriterSpec => []ChainLinked
  <1>1. ChainInv => ChainLinked
    BY DEF ChainInv
  <1>2. QED  BY <1>1, SpecInv, PTL

\* Every acknowledged write has exactly one row.
THEOREM AuditOneRowPerCall == WriterSpec => []OneRowPerCall
  <1>1. ChainInv => OneRowPerCall
    BY DEF ChainInv
  <1>2. QED  BY <1>1, SpecInv, PTL

-----------------------------------------------------------------------------
\* Without failures, the numbers stay dense and verify_rows may take seq - 1
\* for the predecessor.
THEOREM AuditPredecessor ==
    ASSUME DbFaults = FALSE
    PROVE  WriterSpec => []PredecessorIsSeqMinusOne
  <1>1. WriterInit => NumbersUsed
    BY DEF WriterInit, NumbersUsed
  <1>2. ASSUME ChainInv, NumbersUsed, [WriterNext]_wvars
        PROVE  NumbersUsed'
    <2>t. TypeOK BY <1>2 DEF ChainInv
    <2>1. ASSUME UNCHANGED <<log, nextseq, new>>,
                 \A w \in Writers : wpc[w] = "commit" => wpc'[w] = "commit"
          PROVE  NumbersUsed'
      BY <1>2, <2>1 DEF NumbersUsed
    <2>2. ASSUME NEW w \in Writers, Insert(w) PROVE NumbersUsed'
      <3>1. /\ new'[w].seq = nextseq /\ wpc'[w] = "commit"
            /\ nextseq' = nextseq + 1 /\ log' = log /\ nextseq \in Nat
            /\ \A v \in Writers \ {w} : wpc'[v] = wpc[v] /\ new'[v] = new[v]
            /\ wpc[w] # "commit"
        BY <2>t, <2>2, AuditAssumption DEF TypeOK, Insert, AuditAssumption
      <3>2. SUFFICES ASSUME NEW n \in 1..(nextseq' - 1)
                     PROVE  \/ \E r \in log' : r.seq = n
                            \/ \E v \in Writers : wpc'[v] = "commit" /\ new'[v].seq = n
        BY DEF NumbersUsed
      <3>3. CASE n = nextseq
        BY <3>1, <3>3
      <3>4. CASE n # nextseq
        <4>1. n \in 1..(nextseq - 1)
          BY <3>1, <3>4
        <4>2. \/ \E r \in log : r.seq = n
              \/ \E v \in Writers : wpc[v] = "commit" /\ new[v].seq = n
          BY <1>2, <4>1 DEF NumbersUsed
        <4>3. QED  BY <3>1, <4>2
      <3>5. QED  BY <3>3, <3>4
    <2>3. ASSUME NEW w \in Writers, Commit(w) PROVE NumbersUsed'
      <3>1. /\ log' = log \cup {new[w]}
            /\ UNCHANGED <<nextseq, new>>
            /\ \A v \in Writers \ {w} : wpc'[v] = wpc[v]
        BY <2>t, <2>3 DEF TypeOK, Commit, EndTransaction
      <3>2. QED  BY <1>2, <3>1 DEF NumbersUsed
    <2>4. ASSUME NEW w \in Writers, Begin(w) \/ Acquire(w) \/ Lock(w) \/ ReadPrev(w)
          PROVE  NumbersUsed'
      BY <2>t, <2>1, <2>4 DEF TypeOK, Begin, Acquire, Lock, ReadPrev
    <2>5. CASE UNCHANGED wvars
      BY <2>1, <2>5 DEF wvars
    <2>6. QED
      BY <1>2, <2>2, <2>3, <2>4, <2>5 DEF WriterNext, WriterStep, Fail
  <1>3. ASSUME ChainInv, NumbersUsed PROVE PredecessorIsSeqMinusOne
    <2>1. SUFFICES ASSUME NEW r \in log, r.seq # 1
                   PROVE  \E q \in log : q.seq = r.seq - 1
      BY DEF PredecessorIsSeqMinusOne
    <2>2. r.seq \in Nat /\ r.seq - 1 \in 1..(nextseq - 1) /\ nextseq \in Nat
      BY <1>3, <2>1, AuditAssumption DEF ChainInv, TypeOK, AuditAssumption
    <2>3. \A w \in Writers : wpc[w] = "commit" => r.seq < new[w].seq
      BY <1>3, <2>1 DEF ChainInv
    <2>4. \A w \in Writers : wpc[w] = "commit" => new[w].seq \in 1..(nextseq - 1)
      BY <1>3, Zenon DEF ChainInv
    <2>5. \A w \in Writers : wpc[w] = "commit" => new[w].seq # r.seq - 1
      BY <2>2, <2>3, <2>4
    <2>6. QED  BY <1>3, <2>2, <2>5 DEF NumbersUsed
  <1>4. QED  BY <1>1, <1>2, <1>3, SpecInv, PTL DEF WriterSpec

-----------------------------------------------------------------------------
\* A step that commits is an atomic append, every other one changes neither
\* the rows nor the tip.
THEOREM AuditImplementsSerialChain == WriterSpec => ImplementsSerialChain
  <1>1. WriterInit => Chain!Init
    BY DEF WriterInit, Chain!Init, LastHash, GENESIS_HASH
  <1>2. ASSUME ChainInv, NEW w \in Writers, wpc[w] = "commit", log' = log \cup {new[w]}
        PROVE  Chain!Next
    <2>t. TypeOK BY <1>2 DEF ChainInv
    <2>1. new[w] = [seq |-> new[w].seq, id |-> w, args |-> Jsonb(w),
                    result_status |-> "written",
                    row_hash |-> RowHash(prev[w], w, "written")]
      BY <1>2 DEF ChainInv
    <2>2. /\ new[w].id = w
          /\ new[w].row_hash = RowHash(prev[w], w, "written")
          /\ prev[w] = LastHash(log)
          /\ new[w].seq \in Int
          /\ \A q \in log : q.seq < new[w].seq
      <3>1. new[w].id = w
        BY <2>1
      <3>2. new[w].row_hash = RowHash(prev[w], w, "written")
        BY <2>1
      <3>3. QED  BY <1>2, <2>t, <3>1, <3>2 DEF ChainInv, TypeOK
    <2>3. LastHash(log') = new[w].row_hash
      <3>1. \A q \in log' : q.seq \in Int
        BY <1>2, <2>t, <2>2 DEF TypeOK
      <3>2. \A q \in log' : q # new[w] => q.seq < new[w].seq
        BY <1>2, <2>2
      <3>3. new[w] \in log'
        BY <1>2
      <3>4. QED  BY <3>1, <3>2, <3>3, LastHashOfMax
    <2>4. LastHash(log') = <<LastHash(log), w, "written">>
      BY <2>2, <2>3 DEF RowHash
    <2>5. w \notin {q.id : q \in log}
      BY <1>2 DEF ChainInv, OneRowPerCall
    <2>6. {q.id : q \in log'} = {q.id : q \in log} \cup {w}
      BY <1>2, <2>2
    <2>7. Chain!Append(w)
      BY <2>4, <2>5, <2>6 DEF Chain!Append
    <2>8. QED  BY <2>7 DEF Chain!Next
  <1>3. ASSUME ChainInv, [WriterNext]_wvars
        PROVE  [Chain!Next]_(Chain!chain)
    <2>1. CASE UNCHANGED log
      BY <2>1 DEF Chain!chain
    <2>2. CASE \E w \in Writers : wpc[w] = "commit" /\ log' = log \cup {new[w]}
      BY <1>2, <1>3, <2>2
    <2>3. QED
      BY <1>3, <2>1, <2>2
         DEF WriterNext, WriterStep, wvars, Begin, Acquire, Lock, ReadPrev, Insert,
             Commit, Fail
  <1>4. QED
    BY <1>1, <1>3, SpecInv, PTL DEF WriterSpec, ImplementsSerialChain, Chain!Spec

=============================================================================
