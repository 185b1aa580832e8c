-------------------------- MODULE AuditVerifyProofs --------------------------
(***************************************************************************)
(* For every number of writers, queries, exports and changes by hand: what *)
(* the integrity check and the export promise.                             *)
(***************************************************************************)
EXTENDS AuditVerify, AuditLogProofs, FiniteSetTheorems, WellFoundedInduction

\* A set of natural numbers has a smallest one.
LEMMA SmallestNat ==
    ASSUME NEW T, T \subseteq Nat, T # {}
    PROVE  \E m \in T : \A n \in T : m <= n
  <1> DEFINE R == OpToRel(<, Nat)
  <1>1. IsWellFoundedOn(R, Nat)
    BY NatLessThanWellFounded, Zenon
  <1>2. PICK m \in T : \A n \in T : ~ (<<n, m>> \in R)
    <2> HIDE DEF R
    <2> QED BY <1>1, WFMin
  <1>3. \A n \in T : m <= n
    <2> TAKE n \in T
    <2>1. m \in Nat /\ n \in Nat
      OBVIOUS
    <2>2. n < m => <<n, m>> \in R
      BY <2>1, Zenon DEF OpToRel
    <2> HIDE DEF R
    <2>3. ~ (n < m)
      BY <1>2, <2>2
    <2>4. QED  BY <2>1, <2>3
  <1>4. QED  BY <1>3

LEMMA LargestNat ==
    ASSUME NEW T, NEW b \in Nat, T \subseteq 0..b, T # {}
    PROVE  \E m \in T : \A n \in T : n <= m
  <1> DEFINE U == {b - n : n \in T}
  <1>1. U \subseteq Nat /\ U # {}
    <2>1. \A n \in T : b - n \in Nat
      OBVIOUS
    <2>2. PICK t \in T : TRUE
      OBVIOUS
    <2>3. b - t \in U
      OBVIOUS
    <2>4. QED  BY <2>1, <2>3
  <1>2. PICK m \in T : \A n \in T : b - m <= b - n
    <2> HIDE DEF U
    <2>1. PICK u \in U : \A n \in U : u <= n
      BY <1>1, SmallestNat
    <2>2. PICK m \in T : u = b - m
      BY DEF U
    <2>3. \A n \in T : b - n \in U
      BY DEF U
    <2> QED BY <2>1, <2>2, <2>3
  <1>3. QED  BY <1>2

-----------------------------------------------------------------------------
LEMMA VerifyTypeInit == Init => VerifyTypeOK
  <1> SUFFICES ASSUME Init PROVE VerifyTypeOK
    OBVIOUS
  <1> USE AuditAssumption, VerifyAssumption DEF AuditAssumption, VerifyAssumption
  <1>1. TypeOK
    BY DEF Init, WriterInit, TypeOK, InTransaction
  <1>2. IsFiniteSet(conns) /\ Cardinality(conns) <= PoolSize
    BY FS_EmptySet DEF Init, WriterInit
  <1>3. conns = {w \in Writers : wpc[w] \in InTransaction}
                \cup {r \in Readers : rpc[r] \in ReaderHolds}
                \cup {e \in Exports : epc[e] = "stream"}
    BY DEF Init, WriterInit, InTransaction, ReaderHolds
  <1>4. QED  BY <1>1, <1>2, <1>3 DEF Init, VerifyTypeOK

\* Taking a connection keeps within the pool, giving one back too.
LEMMA ConnTaken ==
    ASSUME VerifyTypeOK, NEW x, Cardinality(conns) < PoolSize, conns' = conns \cup {x}
    PROVE  IsFiniteSet(conns') /\ Cardinality(conns') <= PoolSize
  <1>1. IsFiniteSet(conns)
    BY DEF VerifyTypeOK
  <1>2. Cardinality(conns) \in Nat
    BY <1>1, FS_CardinalityType
  <1>3. IsFiniteSet(conns') /\ Cardinality(conns') \in {Cardinality(conns), Cardinality(conns) + 1}
    BY <1>1, FS_AddElement
  <1>4. QED  BY <1>2, <1>3, AuditAssumption DEF AuditAssumption

LEMMA ConnDropped ==
    ASSUME VerifyTypeOK, NEW x, conns' = conns \ {x}
    PROVE  IsFiniteSet(conns') /\ Cardinality(conns') <= PoolSize
  <1>1. IsFiniteSet(conns) /\ Cardinality(conns) <= PoolSize
    BY DEF VerifyTypeOK
  <1>2. Cardinality(conns) \in Nat
    BY <1>1, FS_CardinalityType
  <1>3. IsFiniteSet(conns') /\ Cardinality(conns') \in {Cardinality(conns), Cardinality(conns) - 1}
    BY <1>1, FS_RemoveElement
  <1>4. QED  BY <1>1, <1>2, <1>3, AuditAssumption DEF AuditAssumption

\* Who holds a connection, when writer w takes its next step.
LEMMA WriterConns ==
    ASSUME VerifyTypeOK, NEW w \in Writers, UNCHANGED <<rpc, epc>>,
           NEW s \in InTransaction \cup {"idle", "conn", "done", "failed"},
           wpc' = [wpc EXCEPT ![w] = s],
           conns' = IF s \in InTransaction THEN conns \cup {w} ELSE conns \ {w}
    PROVE  /\ conns' = {v \in Writers : wpc'[v] \in InTransaction}
                       \cup {r \in Readers : rpc'[r] \in ReaderHolds}
                       \cup {e \in Exports : epc'[e] = "stream"}
           /\ Writers \cap conns' = {v \in Writers : wpc'[v] \in InTransaction}
           /\ wpc' \in [Writers -> InTransaction \cup {"idle", "conn", "done", "failed"}]
  <1>1. wpc \in [Writers -> InTransaction \cup {"idle", "conn", "done", "failed"}]
    BY DEF VerifyTypeOK, TypeOK
  <1>2. wpc'[w] = s /\ \A v \in Writers : v # w => wpc'[v] = wpc[v]
    BY <1>1
  <1>3. wpc' \in [Writers -> InTransaction \cup {"idle", "conn", "done", "failed"}]
    BY <1>1
  <1>4. Writers \cap (Readers \cup Exports) = {}
    BY VerifyAssumption DEF VerifyAssumption
  <1>5. conns = {v \in Writers : wpc[v] \in InTransaction}
               \cup {r \in Readers : rpc[r] \in ReaderHolds}
               \cup {e \in Exports : epc[e] = "stream"}
    BY DEF VerifyTypeOK
  <1>6. \A x : x \in conns' <=> \/ x \in Writers /\ wpc'[x] \in InTransaction
                                \/ x \in Readers /\ rpc[x] \in ReaderHolds
                                \/ x \in Exports /\ epc[x] = "stream"
    BY <1>2, <1>4, <1>5
  <1>7. QED  BY <1>3, <1>4, <1>6

\* The same, when query r moves to s.
LEMMA ReaderConns ==
    ASSUME VerifyTypeOK, NEW r \in Readers, UNCHANGED <<wpc, epc>>,
           NEW s \in {"idle", "conn", "reconn", "answered", "failed"} \cup ReaderHolds,
           rpc' = [rpc EXCEPT ![r] = s],
           conns' = IF s \in ReaderHolds THEN conns \cup {r} ELSE conns \ {r}
    PROVE  /\ conns' = {v \in Writers : wpc'[v] \in InTransaction}
                       \cup {x \in Readers : rpc'[x] \in ReaderHolds}
                       \cup {e \in Exports : epc'[e] = "stream"}
           /\ Writers \cap conns' = {v \in Writers : wpc'[v] \in InTransaction}
           /\ rpc' \in [Readers -> {"idle", "conn", "reconn", "answered", "failed"}
                                     \cup ReaderHolds]
  <1>1. rpc \in [Readers -> {"idle", "conn", "reconn", "answered", "failed"} \cup ReaderHolds]
    BY DEF VerifyTypeOK
  <1>2. rpc'[r] = s /\ \A v \in Readers : v # r => rpc'[v] = rpc[v]
    BY <1>1
  <1>3. rpc' \in [Readers -> {"idle", "conn", "reconn", "answered", "failed"} \cup ReaderHolds]
    BY <1>1
  <1>4. Writers \cap (Readers \cup Exports) = {} /\ Readers \cap Exports = {}
    BY VerifyAssumption DEF VerifyAssumption
  <1>5. conns = {v \in Writers : wpc[v] \in InTransaction}
               \cup {x \in Readers : rpc[x] \in ReaderHolds}
               \cup {e \in Exports : epc[e] = "stream"}
    BY DEF VerifyTypeOK
  <1>6. \A x : x \in conns' <=> \/ x \in Writers /\ wpc[x] \in InTransaction
                                \/ x \in Readers /\ rpc'[x] \in ReaderHolds
                                \/ x \in Exports /\ epc[x] = "stream"
    BY <1>2, <1>4, <1>5
  <1>7. QED  BY <1>3, <1>4, <1>6

\* The same, for an export.
LEMMA ExportConns ==
    ASSUME VerifyTypeOK, NEW e \in Exports, UNCHANGED <<wpc, rpc>>,
           NEW s \in {"idle", "stream", "done"},
           epc' = [epc EXCEPT ![e] = s],
           conns' = IF s = "stream" THEN conns \cup {e} ELSE conns \ {e}
    PROVE  /\ conns' = {v \in Writers : wpc'[v] \in InTransaction}
                       \cup {r \in Readers : rpc'[r] \in ReaderHolds}
                       \cup {x \in Exports : epc'[x] = "stream"}
           /\ Writers \cap conns' = {v \in Writers : wpc'[v] \in InTransaction}
           /\ epc' \in [Exports -> {"idle", "stream", "done"}]
  <1>1. epc \in [Exports -> {"idle", "stream", "done"}]
    BY DEF VerifyTypeOK
  <1>2. epc'[e] = s /\ \A v \in Exports : v # e => epc'[v] = epc[v]
    BY <1>1
  <1>3. epc' \in [Exports -> {"idle", "stream", "done"}]
    BY <1>1
  <1>4. Writers \cap (Readers \cup Exports) = {} /\ Readers \cap Exports = {}
    BY VerifyAssumption DEF VerifyAssumption
  <1>5. conns = {v \in Writers : wpc[v] \in InTransaction}
               \cup {r \in Readers : rpc[r] \in ReaderHolds}
               \cup {x \in Exports : epc[x] = "stream"}
    BY DEF VerifyTypeOK
  <1>6. \A x : x \in conns' <=> \/ x \in Writers /\ wpc[x] \in InTransaction
                                \/ x \in Readers /\ rpc[x] \in ReaderHolds
                                \/ x \in Exports /\ epc'[x] = "stream"
    BY <1>2, <1>4, <1>5
  <1>7. QED  BY <1>3, <1>4, <1>6

-----------------------------------------------------------------------------
\* The row verify_rows looks at next is one of those it has still to look at.
LEMMA FirstTodo ==
    ASSUME VerifyTypeOK, NEW r \in Readers, todo[r] # {}
    PROVE  (CHOOSE x \in todo[r] : \A y \in todo[r] : x.seq <= y.seq) \in todo[r]
  <1> DEFINE T == {x.seq : x \in todo[r]}
  <1>1. \A x \in todo[r] : x.seq \in Nat
    BY AuditAssumption DEF VerifyTypeOK, AuditAssumption
  <1>2. T \subseteq Nat /\ T # {}
    BY <1>1
  <1>3. PICK m \in T : \A n \in T : m <= n
    <2> HIDE DEF T
    <2> QED BY <1>2, SmallestNat
  <1>4. PICK x \in todo[r] : m = x.seq
    OBVIOUS
  <1>5. \A y \in todo[r] : x.seq <= y.seq
    BY <1>3, <1>4
  <1>6. QED  BY <1>5

\* What a change by hand does: row becomes c, or goes when kind is "delete".
ByHand(row, kind, c) ==
    /\ row \in log
    /\ kind \in {"args", "shift", "status", "rewrite", "delete"}
    /\ c = [seq |-> row.seq, id |-> row.id, args |-> c.args,
            result_status |-> c.result_status, row_hash |-> c.row_hash]
    /\ c.args \in {row.args, "shifted", "changed"}
    /\ row.args = "changed" => c.args = "changed"
    /\ c.result_status \in {row.result_status, "changed"}
    /\ kind = "delete" => log' = log \ {row}
    /\ kind # "delete" => c # row /\ log' = (log \ {row}) \cup {c}
    /\ kind = "rewrite" =>
          /\ c.args = "changed" /\ c.result_status = row.result_status
          /\ c.row_hash = RowHash(LastHash(Before(log, row.seq)), row.id, "changed")
    /\ kind # "rewrite" => c.row_hash = row.row_hash
    /\ changed' = changed \cup
          {[kind |-> kind, seq |-> row.seq, was |-> row.row_hash,
            linked |-> \E q \in log : q.seq = row.seq + 1]}
    /\ UNCHANGED <<nextseq, lock, conns, wpc, prev, new,
                   rpc, page, todo, verdict, broken, epc, sent, known>>

LEMMA ChangeIsByHand ==
    ASSUME RowsInv, ChangeByHand
    PROVE  \E row, kind, c : ByHand(row, kind, c)
  <1>1. PICK row \in log, kind \in Changes :
          /\ IF kind = "delete"
             THEN log' = log \ {row}
             ELSE /\ ChangedRow(row, kind) # row
                  /\ log' = (log \ {row}) \cup {ChangedRow(row, kind)}
          /\ changed' = changed \cup
                {[kind |-> kind, seq |-> row.seq, was |-> row.row_hash,
                  linked |-> \E q \in log : q.seq = row.seq + 1]}
    BY DEF ChangeByHand
  <1>2. UNCHANGED <<nextseq, lock, conns, wpc, prev, new,
                    rpc, page, todo, verdict, broken, epc, sent, known>>
    BY DEF ChangeByHand
  <1>3. kind \in {"args", "shift", "status", "rewrite", "delete"}
    BY VerifyAssumption DEF VerifyAssumption
  <1>4. row = [seq |-> row.seq, id |-> row.id, args |-> row.args,
               result_status |-> row.result_status, row_hash |-> row.row_hash]
    BY DEF RowsInv
  <1>5. CASE kind = "delete"
    <2>1. ByHand(row, kind, row)
      BY <1>1, <1>2, <1>4, <1>5 DEF ByHand
    <2>2. QED  BY <2>1
  <1>6. CASE kind = "args"
    <2> DEFINE c == [row EXCEPT !.args = "changed"]
    <2>1. ChangedRow(row, kind) = c
      BY <1>6 DEF ChangedRow
    <2>2. c = [seq |-> row.seq, id |-> row.id, args |-> "changed",
               result_status |-> row.result_status, row_hash |-> row.row_hash]
      BY <1>4
    <2>3. ByHand(row, kind, c)
      <3> HIDE DEF c
      <3> QED BY <1>1, <1>2, <1>6, <2>1, <2>2 DEF ByHand
    <2>4. QED  BY <2>3
  <1>s. CASE kind = "shift"
    <2> DEFINE a == IF row.args = "written" THEN "shifted" ELSE row.args
               c == [row EXCEPT !.args = a]
    <2>1. ChangedRow(row, kind) = c
      BY <1>s DEF ChangedRow
    <2>a. a \in {row.args, "shifted"} /\ (row.args = "changed" => a = "changed")
      OBVIOUS
    <2>2. c = [seq |-> row.seq, id |-> row.id, args |-> a,
               result_status |-> row.result_status, row_hash |-> row.row_hash]
      <3> HIDE DEF a
      <3> QED BY <1>4
    <2>3. ByHand(row, kind, c)
      <3> HIDE DEF c, a
      <3> QED BY <1>1, <1>2, <1>s, <2>1, <2>a, <2>2 DEF ByHand
    <2>4. QED  BY <2>3
  <1>7. CASE kind = "status"
    <2> DEFINE c == [row EXCEPT !.result_status = "changed"]
    <2>1. ChangedRow(row, kind) = c
      BY <1>7 DEF ChangedRow
    <2>2. c = [seq |-> row.seq, id |-> row.id, args |-> row.args,
               result_status |-> "changed", row_hash |-> row.row_hash]
      BY <1>4
    <2>3. ByHand(row, kind, c)
      <3> HIDE DEF c
      <3> QED BY <1>1, <1>2, <1>7, <2>1, <2>2 DEF ByHand
    <2>4. QED  BY <2>3
  <1>8. CASE kind = "rewrite"
    <2> DEFINE h == RowHash(LastHash(Before(log, row.seq)), row.id, "changed")
               c == [row EXCEPT !.args = "changed", !.row_hash = h]
    <2>1. ChangedRow(row, kind) = c
      BY <1>8 DEF ChangedRow
    <2> HIDE DEF h
    <2>2. c = [seq |-> row.seq, id |-> row.id, args |-> "changed",
               result_status |-> row.result_status, row_hash |-> h]
      <3> DEFINE d == [row EXCEPT !.args = "changed"]
      <3>1. d = [seq |-> row.seq, id |-> row.id, args |-> "changed",
                 result_status |-> row.result_status, row_hash |-> row.row_hash]
        BY <1>4
      <3>2. c = [d EXCEPT !.row_hash = h]
        OBVIOUS
      <3> HIDE DEF c, d
      <3>3. QED  BY <3>1, <3>2
    <2>3. ByHand(row, kind, c)
      <3>1. c.row_hash = h /\ c.args = "changed" /\ c.result_status = row.result_status
        BY <2>2
      <3>3. c = [seq |-> row.seq, id |-> row.id, args |-> c.args,
                 result_status |-> c.result_status, row_hash |-> c.row_hash]
        BY <2>2, <3>1
      <3> HIDE DEF c
      <3>4. c # row /\ log' = (log \ {row}) \cup {c}
        BY <1>1, <1>8, <2>1
      <3> QED BY <1>1, <1>2, <1>8, <3>1, <3>3, <3>4 DEF ByHand, h
    <2>4. QED  BY <2>3
  <1>9. QED  BY <1>3, <1>5, <1>6, <1>s, <1>7, <1>8

LEMMA VerifyTypeStep == RowsInv /\ [Next]_vars => VerifyTypeOK'
  <1> SUFFICES ASSUME RowsInv, [Next]_vars PROVE VerifyTypeOK'
    OBVIOUS
  <1> USE AuditAssumption DEF AuditAssumption
  <1>t. VerifyTypeOK /\ TypeOK
    BY DEF RowsInv, VerifyTypeOK
  <1>1. CASE UNCHANGED vars
    BY <1>1, <1>t DEF vars, wvars, rvars, VerifyTypeOK, TypeOK
  <1>2. ASSUME NEW w \in Writers, Begin(w), UNCHANGED rvars PROVE VerifyTypeOK'
    <2>1. w \notin conns
      BY <1>2, <1>t DEF TypeOK, Begin, InTransaction
    <2>2. conns' = conns \ {w}
      BY <1>2, <2>1 DEF Begin
    <2>3. /\ conns' = {v \in Writers : wpc'[v] \in InTransaction}
                       \cup {r \in Readers : rpc'[r] \in ReaderHolds}
                       \cup {e \in Exports : epc'[e] = "stream"}
          /\ Writers \cap conns' = {v \in Writers : wpc'[v] \in InTransaction}
          /\ wpc' \in [Writers -> InTransaction \cup {"idle", "conn", "done", "failed"}]
      BY <1>2, <1>t, <2>2, WriterConns DEF Begin, rvars, InTransaction
    <2>4. QED  BY <1>2, <1>t, <2>3 DEF VerifyTypeOK, TypeOK, Begin, rvars
  <1>3. ASSUME NEW w \in Writers, Acquire(w), UNCHANGED rvars PROVE VerifyTypeOK'
    <2>1. /\ conns' = {v \in Writers : wpc'[v] \in InTransaction}
                       \cup {r \in Readers : rpc'[r] \in ReaderHolds}
                       \cup {e \in Exports : epc'[e] = "stream"}
          /\ Writers \cap conns' = {v \in Writers : wpc'[v] \in InTransaction}
          /\ wpc' \in [Writers -> InTransaction \cup {"idle", "conn", "done", "failed"}]
      BY <1>3, <1>t, WriterConns DEF Acquire, rvars, InTransaction
    <2>2. IsFiniteSet(conns') /\ Cardinality(conns') <= PoolSize
      BY <1>3, <1>t, ConnTaken DEF Acquire
    <2>3. QED  BY <1>3, <1>t, <2>1, <2>2 DEF VerifyTypeOK, TypeOK, Acquire, rvars
  <1>4. ASSUME NEW w \in Writers, Lock(w) \/ ReadPrev(w) \/ Insert(w), UNCHANGED rvars
        PROVE  VerifyTypeOK'
    <2>1. w \in conns
      BY <1>4, <1>t DEF TypeOK, Lock, ReadPrev, Insert, InTransaction
    <2>2. conns' = conns \cup {w} /\ conns' = conns
      BY <1>4, <2>1 DEF Lock, ReadPrev, Insert
    <2>3. PICK s \in {"read", "insert", "commit"} : wpc' = [wpc EXCEPT ![w] = s]
      BY <1>4 DEF Lock, ReadPrev, Insert
    <2>4. /\ conns' = {v \in Writers : wpc'[v] \in InTransaction}
                       \cup {r \in Readers : rpc'[r] \in ReaderHolds}
                       \cup {e \in Exports : epc'[e] = "stream"}
          /\ Writers \cap conns' = {v \in Writers : wpc'[v] \in InTransaction}
          /\ wpc' \in [Writers -> InTransaction \cup {"idle", "conn", "done", "failed"}]
      BY <1>4, <1>t, <2>2, <2>3, WriterConns DEF rvars, InTransaction
    <2>5. nextseq' \in 1..(MaxSeq + 1) /\ lock' \subseteq Writers /\ log' = log
      BY <1>4, <1>t DEF TypeOK, Lock, ReadPrev, Insert
    <2>6. DOMAIN prev' = Writers /\ DOMAIN new' = Writers
      BY <1>4, <1>t DEF TypeOK, Lock, ReadPrev, Insert
    <2>7. QED  BY <1>4, <1>t, <2>2, <2>4, <2>5, <2>6 DEF VerifyTypeOK, TypeOK, rvars
  <1>5. ASSUME NEW w \in Writers, Commit(w) \/ Fail(w), UNCHANGED rvars
        PROVE  VerifyTypeOK'
    <2>1. PICK s \in {"done", "failed"} : EndTransaction(w, s)
      BY <1>5 DEF Commit, Fail
    <2>2. /\ conns' = {v \in Writers : wpc'[v] \in InTransaction}
                       \cup {r \in Readers : rpc'[r] \in ReaderHolds}
                       \cup {e \in Exports : epc'[e] = "stream"}
          /\ Writers \cap conns' = {v \in Writers : wpc'[v] \in InTransaction}
          /\ wpc' \in [Writers -> InTransaction \cup {"idle", "conn", "done", "failed"}]
      BY <1>5, <1>t, <2>1, WriterConns DEF EndTransaction, rvars, InTransaction
    <2>3. IsFiniteSet(conns') /\ Cardinality(conns') <= PoolSize
      BY <1>t, <2>1, ConnDropped DEF EndTransaction
    <2>4. \A row \in log' : /\ row.seq \in 1..MaxSeq
                            /\ row.id \in Writers
                            /\ row.args \in {"written", "renumbered", "shifted", "changed"}
                            /\ row.result_status \in {"written", "changed"}
      <3>1. CASE log' = log
        BY <1>t, <3>1 DEF TypeOK
      <3>2. CASE wpc[w] = "commit" /\ log' = log \cup {new[w]}
        <4>1. /\ nextseq > 1
              /\ new[w] = [seq |-> nextseq - 1, id |-> w, args |-> Jsonb(w),
                           result_status |-> "written",
                           row_hash |-> RowHash(prev[w], w, "written")]
          BY <3>2 DEF RowsInv
        <4>2. nextseq - 1 \in 1..MaxSeq
          BY <1>t, <4>1 DEF TypeOK
        <4>3. Jsonb(w) \in {"written", "renumbered"}
          BY DEF Jsonb
        <4>4. QED  BY <1>t, <3>2, <4>1, <4>2, <4>3 DEF TypeOK
      <3>3. QED  BY <1>5, <3>1, <3>2 DEF Commit, Fail
    <2>5. QED
      BY <1>5, <1>t, <2>1, <2>2, <2>3, <2>4 DEF VerifyTypeOK, TypeOK, EndTransaction, rvars
  <1>6. ASSUME NEW r \in Readers, QueryBegin(r) PROVE VerifyTypeOK'
    <2>1. r \notin conns
      BY <1>6, <1>t, VerifyAssumption DEF VerifyTypeOK, QueryBegin, ReaderHolds, VerifyAssumption
    <2>2. conns' = conns \ {r} /\ conns' = conns
      BY <1>6, <2>1 DEF QueryBegin, wvars
    <2>3. /\ conns' = {v \in Writers : wpc'[v] \in InTransaction}
                       \cup {x \in Readers : rpc'[x] \in ReaderHolds}
                       \cup {e \in Exports : epc'[e] = "stream"}
          /\ Writers \cap conns' = {v \in Writers : wpc'[v] \in InTransaction}
          /\ rpc' \in [Readers -> {"idle", "conn", "reconn", "answered", "failed"}
                                     \cup ReaderHolds]
      BY <1>6, <1>t, <2>2, ReaderConns DEF QueryBegin, wvars, ReaderHolds
    <2>4. QED  BY <1>6, <1>t, <2>2, <2>3 DEF VerifyTypeOK, TypeOK, QueryBegin, wvars
  <1>7. ASSUME NEW r \in Readers, QueryAcquire(r) \/ VerifyAcquire(r) PROVE VerifyTypeOK'
    <2>1. PICK s \in ReaderHolds : rpc' = [rpc EXCEPT ![r] = s]
      BY <1>7 DEF QueryAcquire, VerifyAcquire, ReaderHolds
    <2>2. Cardinality(conns) < PoolSize /\ conns' = conns \cup {r}
      BY <1>7 DEF QueryAcquire, VerifyAcquire, TakeConn
    <2>3. UNCHANGED <<log, nextseq, lock, wpc, prev, new,
                      page, todo, verdict, broken, epc, sent, changed, known>>
      BY <1>7 DEF QueryAcquire, VerifyAcquire
    <2>4. /\ conns' = {v \in Writers : wpc'[v] \in InTransaction}
                       \cup {x \in Readers : rpc'[x] \in ReaderHolds}
                       \cup {e \in Exports : epc'[e] = "stream"}
          /\ Writers \cap conns' = {v \in Writers : wpc'[v] \in InTransaction}
          /\ rpc' \in [Readers -> {"idle", "conn", "reconn", "answered", "failed"}
                                     \cup ReaderHolds]
      BY <1>t, <2>1, <2>2, <2>3, ReaderConns
    <2>5. IsFiniteSet(conns') /\ Cardinality(conns') <= PoolSize
      BY <1>t, <2>2, ConnTaken
    <2>6. QED  BY <1>t, <2>3, <2>4, <2>5 DEF VerifyTypeOK, TypeOK
  <1>8. ASSUME NEW r \in Readers, NEW s \in {"reconn", "answered", "failed"},
               rpc' = [rpc EXCEPT ![r] = s], conns' = conns \ {r},
               UNCHANGED <<log, nextseq, lock, wpc, prev, new, epc, sent, changed>>,
               \/ UNCHANGED <<page, todo, known>>
               \/ \E rows \in SUBSET log : /\ page' = [page EXCEPT ![r] = rows]
                                           /\ todo' = [todo EXCEPT ![r] = rows]
                                           /\ known' = [known EXCEPT ![r] = changed],
               verdict' \in [Readers -> {"none", "pass", "fail"}],
               broken' \in [Readers -> 0..MaxSeq]
        PROVE  VerifyTypeOK'
    <2>1. /\ conns' = {v \in Writers : wpc'[v] \in InTransaction}
                       \cup {x \in Readers : rpc'[x] \in ReaderHolds}
                       \cup {e \in Exports : epc'[e] = "stream"}
          /\ Writers \cap conns' = {v \in Writers : wpc'[v] \in InTransaction}
          /\ rpc' \in [Readers -> {"idle", "conn", "reconn", "answered", "failed"}
                                     \cup ReaderHolds]
      BY <1>8, <1>t, ReaderConns DEF ReaderHolds
    <2>2. IsFiniteSet(conns') /\ Cardinality(conns') <= PoolSize
      BY <1>8, <1>t, ConnDropped
    <2>3. /\ DOMAIN page' = Readers /\ DOMAIN todo' = Readers /\ DOMAIN known' = Readers
          /\ \A x \in Readers : todo'[x] \subseteq page'[x] /\ known'[x] \subseteq changed'
          /\ \A x \in Readers : \A row \in page'[x] : row.seq \in 1..MaxSeq
      BY <1>8, <1>t DEF VerifyTypeOK, TypeOK
    <2>4. QED  BY <1>8, <1>t, <2>1, <2>2, <2>3 DEF VerifyTypeOK, TypeOK
  <1>9. ASSUME NEW r \in Readers, Fetch(r) PROVE VerifyTypeOK'
    BY <1>8, <1>9, <1>t DEF Fetch, DropConn, VerifyTypeOK
  <1>10. ASSUME NEW r \in Readers, VerifyRow(r) PROVE VerifyTypeOK'
    <2> DEFINE row == CHOOSE x \in todo[r] : \A y \in todo[r] : x.seq <= y.seq
    <2>1. row \in todo[r]
      BY <1>10, <1>t, FirstTodo DEF VerifyRow
    <2>2. row.seq \in 0..MaxSeq
      BY <1>t, <2>1 DEF VerifyTypeOK
    <2>3. \/ /\ todo' = [todo EXCEPT ![r] = @ \ {row}]
             /\ UNCHANGED <<rpc, verdict, broken, conns>>
          \/ /\ verdict' = [verdict EXCEPT ![r] = "fail"]
             /\ broken' = [broken EXCEPT ![r] = row.seq]
             /\ rpc' = [rpc EXCEPT ![r] = "answered"]
             /\ DropConn(r)
             /\ UNCHANGED todo
      BY <1>10 DEF VerifyRow
    <2>4. UNCHANGED <<log, nextseq, lock, wpc, prev, new, page, epc, sent, changed, known>>
      BY <1>10 DEF VerifyRow
    <2> HIDE DEF row
    <2>5. CASE todo' = [todo EXCEPT ![r] = @ \ {row}] /\ UNCHANGED <<rpc, verdict, broken, conns>>
      BY <1>t, <2>4, <2>5 DEF VerifyTypeOK, TypeOK
    <2>6. CASE /\ verdict' = [verdict EXCEPT ![r] = "fail"]
               /\ broken' = [broken EXCEPT ![r] = row.seq]
               /\ rpc' = [rpc EXCEPT ![r] = "answered"]
               /\ DropConn(r)
               /\ UNCHANGED todo
      <3>1. verdict' \in [Readers -> {"none", "pass", "fail"}] /\ broken' \in [Readers -> 0..MaxSeq]
        BY <1>t, <2>2, <2>6 DEF VerifyTypeOK
      <3>2. QED  BY <1>8, <2>4, <2>6, <3>1 DEF DropConn
    <2>7. QED  BY <2>3, <2>5, <2>6
  <1>11. ASSUME NEW r \in Readers, VerifyEnds(r) \/ QueryFails(r) PROVE VerifyTypeOK'
    <2>1. verdict' \in [Readers -> {"none", "pass", "fail"}] /\ broken' \in [Readers -> 0..MaxSeq]
      BY <1>11, <1>t DEF VerifyTypeOK, VerifyEnds, QueryFails
    <2>2. QED  BY <1>8, <1>11, <2>1 DEF VerifyEnds, QueryFails, DropConn
  <1>12. ASSUME NEW e \in Exports, ExportBegin(e) PROVE VerifyTypeOK'
    <2>1. /\ conns' = {v \in Writers : wpc'[v] \in InTransaction}
                       \cup {r \in Readers : rpc'[r] \in ReaderHolds}
                       \cup {x \in Exports : epc'[x] = "stream"}
          /\ Writers \cap conns' = {v \in Writers : wpc'[v] \in InTransaction}
          /\ epc' \in [Exports -> {"idle", "stream", "done"}]
      BY <1>12, <1>t, ExportConns DEF ExportBegin, TakeConn
    <2>2. IsFiniteSet(conns') /\ Cardinality(conns') <= PoolSize
      BY <1>12, <1>t, ConnTaken DEF ExportBegin, TakeConn
    <2>3. QED  BY <1>12, <1>t, <2>1, <2>2 DEF VerifyTypeOK, TypeOK, ExportBegin
  <1>13. ASSUME NEW e \in Exports, ExportEnd(e) PROVE VerifyTypeOK'
    <2>1. /\ conns' = {v \in Writers : wpc'[v] \in InTransaction}
                       \cup {r \in Readers : rpc'[r] \in ReaderHolds}
                       \cup {x \in Exports : epc'[x] = "stream"}
          /\ Writers \cap conns' = {v \in Writers : wpc'[v] \in InTransaction}
          /\ epc' \in [Exports -> {"idle", "stream", "done"}]
      BY <1>13, <1>t, ExportConns DEF ExportEnd, DropConn
    <2>2. IsFiniteSet(conns') /\ Cardinality(conns') <= PoolSize
      BY <1>13, <1>t, ConnDropped DEF ExportEnd, DropConn
    <2>3. QED  BY <1>13, <1>t, <2>1, <2>2 DEF VerifyTypeOK, TypeOK, ExportEnd
  <1>14. ASSUME ChangeByHand PROVE VerifyTypeOK'
    <2>1. PICK row, kind, c : ByHand(row, kind, c)
      BY <1>14, ChangeIsByHand
    <2>2. \A q \in log' : q \in log \/ (q = c /\ kind # "delete")
      BY <2>1 DEF ByHand
    <2>3. c.seq = row.seq /\ c.id = row.id
      BY <2>1 DEF ByHand
    <2>4. \A q \in log' : /\ q.seq \in 1..MaxSeq
                          /\ q.id \in Writers
                          /\ q.args \in {"written", "renumbered", "shifted", "changed"}
                          /\ q.result_status \in {"written", "changed"}
      BY <1>t, <2>1, <2>2, <2>3 DEF TypeOK, ByHand
    <2>5. QED  BY <1>t, <2>1, <2>4 DEF VerifyTypeOK, TypeOK, ByHand
  <1>15. QED
    BY <1>1, <1>2, <1>3, <1>4, <1>5, <1>6, <1>7, <1>9, <1>10, <1>11, <1>12, <1>13, <1>14
       DEF Next, WriterNext, WriterStep, QueryStep

\* Everything but the writers and the changes leaves the table alone.
LEMMA TableSteps ==
    ASSUME [Next]_vars
    PROVE  \/ UNCHANGED <<log, nextseq, lock, wpc, prev, new, changed>>
           \/ ChangeByHand
           \/ /\ UNCHANGED rvars
              /\ \E w \in Writers :
                    \/ Begin(w)
                    \/ Acquire(w)
                    \/ Lock(w)
                    \/ ReadPrev(w)
                    \/ Insert(w)
                    \/ \E s \in {"done", "failed"} :
                          /\ EndTransaction(w, s)
                          /\ \/ wpc[w] \in InTransaction /\ s = "failed" /\ UNCHANGED log
                             \/ wpc[w] = "commit" /\ log' = log \cup {new[w]}
  <1>1. CASE UNCHANGED vars
    BY <1>1 DEF vars, wvars, rvars
  <1>2. CASE WriterNext /\ UNCHANGED rvars
    BY <1>2 DEF WriterNext, WriterStep, Commit, Fail
  <1>3. ASSUME NEW r \in Readers, QueryBegin(r) \/ QueryStep(r) \/ QueryFails(r)
        PROVE  UNCHANGED <<log, nextseq, lock, wpc, prev, new, changed>>
    BY <1>3 DEF QueryBegin, QueryStep, QueryFails, QueryAcquire, Fetch, VerifyAcquire,
                VerifyRow, VerifyEnds, wvars
  <1>4. ASSUME NEW e \in Exports, ExportBegin(e) \/ ExportEnd(e)
        PROVE  UNCHANGED <<log, nextseq, lock, wpc, prev, new, changed>>
    BY <1>4 DEF ExportBegin, ExportEnd
  <1>5. QED  BY <1>1, <1>2, <1>3, <1>4 DEF Next

LEMMA RowsInit == Init => RowsInv
  BY VerifyTypeInit DEF Init, WriterInit, RowsInv

LEMMA RowsStep == RowsInv /\ [Next]_vars => RowsInv'
  <1> SUFFICES ASSUME RowsInv, [Next]_vars PROVE RowsInv'
    OBVIOUS
  <1>t. VerifyTypeOK /\ TypeOK
    BY DEF RowsInv, VerifyTypeOK
  <1>n. VerifyTypeOK'
    BY VerifyTypeStep
  <1>1. CASE UNCHANGED <<log, nextseq, lock, wpc, prev, new, changed>>
    BY <1>1, <1>n DEF RowsInv
  <1>2. ASSUME NEW w \in Writers, Begin(w) \/ Acquire(w), UNCHANGED rvars PROVE RowsInv'
    <2>1. /\ UNCHANGED <<log, nextseq, lock, prev, new, changed>>
          /\ wpc[w] \notin {"read", "insert", "commit", "done", "failed"}
          /\ wpc'[w] \notin {"read", "insert", "commit", "done", "failed"}
          /\ \A v \in Writers : v # w => wpc'[v] = wpc[v]
      BY <1>2, <1>t DEF Begin, Acquire, TypeOK, rvars
    <2>2. \A row \in log : row.id \in Writers
      BY <1>t DEF TypeOK
    <2>3. \A row \in log : wpc'[row.id] \in {"done", "failed"}
      BY <2>1, <2>2 DEF RowsInv
    <2>4. QED  BY <1>n, <2>1, <2>3 DEF RowsInv
  <1>3. ASSUME NEW w \in Writers, Lock(w), UNCHANGED rvars PROVE RowsInv'
    <2>1. /\ UNCHANGED <<log, nextseq, prev, new, changed>>
          /\ lock = {} /\ lock' = {w}
          /\ wpc[w] = "lock" /\ wpc'[w] = "read"
          /\ \A v \in Writers : v # w => wpc'[v] = wpc[v]
      BY <1>3, <1>t DEF Lock, TypeOK, rvars
    <2>2. \A row \in log : row.id \in Writers
      BY <1>t DEF TypeOK
    <2>3. \A row \in log : wpc'[row.id] \in {"done", "failed"}
      BY <2>1, <2>2 DEF RowsInv
    <2>4. \A v \in Writers : wpc[v] \notin {"read", "insert", "commit"}
      BY <2>1 DEF RowsInv
    <2>5. QED  BY <1>n, <2>1, <2>3, <2>4 DEF RowsInv
  <1>4. ASSUME NEW w \in Writers, ReadPrev(w), UNCHANGED rvars PROVE RowsInv'
    <2>1. /\ UNCHANGED <<log, nextseq, lock, new, changed>>
          /\ wpc[w] = "read" /\ wpc'[w] = "insert"
          /\ \A v \in Writers : v # w => wpc'[v] = wpc[v] /\ prev'[v] = prev[v]
      BY <1>4, <1>t DEF ReadPrev, TypeOK, rvars
    <2>2. \A row \in log : row.id \in Writers
      BY <1>t DEF TypeOK
    <2>3. \A row \in log : wpc'[row.id] \in {"done", "failed"}
      BY <2>1, <2>2 DEF RowsInv
    <2>4. QED  BY <1>n, <2>1, <2>3 DEF RowsInv
  <1>5. ASSUME NEW w \in Writers, Insert(w), UNCHANGED rvars PROVE RowsInv'
    <2>1. /\ UNCHANGED <<log, lock, prev, changed>>
          /\ nextseq' = nextseq + 1 /\ nextseq \in Nat /\ nextseq > 0
          /\ wpc[w] = "insert" /\ wpc'[w] = "commit"
          /\ \A v \in Writers : v # w => wpc'[v] = wpc[v]
          /\ new'[w] = [seq |-> nextseq, id |-> w, args |-> Jsonb(w),
                        result_status |-> "written",
                        row_hash |-> RowHash(prev[w], w, "written")]
      BY <1>5, <1>t, AuditAssumption DEF Insert, TypeOK, rvars, AuditAssumption
    <2>2. \A row \in log : row.id \in Writers /\ row.seq \in Nat /\ row.seq < nextseq
      BY <1>t, AuditAssumption DEF TypeOK, RowsInv, AuditAssumption
    <2>3. \A row \in log : wpc'[row.id] \in {"done", "failed"} /\ row.seq < nextseq'
      BY <2>1, <2>2 DEF RowsInv
    <2>4. \A v \in Writers : v # w => wpc'[v] \notin {"read", "insert", "commit"}
      BY <2>1 DEF RowsInv
    <2>5. \A x \in changed : /\ x.kind \in {"args", "shift", "status", "rewrite", "delete"}
                             /\ x.seq \in 1..(nextseq' - 1)
                             /\ x.seq < nextseq' - 1
                             /\ x.linked => x.seq + 1 < nextseq' - 1
                             /\ x.linked => x.seq + 1 < nextseq'
      BY <2>1 DEF RowsInv
    <2>6. new'[w] = [seq |-> nextseq' - 1, id |-> w, args |-> Jsonb(w),
                     result_status |-> "written",
                     row_hash |-> RowHash(prev'[w], w, "written")]
      BY <2>1
    <2>7. \A row \in log' : row.seq < nextseq' - 1
      BY <2>1, <2>2
    <2>8. \A v \in Writers : wpc'[v] = "commit" => v = w
      BY <2>4
    <2>9. \A v \in Writers : v \in lock' <=> wpc'[v] \in {"read", "insert", "commit"}
      BY <2>1 DEF RowsInv
    <2>10. nextseq' > 1
      BY <2>1
    <2>11. \A v \in Writers : wpc'[v] = "commit" =>
              /\ nextseq' > 1
              /\ new'[v] = [seq |-> nextseq' - 1, id |-> v, args |-> Jsonb(v),
                            result_status |-> "written",
                            row_hash |-> RowHash(prev'[v], v, "written")]
              /\ \A row \in log' : row.seq < nextseq' - 1
              /\ \A x \in changed' : /\ x.seq < nextseq' - 1
                                     /\ x.linked => x.seq + 1 < nextseq' - 1
      BY <2>1, <2>5, <2>6, <2>7, <2>8, <2>10
    <2>12. /\ \A v, u \in lock' : v = u
           /\ \A row \in log' :
                 row = [seq |-> row.seq, id |-> row.id, args |-> row.args,
                        result_status |-> row.result_status, row_hash |-> row.row_hash]
           /\ \A q, u \in log' : q.seq = u.seq \/ q.id = u.id => q = u
      BY <2>1 DEF RowsInv
    <2>13. \A x \in changed' : /\ x.kind \in {"args", "shift", "status", "rewrite", "delete"}
                               /\ x.seq \in 1..(nextseq' - 1)
                               /\ x.linked => x.seq + 1 < nextseq'
      BY <2>1, <2>5
    <2>14. QED
      BY <1>n, <2>1, <2>3, <2>9, <2>11, <2>12, <2>13 DEF RowsInv
  <1>6. ASSUME NEW w \in Writers, NEW s \in {"done", "failed"}, EndTransaction(w, s),
               wpc[w] \in InTransaction,
               \/ UNCHANGED log
               \/ wpc[w] = "commit" /\ log' = log \cup {new[w]},
               UNCHANGED rvars
        PROVE  RowsInv'
    <2>1. /\ UNCHANGED <<nextseq, prev, new, changed>>
          /\ lock' = lock \ {w}
          /\ wpc'[w] = s
          /\ \A v \in Writers : v # w => wpc'[v] = wpc[v]
      BY <1>6, <1>t DEF EndTransaction, TypeOK, rvars
    <2>2. \A v \in Writers : v \in lock' <=> wpc'[v] \in {"read", "insert", "commit"}
      BY <2>1 DEF RowsInv
    <2>3. \A row \in log : row.id \in Writers /\ row.seq \in Nat
      BY <1>t, AuditAssumption DEF TypeOK, AuditAssumption
    <2>4. \A row \in log : wpc'[row.id] \in {"done", "failed"} /\ row.id # w
      BY <1>6, <2>1, <2>3 DEF RowsInv, InTransaction
    <2>5. CASE UNCHANGED log
      BY <1>n, <2>1, <2>2, <2>4, <2>5 DEF RowsInv
    <2>6. CASE wpc[w] = "commit" /\ log' = log \cup {new[w]}
      <3>1. /\ nextseq > 1
            /\ new[w] = [seq |-> nextseq - 1, id |-> w, args |-> Jsonb(w),
                         result_status |-> "written",
                         row_hash |-> RowHash(prev[w], w, "written")]
            /\ \A row \in log : row.seq < nextseq - 1
        BY <2>6 DEF RowsInv
      <3>2. /\ new[w].seq = nextseq - 1 /\ new[w].id = w
            /\ new[w] = [seq |-> new[w].seq, id |-> new[w].id, args |-> new[w].args,
                         result_status |-> new[w].result_status,
                         row_hash |-> new[w].row_hash]
        BY <3>1
      <3>3. nextseq \in Nat
        BY <1>t, AuditAssumption DEF TypeOK, AuditAssumption
      <3>4. \A v \in Writers : wpc'[v] \notin {"read", "insert", "commit"}
        BY <2>1, <2>6 DEF RowsInv
      <3>5. \A row \in log' :
               /\ row = [seq |-> row.seq, id |-> row.id, args |-> row.args,
                         result_status |-> row.result_status, row_hash |-> row.row_hash]
               /\ row.seq < nextseq'
               /\ wpc'[row.id] \in {"done", "failed"}
        BY <2>1, <2>4, <2>6, <3>2, <3>3 DEF RowsInv
      <3>6. \A q, u \in log' : q.seq = u.seq \/ q.id = u.id => q = u
        BY <2>3, <2>4, <2>6, <3>1, <3>2, <3>3 DEF RowsInv
      <3>7. QED  BY <1>n, <2>1, <2>2, <3>4, <3>5, <3>6 DEF RowsInv
    <2>7. QED  BY <1>6, <2>5, <2>6
  <1>7. ASSUME ChangeByHand PROVE RowsInv'
    <2>1. PICK row, kind, c : ByHand(row, kind, c)
      BY <1>7, ChangeIsByHand
    <2> DEFINE x == [kind |-> kind, seq |-> row.seq, was |-> row.row_hash,
                     linked |-> \E q \in log : q.seq = row.seq + 1]
    <2>2. /\ row \in log
          /\ UNCHANGED <<nextseq, lock, wpc, prev, new>>
          /\ changed' = changed \cup {x}
          /\ kind \in {"args", "shift", "status", "rewrite", "delete"}
          /\ c = [seq |-> c.seq, id |-> c.id, args |-> c.args,
                  result_status |-> c.result_status, row_hash |-> c.row_hash]
          /\ c.seq = row.seq /\ c.id = row.id
      BY <2>1 DEF ByHand
    <2>3. \A q \in log' : q \in log \ {row} \/ q = c
      BY <2>1 DEF ByHand
    <2>4. \A q \in log : q.seq \in Nat /\ q.seq > 0 /\ q.seq < nextseq
      BY <1>t, AuditAssumption DEF TypeOK, AuditAssumption, RowsInv
    <2>5. nextseq \in Nat
      BY <1>t, AuditAssumption DEF TypeOK, AuditAssumption
    <2>6. /\ x.kind = kind /\ x.seq = row.seq
          /\ x.linked => \E q \in log : q.seq = row.seq + 1
      OBVIOUS
    <2> HIDE DEF x
    <2>7. \A y \in changed' : /\ y.kind \in {"args", "shift", "status", "rewrite", "delete"}
                              /\ y.seq \in 1..(nextseq' - 1)
                              /\ y.linked => y.seq + 1 < nextseq'
      BY <2>2, <2>4, <2>5, <2>6 DEF RowsInv
    <2>8. \A q, u \in log' : q.seq = u.seq \/ q.id = u.id => q = u
      BY <2>2, <2>3 DEF RowsInv
    <2>9. \A q \in log' :
             /\ q = [seq |-> q.seq, id |-> q.id, args |-> q.args,
                     result_status |-> q.result_status, row_hash |-> q.row_hash]
             /\ q.seq < nextseq'
             /\ wpc'[q.id] \in {"done", "failed"}
      BY <2>2, <2>3 DEF RowsInv
    <2>10. \A w \in Writers : wpc'[w] = "commit" =>
              /\ nextseq' > 1
              /\ new'[w] = [seq |-> nextseq' - 1, id |-> w, args |-> Jsonb(w),
                           result_status |-> "written",
                           row_hash |-> RowHash(prev'[w], w, "written")]
              /\ \A q \in log' : q.seq < nextseq' - 1
              /\ \A y \in changed' : /\ y.seq < nextseq' - 1
                                     /\ y.linked => y.seq + 1 < nextseq' - 1
      BY <2>2, <2>3, <2>6 DEF RowsInv
    <2>11. QED  BY <1>n, <2>2, <2>7, <2>8, <2>9, <2>10 DEF RowsInv
  <1>8. QED
    <2>1. \A w \in Writers : wpc[w] = "commit" => wpc[w] \in InTransaction
      BY DEF InTransaction
    <2>2. QED
      BY <1>1, <1>2, <1>3, <1>4, <1>5, <1>6, <1>7, <2>1, TableSteps

\* The pool bound, the rows and the writers, for every instance.
THEOREM VerifyTypeCorrect == Spec => []VerifyTypeOK
  <1>1. RowsInv => VerifyTypeOK
    BY DEF RowsInv
  <1>2. QED  BY <1>1, RowsInit, RowsStep, PTL DEF Spec

-----------------------------------------------------------------------------
\* What a digest was computed over can be told from it.
LEMMA HashParts ==
    ASSUME NEW p, NEW i, NEW a
    PROVE  /\ RowHash(p, i, a)[1] = p
           /\ RowHash(p, i, a)[2] = i
           /\ RowHash(p, i, a)[3] = Payload(a)
           /\ a \in {"written", "changed"} => RowHash(p, i, a) = <<p, i, a>>
           /\ RowHash(p, i, a) # GENESIS_HASH
  BY DEF RowHash, GENESIS_HASH, Payload

\* LIMIT 1 returns GENESIS_HASH's place or a row with the largest seq.
LEMMA LastHashCases ==
    ASSUME NEW rows, NEW b \in Nat, \A q \in rows : q.seq \in 0..b
    PROVE  \/ rows = {} /\ LastHash(rows) = GENESIS_HASH
           \/ \E m \in rows : /\ \A q \in rows : q.seq <= m.seq
                              /\ LastHash(rows) = m.row_hash
  <1> DEFINE T == {q.seq : q \in rows}
             m == CHOOSE x \in rows : \A q \in rows : q.seq <= x.seq
  <1>1. CASE rows = {}
    BY <1>1 DEF LastHash
  <1>2. CASE rows # {}
    <2>1. T \subseteq 0..b /\ T # {}
      BY <1>2
    <2>2. PICK n \in T : \A k \in T : k <= n
      <3> HIDE DEF T
      <3> QED BY <2>1, LargestNat
    <2>3. \E x \in rows : \A q \in rows : q.seq <= x.seq
      BY <2>2
    <2>4. m \in rows /\ \A q \in rows : q.seq <= m.seq
      BY <2>3
    <2>5. LastHash(rows) = m.row_hash
      BY <1>2 DEF LastHash
    <2>6. QED  BY <2>4, <2>5
  <1>3. QED  BY <1>1, <1>2

LEMMA LogSeqs ==
    ASSUME RowsInv
    PROVE  /\ \A q \in log : q.seq \in Nat \ {0} /\ q.seq \in 0..MaxSeq /\ q.id \in Writers
           /\ MaxSeq \in Nat
           /\ nextseq \in Nat \ {0}
  BY AuditAssumption DEF RowsInv, VerifyTypeOK, TypeOK, AuditAssumption

\* A change by hand keeps the hash that a row at n is to be hashed over, or
\* supersedes it.
LEMMA LastHashBelow ==
    ASSUME RowsInv, NEW row, NEW kind, NEW c, ByHand(row, kind, c), NEW n \in Int
    PROVE  \/ LastHash(Before(log', n)) = LastHash(Before(log, n))
           \/ LastHash(Before(log, n)) = row.row_hash /\ kind \in {"rewrite", "delete"}
  <1> DEFINE B == Before(log, n)
             D == Before(log', n)
  <1>1. /\ row \in log
        /\ c.seq = row.seq
        /\ kind = "delete" => log' = log \ {row}
        /\ kind # "delete" => log' = (log \ {row}) \cup {c}
        /\ kind # "rewrite" => c.row_hash = row.row_hash
        /\ kind \in {"args", "shift", "status", "rewrite", "delete"}
    BY DEF ByHand
  <1>2. /\ \A q \in log : q.seq \in Nat /\ q.seq \in 0..MaxSeq
        /\ MaxSeq \in Nat
    BY LogSeqs
  <1>3. \A q, u \in log : q.seq = u.seq => q = u
    BY DEF RowsInv
  <1>4. \A q \in D : q.seq \in Int /\ q.seq < n /\ (q \in log \ {row} \/ q = c)
    BY <1>1, <1>2 DEF Before
  <1>5. \A q \in D : q \in B \/ (q = c /\ row \in B)
    BY <1>1, <1>4 DEF Before
  <1>6. ASSUME B = {} PROVE LastHash(D) = LastHash(B)
    <2>1. D = {}
      BY <1>5, <1>6
    <2>2. QED  BY <1>6, <2>1
  <1>7. ASSUME NEW m \in B, \A q \in B : q.seq <= m.seq, LastHash(B) = m.row_hash, m # row
        PROVE  LastHash(D) = m.row_hash
    <2>1. m \in D
      BY <1>1, <1>7 DEF Before
    <2>2. \A q \in B : q # m => q.seq < m.seq
      BY <1>2, <1>3, <1>7 DEF Before
    <2>3. \A q \in D : q # m => q.seq < m.seq
      BY <1>1, <1>5, <1>7, <2>2
    <2> HIDE DEF D, B
    <2>4. QED  BY <1>4, <2>1, <2>3, LastHashOfMax
  <1>8. ASSUME row \in B, \A q \in B : q.seq <= row.seq, kind \in {"args", "shift", "status"}
        PROVE  LastHash(D) = row.row_hash
    <2>1. c \in D
      BY <1>1, <1>8 DEF Before
    <2>2. \A q \in D : q # c => q \in B /\ q # row
      BY <1>4 DEF Before
    <2>3. \A q \in D : q # c => q.seq < c.seq
      BY <1>1, <1>2, <1>3, <1>8, <2>2 DEF Before
    <2> HIDE DEF D, B
    <2>4. LastHash(D) = c.row_hash
      BY <1>4, <2>1, <2>3, LastHashOfMax
    <2>5. QED  BY <1>1, <1>8, <2>4
  <1>9. \A q \in B : q.seq \in 0..MaxSeq
    BY <1>2 DEF Before
  <1> HIDE DEF B, D
  <1>10. \/ B = {} /\ LastHash(B) = GENESIS_HASH
         \/ \E m \in B : (\A q \in B : q.seq <= m.seq) /\ LastHash(B) = m.row_hash
    BY <1>2, <1>9, LastHashCases
  <1>11. LastHash(D) = LastHash(B) \/ (LastHash(B) = row.row_hash /\ kind \in {"rewrite", "delete"})
    BY <1>1, <1>6, <1>7, <1>8, <1>10
  <1>12. QED  BY <1>11 DEF B, D

\* The hash the row at n is to be hashed over is not a superseded one.
LEMMA LastHashFresh ==
    ASSUME RowsInv, HashInv, NEW n
    PROVE  LastHash(Before(log, n)) \notin Superseded
  <1> DEFINE B == Before(log, n)
  <1>1. \A q \in B : q \in log /\ q.seq \in 0..MaxSeq
    BY LogSeqs DEF Before
  <1> HIDE DEF B
  <1>2. MaxSeq \in Nat
    BY LogSeqs
  <1>3. CASE LastHash(B) = GENESIS_HASH
    <2>1. \A h \in Superseded : h = <<h[1], h[2], h[3]>>
      BY DEF HashInv, HashOfRow
    <2>2. QED  BY <1>3, <2>1 DEF B, GENESIS_HASH
  <1>4. CASE \E m \in B : LastHash(B) = m.row_hash
    BY <1>1, <1>4 DEF HashInv, B
  <1>5. QED  BY <1>1, <1>2, <1>3, <1>4, LastHashCases

\* A page holds rows that were there when it was fetched.
LEMMA PageFetched ==
    ASSUME VerifyTypeOK, [Next]_vars, NEW r \in Readers
    PROVE  \/ page'[r] = page[r] /\ known'[r] = known[r]
           \/ page'[r] \subseteq log /\ known'[r] = changed /\ UNCHANGED log
  <1>1. CASE UNCHANGED vars \/ (WriterNext /\ UNCHANGED rvars) \/ ChangeByHand
    BY <1>1 DEF vars, rvars, ChangeByHand
  <1>2. ASSUME NEW x \in Readers, Fetch(x)
        PROVE  \/ page'[r] = page[r] /\ known'[r] = known[r]
               \/ page'[r] \subseteq log /\ known'[r] = changed /\ UNCHANGED log
    BY <1>2 DEF Fetch, VerifyTypeOK
  <1>3. ASSUME NEW x \in Readers, \/ QueryBegin(x) \/ QueryAcquire(x) \/ VerifyAcquire(x)
                                  \/ VerifyRow(x) \/ VerifyEnds(x) \/ QueryFails(x)
        PROVE  UNCHANGED <<page, known>>
    BY <1>3 DEF QueryBegin, QueryAcquire, VerifyAcquire, VerifyRow, VerifyEnds, QueryFails
  <1>4. ASSUME NEW e \in Exports, ExportBegin(e) \/ ExportEnd(e)
        PROVE  UNCHANGED <<page, known>>
    BY <1>4 DEF ExportBegin, ExportEnd
  <1>5. QED  BY <1>1, <1>2, <1>3, <1>4 DEF Next, QueryStep

\* The pages keep fitting what was known when they were fetched.
LEMMA PagesFit ==
    ASSUME VerifyTypeOK, HashInv, [Next]_vars, Superseded \subseteq Superseded'
    PROVE  (\A r \in Readers : \A row \in page[r] : RowFits(row, known[r]))'
  <1>1. SUFFICES ASSUME NEW r \in Readers, NEW row \in page'[r]
                 PROVE  RowFits(row, known[r])'
    OBVIOUS
  <1>2. \/ page'[r] = page[r] /\ known'[r] = known[r]
        \/ page'[r] \subseteq log /\ known'[r] = changed
    BY PageFetched
  <1>3. CASE page'[r] = page[r] /\ known'[r] = known[r]
    <2>1. RowFits(row, known[r])
      BY <1>3 DEF HashInv
    <2>2. QED  BY <1>3, <2>1 DEF RowFits
  <1>4. CASE page'[r] \subseteq log /\ known'[r] = changed
    <2>1. RowFits(row, changed)
      BY <1>4 DEF HashInv
    <2>2. QED  BY <1>4, <2>1 DEF RowFits
  <1>5. QED  BY <1>2, <1>3, <1>4

\* What a change by hand adds to the history.
LEMMA ChangeRecorded ==
    ASSUME NEW row, NEW kind, NEW c, ByHand(row, kind, c)
    PROVE  /\ Superseded' = IF kind \in {"rewrite", "delete"}
                            THEN Superseded \cup {row.row_hash} ELSE Superseded
           /\ \A n : Rewritten(changed', n) <=>
                        Rewritten(changed, n) \/ (kind = "rewrite" /\ row.seq = n)
           /\ \A n : Undercut(changed', n) =>
                        \/ Undercut(changed, n)
                        \/ kind \in {"rewrite", "delete"} /\ row.seq = n - 1
  <1> DEFINE x == [kind |-> kind, seq |-> row.seq, was |-> row.row_hash,
                   linked |-> \E q \in log : q.seq = row.seq + 1]
  <1>1. changed' = changed \cup {x}
    BY DEF ByHand
  <1>2. x.kind = kind /\ x.seq = row.seq /\ x.was = row.row_hash
    OBVIOUS
  <1> HIDE DEF x
  <1>3. Superseded' = IF kind \in {"rewrite", "delete"}
                      THEN Superseded \cup {row.row_hash} ELSE Superseded
    BY <1>1, <1>2 DEF Superseded
  <1>4. \A n : Rewritten(changed', n) <=>
                  Rewritten(changed, n) \/ (kind = "rewrite" /\ row.seq = n)
    BY <1>1, <1>2 DEF Rewritten
  <1>5. \A n : Undercut(changed', n) =>
                  \/ Undercut(changed, n)
                  \/ kind \in {"rewrite", "delete"} /\ row.seq = n - 1
    BY <1>1, <1>2 DEF Undercut
  <1>6. QED  BY <1>3, <1>4, <1>5

\* The parts of HashInv, as the steps below prove them.
RowHashed(row) ==
    /\ RowFits(row, changed)
    /\ row.row_hash[3] = "changed" => row.args = "changed"
    /\ row.row_hash \notin Superseded
    /\ row.row_hash[1] \in {LastHash(Before(log, row.seq))} \cup Superseded

PrevHashed(w) ==
    wpc[w] \in {"insert", "commit"} => prev[w] \in {LastHash(log)} \cup Superseded

WasHashed(h) ==
    /\ h[2] \in Writers
    /\ HashOfRow(h, h[2])
    /\ wpc[h[2]] \in {"done", "failed"}
    /\ h[3] = "changed" => h[1] \in Superseded \/ \A row \in log : row.id # h[2]

\* No change by hand brings a superseded hash back.
LEMMA ChangeKeepsHashes ==
    ASSUME RowsInv, HashInv, NEW row, NEW kind, NEW c, ByHand(row, kind, c)
    PROVE  /\ \A q \in log' : RowHashed(q)'
           /\ \A w \in Writers : PrevHashed(w)'
           /\ \A h \in Superseded' : WasHashed(h)'
           /\ Superseded \subseteq Superseded'
  <1> DEFINE v == LastHash(Before(log, row.seq))
  <1>1. /\ row \in log
        /\ c.seq = row.seq /\ c.id = row.id
        /\ kind \in {"args", "shift", "status", "rewrite", "delete"}
        /\ UNCHANGED <<nextseq, wpc, prev>>
        /\ kind = "delete" => log' = log \ {row}
        /\ kind # "delete" => c # row /\ log' = (log \ {row}) \cup {c}
        /\ kind # "rewrite" => c.row_hash = row.row_hash
        /\ kind = "rewrite" => c.args = "changed" /\ c.row_hash = RowHash(v, row.id, "changed")
        /\ row.args = "changed" => c.args = "changed"
    BY DEF ByHand
  <1>2. /\ \A q \in log : q.seq \in Nat \ {0} /\ q.id \in Writers /\ q.seq < nextseq
        /\ \A q, u \in log : q.seq = u.seq \/ q.id = u.id => q = u
        /\ nextseq \in Nat
    BY LogSeqs DEF RowsInv
  <1>3. \A q \in log : RowHashed(q) /\ q.row_hash = <<q.row_hash[1], q.id, q.row_hash[3]>>
    BY DEF HashInv, RowHashed, RowFits, HashOfRow
  <1>4. /\ Superseded' = IF kind \in {"rewrite", "delete"}
                         THEN Superseded \cup {row.row_hash} ELSE Superseded
        /\ \A n : Rewritten(changed', n) <=>
                     Rewritten(changed, n) \/ (kind = "rewrite" /\ row.seq = n)
        /\ \A n : Undercut(changed', n) =>
                     \/ Undercut(changed, n)
                     \/ kind \in {"rewrite", "delete"} /\ row.seq = n - 1
    BY ChangeRecorded
  <1>5. v \notin Superseded
    BY LastHashFresh
  <1>6. kind = "rewrite" => c.row_hash # row.row_hash
    <2>1. SUFFICES ASSUME kind = "rewrite", c.row_hash = row.row_hash PROVE FALSE
      OBVIOUS
    <2>2. row.row_hash[3] = "changed"
      BY <1>1, <2>1, HashParts
    <2>3. row.args = "changed"
      BY <1>1, <1>3, <2>2 DEF RowHashed
    <2>4. /\ row = [seq |-> row.seq, id |-> row.id, args |-> row.args,
                    result_status |-> row.result_status, row_hash |-> row.row_hash]
          /\ c = [seq |-> row.seq, id |-> row.id, args |-> c.args,
                  result_status |-> c.result_status, row_hash |-> c.row_hash]
          /\ c.result_status = row.result_status
      BY <1>1, <2>1 DEF RowsInv, ByHand
    <2>5. QED  BY <1>1, <2>1, <2>3, <2>4
  <1>7. kind = "rewrite" => c.row_hash \notin Superseded
    <2>1. SUFFICES ASSUME kind = "rewrite", c.row_hash \in Superseded PROVE FALSE
      OBVIOUS
    <2>2. c.row_hash[1] = v /\ c.row_hash[2] = row.id /\ c.row_hash[3] = "changed"
      BY <1>1, <2>1, HashParts
    <2>3. v \in Superseded \/ \A q \in log : q.id # row.id
      BY <2>1, <2>2 DEF HashInv
    <2>4. QED  BY <1>1, <1>5, <2>3
  <1>8. \A q \in log : q # row => q.row_hash # row.row_hash
    BY <1>1, <1>2, <1>3, HashParts
  <1>9. \A n \in Int : LastHash(Before(log, n)) \in {LastHash(Before(log', n))} \cup Superseded'
    BY <1>4, LastHashBelow
  <1>10. Before(log', row.seq) = Before(log, row.seq)
    BY <1>1, <1>2 DEF Before
  <1> HIDE DEF v
  <1>11. ASSUME NEW q \in log, q # row PROVE RowHashed(q)'
    <2>1. /\ HashOfRow(q.row_hash, q.id)
          /\ q.row_hash[3] = "changed" => q.args = "changed"
      BY <1>3 DEF RowHashed, RowFits
    <2>2. q.row_hash \notin Superseded'
      BY <1>3, <1>4, <1>8, <1>11 DEF RowHashed
    <2>3. q.row_hash[1] \in {LastHash(Before(log', q.seq))} \cup Superseded'
      <3>1. q.row_hash[1] \in {LastHash(Before(log, q.seq))} \cup Superseded
        BY <1>3 DEF RowHashed
      <3>2. QED  BY <1>2, <1>4, <1>9, <3>1
    <2>4. ASSUME ~ Rewritten(changed', q.seq), Undercut(changed', q.seq)
          PROVE  q.row_hash[1] \in Superseded'
      <3>1. ~ Rewritten(changed, q.seq)
        BY <1>4, <2>4
      <3>2. CASE Undercut(changed, q.seq)
        BY <1>3, <1>4, <3>1, <3>2 DEF RowHashed, RowFits
      <3>3. CASE kind \in {"rewrite", "delete"} /\ row.seq = q.seq - 1
        <4> DEFINE B == Before(log, q.seq)
        <4>1. row \in B /\ \A u \in B : u.seq \in Int
          BY <1>1, <1>2, <3>3 DEF Before
        <4>2. \A u \in B : u # row => u.seq < row.seq
          BY <1>1, <1>2, <3>3 DEF Before
        <4>3. LastHash(B) = row.row_hash
          <5> HIDE DEF B
          <5> QED BY <4>1, <4>2, LastHashOfMax
        <4>4. QED  BY <1>3, <1>4, <3>3, <4>3 DEF RowHashed
      <3>4. QED  BY <1>4, <2>4, <3>2, <3>3
    <2>5. ~ Rewritten(changed', q.seq) => q.row_hash[3] = "written"
      BY <1>3, <1>4 DEF RowHashed, RowFits
    <2>6. RowFits(q, changed)'
      BY <2>1, <2>4, <2>5 DEF RowFits
    <2>7. QED  BY <2>1, <2>2, <2>3, <2>6 DEF RowHashed
  <1>12. ASSUME kind # "delete" PROVE RowHashed(c)'
    <2>1. CASE kind = "rewrite"
      <3>1. /\ c.row_hash[1] = v /\ c.row_hash[3] = "changed"
            /\ c.row_hash = RowHash(v, c.id, "changed")
        BY <1>1, <2>1, HashParts
      <3>2. HashOfRow(c.row_hash, c.id)
        BY <3>1, HashParts DEF HashOfRow
      <3>3. Rewritten(changed', c.seq)
        BY <1>1, <1>4, <2>1
      <3>4. c.row_hash \notin Superseded'
        BY <1>4, <1>6, <1>7, <2>1
      <3>5. c.row_hash[1] = LastHash(Before(log', c.seq))
        BY <1>1, <1>10, <3>1 DEF v
      <3>6. RowFits(c, changed)'
        BY <3>2, <3>3 DEF RowFits
      <3>7. QED  BY <1>1, <2>1, <3>4, <3>5, <3>6 DEF RowHashed
    <2>2. CASE kind \in {"args", "shift", "status"}
      <3>1. Superseded' = Superseded /\ c.row_hash = row.row_hash
        BY <1>1, <1>4, <2>2
      <3>2. /\ Rewritten(changed', c.seq) <=> Rewritten(changed, row.seq)
            /\ Undercut(changed', c.seq) => Undercut(changed, row.seq)
        BY <1>1, <1>4, <2>2
      <3>3. RowFits(c, changed)'
        <4>1. RowFits(row, changed)
          BY <1>1, <1>3 DEF RowHashed
        <4>2. QED  BY <1>1, <3>1, <3>2, <4>1 DEF RowFits
      <3>4. c.row_hash[3] = "changed" => c.args = "changed"
        BY <1>1, <1>3, <3>1 DEF RowHashed
      <3>5. c.row_hash \notin Superseded'
        BY <1>1, <1>3, <3>1 DEF RowHashed
      <3>6. c.row_hash[1] \in {LastHash(Before(log', c.seq))} \cup Superseded'
        BY <1>1, <1>3, <1>10, <3>1 DEF RowHashed
      <3>7. QED  BY <3>3, <3>4, <3>5, <3>6 DEF RowHashed
    <2>3. QED  BY <1>1, <1>12, <2>1, <2>2
  <1>13. \A q \in log' : RowHashed(q)'
    BY <1>1, <1>11, <1>12
  <1>14. \A w \in Writers : PrevHashed(w)'
    <2>1. Before(log, nextseq) = log /\ Before(log', nextseq) = log'
      BY <1>1, <1>2 DEF Before
    <2>2. LastHash(log) \in {LastHash(log')} \cup Superseded'
      BY <1>2, <1>9, <2>1
    <2>3. QED  BY <1>1, <1>4, <2>2 DEF HashInv, PrevHashed
  <1>15. ASSUME NEW h \in Superseded' PROVE WasHashed(h)'
    <2>1. \A q \in log' : \E u \in log : u.id = q.id
      BY <1>1
    <2>2. CASE h \in Superseded
      BY <1>1, <1>4, <2>1, <2>2 DEF HashInv, WasHashed
    <2>3. CASE h = row.row_hash /\ kind \in {"rewrite", "delete"}
      <3>1. h[2] = row.id /\ HashOfRow(h, row.id)
        BY <1>1, <1>3, <2>3, HashParts DEF RowHashed, RowFits
      <3>2. wpc[row.id] \in {"done", "failed"}
        BY <1>1 DEF RowsInv
      <3>3. h[3] = "changed" => h[1] \in Superseded' \/ \A q \in log' : q.id # row.id
        <4>1. CASE kind = "delete"
          BY <1>1, <1>2, <4>1
        <4>2. CASE kind = "rewrite"
          <5>1. h[1] \in {v} \cup Superseded
            BY <1>1, <1>3, <2>3 DEF RowHashed, v
          <5>2. h[3] = "changed" /\ h[1] = v => h = RowHash(v, row.id, "changed")
            BY <3>1, HashParts DEF HashOfRow
          <5>3. h[3] = "changed" => h[1] # v
            BY <1>1, <1>6, <2>3, <4>2, <5>2
          <5>4. QED  BY <1>4, <4>2, <5>1, <5>3
        <4>3. QED  BY <2>3, <4>1, <4>2
      <3>4. QED  BY <1>1, <1>2, <3>1, <3>2, <3>3 DEF WasHashed
    <2>4. QED  BY <1>4, <1>15, <2>2, <2>3
  <1>16. QED  BY <1>4, <1>13, <1>14, <1>15

LEMMA HashInit == Init => HashInv
  <1> SUFFICES ASSUME Init PROVE HashInv
    OBVIOUS
  <1>1. Superseded = {}
    BY DEF Init, Superseded
  <1>2. log = {} /\ \A r \in Readers : page[r] = {}
    BY DEF Init, WriterInit
  <1>3. \A w \in Writers : wpc[w] = "idle"
    BY DEF Init, WriterInit
  <1>4. QED  BY <1>1, <1>2, <1>3 DEF HashInv

LEMMA HashStep == RowsInv /\ HashInv /\ [Next]_vars => HashInv'
  <1> SUFFICES ASSUME RowsInv, HashInv, [Next]_vars PROVE HashInv'
    OBVIOUS
  <1>t. VerifyTypeOK /\ TypeOK
    BY DEF RowsInv, VerifyTypeOK
  <1>s. /\ \A q \in log : q.seq \in Nat \ {0} /\ q.id \in Writers
        /\ nextseq \in Nat
    BY LogSeqs
  <1>p. ASSUME \A q \in log' : RowHashed(q)',
               \A w \in Writers : PrevHashed(w)',
               \A h \in Superseded' : WasHashed(h)',
               Superseded \subseteq Superseded'
        PROVE  HashInv'
    <2>1. (\A r \in Readers : \A row \in page[r] : RowFits(row, known[r]))'
      BY <1>p, <1>t, PagesFit
    <2>2. QED  BY <1>p, <2>1 DEF HashInv, RowHashed, PrevHashed, WasHashed
  <1>h. /\ \A q \in log : RowHashed(q)
        /\ \A w \in Writers : PrevHashed(w)
        /\ \A h \in Superseded : WasHashed(h)
    BY DEF HashInv, RowHashed, PrevHashed, WasHashed
  <1>1. CASE UNCHANGED <<log, nextseq, lock, wpc, prev, new, changed>>
    <2>1. Superseded' = Superseded
      BY <1>1 DEF Superseded
    <2>2. \A q \in log' : RowHashed(q)'
      BY <1>1, <1>h, <2>1 DEF RowHashed, RowFits
    <2>3. \A w \in Writers : PrevHashed(w)'
      BY <1>1, <1>h, <2>1 DEF PrevHashed
    <2>4. \A h \in Superseded' : WasHashed(h)'
      BY <1>1, <1>h, <2>1 DEF WasHashed
    <2>5. QED  BY <1>p, <2>1, <2>2, <2>3, <2>4
  <1>2. CASE ChangeByHand
    <2>1. PICK row, kind, c : ByHand(row, kind, c)
      BY <1>2, ChangeIsByHand
    <2>2. QED  BY <1>p, <2>1, ChangeKeepsHashes
  <1>3. ASSUME NEW w \in Writers, UNCHANGED rvars, UNCHANGED log,
               \/ Begin(w) \/ Acquire(w) \/ Lock(w) \/ ReadPrev(w) \/ Insert(w)
               \/ \E s \in {"done", "failed"} :
                     EndTransaction(w, s) /\ wpc[w] \in InTransaction
        PROVE  HashInv'
    <2>1. Superseded' = Superseded /\ changed' = changed
      BY <1>3 DEF Superseded, rvars
    <2>2. /\ wpc[w] \notin {"done", "failed"}
          /\ \A u \in Writers : u # w => wpc'[u] = wpc[u] /\ prev'[u] = prev[u]
          /\ wpc'[w] \in {"insert", "commit"} => \/ prev'[w] = LastHash(log)
                                                 \/ wpc[w] = "insert" /\ prev'[w] = prev[w]
      BY <1>3, <1>t DEF Begin, Acquire, Lock, ReadPrev, Insert, EndTransaction, TypeOK,
                        InTransaction
    <2>3. \A q \in log' : RowHashed(q)'
      BY <1>3, <1>h, <2>1 DEF RowHashed, RowFits
    <2>4. \A u \in Writers : PrevHashed(u)'
      BY <1>3, <1>h, <2>1, <2>2 DEF PrevHashed
    <2>5. \A h \in Superseded' : WasHashed(h)'
      BY <1>3, <1>h, <2>1, <2>2 DEF WasHashed
    <2>6. QED  BY <1>p, <2>1, <2>3, <2>4, <2>5
  <1>4. ASSUME NEW w \in Writers, UNCHANGED rvars, wpc[w] = "commit",
               log' = log \cup {new[w]},
               NEW s \in {"done", "failed"}, EndTransaction(w, s)
        PROVE  HashInv'
    <2> DEFINE m == new[w]
    <2>1. Superseded' = Superseded /\ changed' = changed
      BY <1>4 DEF Superseded, rvars
    <2>2. /\ m.seq = nextseq - 1 /\ m.id = w /\ m.args = Jsonb(w)
          /\ m.row_hash = RowHash(prev[w], w, "written")
          /\ \A q \in log : q.seq < nextseq - 1
          /\ \A x \in changed : x.linked => x.seq + 1 < nextseq - 1
      <3>1. m = [seq |-> nextseq - 1, id |-> w, args |-> Jsonb(w),
                 result_status |-> "written",
                 row_hash |-> RowHash(prev[w], w, "written")]
        BY <1>4 DEF RowsInv
      <3>2. /\ \A q \in log : q.seq < nextseq - 1
            /\ \A x \in changed : x.linked => x.seq + 1 < nextseq - 1
        BY <1>4 DEF RowsInv
      <3>3. QED  BY <3>1, <3>2
    <2>3. /\ wpc'[w] = s
          /\ \A u \in Writers : u # w => wpc'[u] = wpc[u]
          /\ \A u \in Writers : wpc'[u] \notin {"insert", "commit"}
      BY <1>4, <1>t DEF EndTransaction, TypeOK, RowsInv
    <2>4. m.row_hash[1] = prev[w] /\ m.row_hash[2] = w /\ m.row_hash[3] = "written"
      BY <2>2, HashParts
    <2>5. RowHashed(m)'
      <3>1. HashOfRow(m.row_hash, m.id)
        BY <2>2, <2>4, HashParts DEF HashOfRow
      <3>2. ~ Undercut(changed, m.seq)
        <4>1. \A x \in changed : x.seq \in Int
          BY DEF RowsInv
        <4>2. QED  BY <1>s, <2>2, <4>1 DEF Undercut
      <3>3. m.row_hash \notin Superseded
        BY <1>4, <1>h, <2>4 DEF WasHashed
      <3>4. Before(log', m.seq) = log
        BY <1>4, <1>s, <2>2 DEF Before
      <3>5. prev[w] \in {LastHash(log)} \cup Superseded
        BY <1>4, <1>h DEF PrevHashed
      <3>6. UNCHANGED new
        BY <1>4 DEF EndTransaction
      <3>7. RowFits(m, changed)'
        BY <2>1, <2>4, <3>1, <3>2, <3>6 DEF RowFits
      <3>8. QED  BY <2>1, <2>2, <2>4, <3>3, <3>4, <3>5, <3>6, <3>7 DEF RowHashed
    <2>6. ASSUME NEW q \in log PROVE RowHashed(q)'
      <3>1. Before(log', q.seq) = Before(log, q.seq)
        BY <1>4, <1>s, <2>2 DEF Before
      <3>2. QED  BY <1>h, <2>1, <3>1 DEF RowHashed, RowFits
    <2>7. \A q \in log' : RowHashed(q)'
      <3>1. UNCHANGED new
        BY <1>4 DEF EndTransaction
      <3>2. QED  BY <1>4, <2>5, <2>6, <3>1
    <2>8. \A u \in Writers : PrevHashed(u)'
      BY <2>3 DEF PrevHashed
    <2>9. \A h \in Superseded' : WasHashed(h)'
      BY <1>4, <1>h, <2>1, <2>2, <2>3 DEF WasHashed
    <2>10. QED  BY <1>p, <2>1, <2>7, <2>8, <2>9
  <1>5. QED
    <2>1. \A w \in Writers : Begin(w) \/ Acquire(w) \/ Lock(w) \/ ReadPrev(w) \/ Insert(w)
             => UNCHANGED log
      BY DEF Begin, Acquire, Lock, ReadPrev, Insert
    <2>2. QED  BY <1>1, <1>2, <1>3, <1>4, <2>1, TableSteps

-----------------------------------------------------------------------------
Genuine(row, xs) ==
    \/ Rewritten(xs, row.seq)
    \/ Payload(row.args) = "written" /\ ~ Undercut(xs, row.seq)

\* A row that verifies is genuine: the hash stored at seq - 1 is not superseded,
\* and an undercut row is hashed over one that is.
LEMMA VerifiedGenuine ==
    ASSUME RowsInv, HashInv, NEW r \in Readers, NEW row \in page[r], RowVerifies(row)
    PROVE  Genuine(row, known[r])
  <1>1. SUFFICES ASSUME ~ Rewritten(known[r], row.seq)
                 PROVE  Payload(row.args) = "written" /\ ~ Undercut(known[r], row.seq)
    BY DEF Genuine
  <1>2. /\ row.row_hash[3] = "written"
        /\ Undercut(known[r], row.seq) => row.row_hash[1] \in Superseded
    BY <1>1 DEF HashInv, RowFits
  <1>3. PICK p \in PrevHashes(row) : row.row_hash = RowHash(p, row.id, row.args)
    BY DEF RowVerifies
  <1>4. Payload(row.args) = "written" /\ row.row_hash[1] = p
    BY <1>2, <1>3, HashParts
  <1>5. CASE row.seq = 1
    <2>1. \A x \in known[r] : x.seq \in Nat \ {0}
      BY LogSeqs DEF RowsInv, VerifyTypeOK
    <2>2. QED  BY <1>4, <1>5, <2>1 DEF Undercut
  <1>6. CASE row.seq # 1
    <2>1. PICK q \in log : p = q.row_hash
      BY <1>6, <1>3 DEF PrevHashes
    <2>2. p \notin Superseded
      BY <2>1 DEF HashInv
    <2>3. QED  BY <1>2, <1>4, <2>2
  <1>7. QED  BY <1>5, <1>6

LEMMA PassInit == Init => PassInv
  BY DEF Init, PassInv

LEMMA PassStep == RowsInv /\ HashInv /\ PassInv /\ [Next]_vars => PassInv'
  <1> SUFFICES ASSUME RowsInv, HashInv, PassInv, [Next]_vars PROVE PassInv'
    OBVIOUS
  <1>t. /\ VerifyTypeOK
        /\ DOMAIN rpc = Readers /\ DOMAIN page = Readers /\ DOMAIN todo = Readers
        /\ DOMAIN known = Readers /\ DOMAIN verdict = Readers
        /\ \A r \in Readers : todo[r] \subseteq page[r]
    BY DEF RowsInv, VerifyTypeOK
  <1>g. \A r \in Readers : /\ verdict[r] = "pass" => rpc[r] = "answered" /\ todo[r] = {}
                           /\ \A row \in page[r] \ todo[r] : Genuine(row, known[r])
    BY DEF PassInv, Genuine
  <1>p. ASSUME \A r \in Readers :
                  /\ verdict'[r] = "pass" => rpc'[r] = "answered" /\ todo'[r] = {}
                  /\ \A row \in page'[r] \ todo'[r] : Genuine(row, known'[r])
        PROVE  PassInv'
    BY <1>p DEF PassInv, Genuine
  <1>1. CASE UNCHANGED <<rpc, page, todo, verdict, known>>
    BY <1>1, <1>g, <1>p
  <1>2. ASSUME NEW r \in Readers, rpc[r] # "answered", UNCHANGED <<page, todo, verdict, known>>,
               NEW s, rpc' = [rpc EXCEPT ![r] = s]
        PROVE  PassInv'
    BY <1>2, <1>g, <1>p, <1>t
  <1>3. ASSUME NEW r \in Readers, Fetch(r) PROVE PassInv'
    BY <1>3, <1>g, <1>p, <1>t DEF Fetch
  <1>4. ASSUME NEW r \in Readers, VerifyRow(r) PROVE PassInv'
    <2> DEFINE row == CHOOSE x \in todo[r] : \A y \in todo[r] : x.seq <= y.seq
    <2>1. row \in todo[r] /\ row \in page[r]
      BY <1>4, <1>t, FirstTodo DEF VerifyRow
    <2>2. \/ /\ RowVerifies(row)
             /\ todo' = [todo EXCEPT ![r] = @ \ {row}]
             /\ UNCHANGED <<rpc, verdict>>
          \/ /\ verdict' = [verdict EXCEPT ![r] = "fail"]
             /\ rpc' = [rpc EXCEPT ![r] = "answered"]
             /\ UNCHANGED todo
      BY <1>4 DEF VerifyRow
    <2>3. UNCHANGED <<page, known>> /\ rpc[r] = "verify"
      BY <1>4 DEF VerifyRow
    <2> HIDE DEF row
    <2>4. CASE /\ RowVerifies(row)
               /\ todo' = [todo EXCEPT ![r] = @ \ {row}]
               /\ UNCHANGED <<rpc, verdict>>
      <3>1. Genuine(row, known[r])
        BY <2>1, <2>4, VerifiedGenuine
      <3>2. QED  BY <1>g, <1>p, <1>t, <2>3, <2>4, <3>1
    <2>5. CASE /\ verdict' = [verdict EXCEPT ![r] = "fail"]
               /\ rpc' = [rpc EXCEPT ![r] = "answered"]
               /\ UNCHANGED todo
      BY <1>g, <1>p, <1>t, <2>3, <2>5
    <2>6. QED  BY <2>2, <2>4, <2>5
  <1>5. ASSUME NEW r \in Readers, VerifyEnds(r) PROVE PassInv'
    BY <1>5, <1>g, <1>p, <1>t DEF VerifyEnds
  <1>6. ASSUME NEW r \in Readers,
               QueryBegin(r) \/ QueryAcquire(r) \/ VerifyAcquire(r) \/ QueryFails(r)
        PROVE  PassInv'
    BY <1>2, <1>6 DEF QueryBegin, QueryAcquire, VerifyAcquire, QueryFails, ReaderHolds
  <1>7. ASSUME NEW e \in Exports, ExportBegin(e) \/ ExportEnd(e) PROVE PassInv'
    BY <1>1, <1>7 DEF ExportBegin, ExportEnd
  <1>8. CASE UNCHANGED vars \/ (WriterNext /\ UNCHANGED rvars) \/ ChangeByHand
    BY <1>1, <1>8 DEF vars, rvars, ChangeByHand
  <1>9. QED
    BY <1>3, <1>4, <1>5, <1>6, <1>7, <1>8 DEF Next, QueryStep

\* integrity_check "pass" vouches for the page, for every number of writers,
\* queries and changes by hand, database failures included: its rows have the
\* hashed payload they were written with, over predecessors that are still there,
\* unless they were themselves rewritten with a recomputed hash.  The payload has
\* no delimiters: the columns may still differ by characters moved between them.
THEOREM VerifyPassMeansGenuine == Spec => []PassMeansGenuine
  <1>1. PassInv => PassMeansGenuine
    BY DEF PassInv, PassMeansGenuine, Rewritten, Undercut
  <1>2. QED
    BY <1>1, RowsInit, RowsStep, HashInit, HashStep, PassInit, PassStep, PTL DEF Spec

-----------------------------------------------------------------------------
VerifiesOver(row, rows) ==
    \/ row.seq = 1 /\ row.row_hash = RowHash(GENESIS_HASH, row.id, row.args)
    \/ /\ row.seq # 1
       /\ \E q \in rows : /\ q.seq = row.seq - 1
                          /\ row.row_hash = RowHash(q.row_hash, row.id, row.args)

LEMMA VerifiesCases ==
    ASSUME NEW row
    PROVE  /\ RowVerifies(row) <=> VerifiesOver(row, log)
           /\ RowVerifies(row)' <=> VerifiesOver(row, log')
  BY DEF RowVerifies, PrevHashes, VerifiesOver

\* What explains that a row at n is not there or not as it was.
Excused(n) == Touched(n) \/ Abandoned(n)

\* The parts of FailInv, as the steps below prove them.
NumbersExplained ==
    \A n \in 1..(nextseq - 1) :
        \/ Excused(n)
        \/ \E row \in log : row.seq = n
        \/ \E w \in Writers : wpc[w] = "commit" /\ n = nextseq - 1

RowsVerify ==
    \A row \in log : \/ Touched(row.seq) \/ Excused(row.seq - 1) \/ row.id \in Lossy
                     \/ VerifiesOver(row, log)

\* w read the hash of the row at n.
ReadHashOf(w, n) ==
    \/ n = 0 /\ prev[w] = GENESIS_HASH
    \/ n > 0 /\ \E q \in log : q.seq = n /\ q.row_hash = prev[w]

TipRead ==
    \A w \in Writers, n \in 0..(nextseq - 1) :
        /\ \/ wpc[w] = "insert" /\ n = nextseq - 1
           \/ wpc[w] = "commit" /\ n = nextseq - 2
        /\ ~ Excused(n)
        => ReadHashOf(w, n)

PagesStored == \A r \in Readers : \A row \in page[r] : Touched(row.seq) \/ row \in log

\* What explains the verdict "fail" at n of a query with that page.
FailExcused(n, rows) ==
    \/ Touched(n) \/ Excused(n - 1)
    \/ \E row \in rows : row.seq = n /\ row.id \in Lossy

FailsExcused ==
    \A r \in Readers : verdict[r] = "fail" =>
        rpc[r] = "answered" /\ FailExcused(broken[r], page[r])

LEMMA FailParts ==
    /\ FailInv <=> NumbersExplained /\ RowsVerify /\ TipRead /\ PagesStored /\ FailsExcused
    /\ FailInv' <=> (NumbersExplained /\ RowsVerify /\ TipRead /\ PagesStored /\ FailsExcused)'
  <1>1. FailsExcused <=> FailExplained /\ \A r \in Readers : verdict[r] = "fail" => rpc[r] = "answered"
    BY DEF FailsExcused, FailExcused, FailExplained, Touched, Excused, Abandoned
  <1>2. FailsExcused' <=>
          FailExplained' /\ \A r \in Readers : verdict'[r] = "fail" => rpc'[r] = "answered"
    BY DEF FailsExcused, FailExcused, FailExplained, Touched, Excused, Abandoned
  <1>3. QED
    BY <1>1, <1>2, VerifiesCases
       DEF FailInv, NumbersExplained, RowsVerify, TipRead, ReadHashOf, PagesStored, Excused

LEMMA FailInit == Init => FailInv
  <1> SUFFICES ASSUME Init PROVE FailInv
    OBVIOUS
  <1>1. nextseq = 1 /\ log = {} /\ \A w \in Writers : wpc[w] = "idle"
    BY DEF Init, WriterInit
  <1>2. \A r \in Readers : page[r] = {} /\ verdict[r] = "none"
    BY DEF Init
  <1>3. QED  BY <1>1, <1>2 DEF FailInv, FailExplained

\* A number once abandoned stays so: its writer has stopped, and no row of it appears.
LEMMA AbandonedStays ==
    ASSUME RowsInv, [Next]_vars, NEW n, Abandoned(n)
    PROVE  Abandoned(n)'
  <1>t. VerifyTypeOK /\ TypeOK
    BY DEF RowsInv, VerifyTypeOK
  <1>1. PICK w \in Writers : wpc[w] = "failed" /\ new[w].seq = n /\ \A row \in log : row.id # w
    BY DEF Abandoned
  <1>2. SUFFICES wpc'[w] = "failed" /\ new'[w] = new[w] /\ \A row \in log' : row.id # w
    BY <1>1 DEF Abandoned
  <1>3. CASE UNCHANGED <<log, nextseq, lock, wpc, prev, new, changed>>
    BY <1>1, <1>3
  <1>4. CASE ChangeByHand
    <2>1. PICK row, kind, c : ByHand(row, kind, c)
      BY <1>4, ChangeIsByHand
    <2>2. /\ row \in log /\ c.id = row.id
          /\ \A q \in log' : q \in log \/ q = c
          /\ UNCHANGED <<wpc, new>>
      BY <2>1 DEF ByHand
    <2>3. QED  BY <1>1, <2>2
  <1>5. ASSUME NEW v \in Writers, Begin(v) \/ Acquire(v) \/ Lock(v) \/ ReadPrev(v) \/ Insert(v)
        PROVE  wpc'[w] = "failed" /\ new'[w] = new[w] /\ \A row \in log' : row.id # w
    <2>1. v # w /\ UNCHANGED log
      BY <1>1, <1>5 DEF Begin, Acquire, Lock, ReadPrev, Insert
    <2>2. wpc'[w] = wpc[w] /\ new'[w] = new[w]
      BY <1>5, <1>t, <2>1 DEF TypeOK, Begin, Acquire, Lock, ReadPrev, Insert
    <2>3. QED  BY <1>1, <2>1, <2>2
  <1>6. ASSUME NEW v \in Writers, NEW s \in {"done", "failed"}, EndTransaction(v, s),
               \/ wpc[v] \in InTransaction /\ UNCHANGED log
               \/ wpc[v] = "commit" /\ log' = log \cup {new[v]}
        PROVE  wpc'[w] = "failed" /\ new'[w] = new[w] /\ \A row \in log' : row.id # w
    <2>1. v # w
      BY <1>1, <1>6 DEF InTransaction
    <2>2. wpc'[w] = wpc[w] /\ new'[w] = new[w]
      BY <1>6, <1>t, <2>1 DEF TypeOK, EndTransaction
    <2>3. wpc[v] = "commit" => new[v].id = v
      <3>1. SUFFICES ASSUME wpc[v] = "commit" PROVE new[v].id = v
        OBVIOUS
      <3>2. new[v] = [seq |-> nextseq - 1, id |-> v, args |-> Jsonb(v),
                      result_status |-> "written",
                      row_hash |-> RowHash(prev[v], v, "written")]
        BY <3>1 DEF RowsInv
      <3>3. QED  BY <3>2
    <2>4. QED  BY <1>1, <1>6, <2>1, <2>2, <2>3
  <1>7. QED  BY <1>3, <1>4, <1>5, <1>6, TableSteps

\* A query reports a row only when something excuses it.
LEMMA FailedExcused ==
    ASSUME VerifyTypeOK, RowsVerify, PagesStored, FailsExcused, [Next]_vars,
           \A n : Touched(n) => Touched(n)', \A n : Excused(n) => Excused(n)'
    PROVE  FailsExcused'
  <1>0. SUFFICES ASSUME NEW x \in Readers, verdict'[x] = "fail"
                 PROVE  rpc'[x] = "answered" /\ FailExcused(broken[x], page[x])'
    BY DEF FailsExcused
  <1> DEFINE Ok == rpc'[x] = "answered" /\ FailExcused(broken[x], page[x])'
  <1>e. ASSUME NEW n, NEW rows, FailExcused(n, rows), broken'[x] = n, page'[x] = rows
        PROVE  FailExcused(broken[x], page[x])'
    <2>1. \/ Touched(n)' \/ Excused(n - 1)'
          \/ \E row \in rows : row.seq = n /\ row.id \in Lossy
      BY <1>e DEF FailExcused
    <2>2. QED  BY <1>e, <2>1 DEF FailExcused, Touched, Excused, Abandoned
  <1>1. ASSUME broken'[x] = broken[x], page'[x] = page[x], verdict[x] = "fail", rpc'[x] = rpc[x]
        PROVE  Ok
    BY <1>1, <1>e DEF FailsExcused
  <1>2. ASSUME NEW r \in Readers, rpc[r] # "answered", NEW s, rpc' = [rpc EXCEPT ![r] = s],
               UNCHANGED <<verdict, broken>>, \A y \in Readers : y # r => page'[y] = page[y]
        PROVE  Ok
    <2>1. x # r
      BY <1>0, <1>2 DEF FailsExcused
    <2>2. rpc'[x] = rpc[x] /\ page'[x] = page[x] /\ verdict[x] = "fail" /\ broken'[x] = broken[x]
      BY <1>0, <1>2, <2>1 DEF VerifyTypeOK
    <2> HIDE DEF Ok
    <2>3. QED  BY <1>1, <2>2
  <1>3. ASSUME NEW r \in Readers, VerifyRow(r) PROVE Ok
    <2> DEFINE row == CHOOSE z \in todo[r] : \A y \in todo[r] : z.seq <= y.seq
    <2>1. row \in page[r]
      BY <1>3, FirstTodo DEF VerifyRow, VerifyTypeOK
    <2>2. /\ UNCHANGED page
          /\ \/ UNCHANGED <<rpc, verdict, broken>>
             \/ /\ ~ RowVerifies(row)
                /\ verdict' = [verdict EXCEPT ![r] = "fail"]
                /\ broken' = [broken EXCEPT ![r] = row.seq]
                /\ rpc' = [rpc EXCEPT ![r] = "answered"]
      BY <1>3 DEF VerifyRow
    <2> HIDE DEF row
    <2>3. CASE UNCHANGED <<rpc, verdict, broken>>
      BY <1>0, <1>1, <2>2, <2>3
    <2>4. CASE /\ ~ RowVerifies(row)
               /\ verdict' = [verdict EXCEPT ![r] = "fail"]
               /\ broken' = [broken EXCEPT ![r] = row.seq]
               /\ rpc' = [rpc EXCEPT ![r] = "answered"]
      <3>1. Touched(row.seq) \/ Excused(row.seq - 1) \/ row.id \in Lossy
        BY <2>1, <2>4, VerifiesCases DEF PagesStored, RowsVerify
      <3>2. /\ broken'[r] = row.seq /\ rpc'[r] = "answered"
            /\ x # r => broken'[x] = broken[x] /\ verdict'[x] = verdict[x] /\ rpc'[x] = rpc[x]
        BY <2>4 DEF VerifyTypeOK
      <3>3. CASE x = r
        <4>1. FailExcused(row.seq, page[r])
          BY <2>1, <3>1 DEF FailExcused
        <4>2. QED  BY <1>e, <2>2, <3>2, <3>3, <4>1
      <3>4. CASE x # r
        <4> HIDE DEF Ok
        <4> QED BY <1>0, <1>1, <2>2, <3>2, <3>4
      <3>5. QED  BY <3>3, <3>4
    <2>5. QED  BY <2>2, <2>3, <2>4
  <1>4. ASSUME NEW r \in Readers, VerifyEnds(r) PROVE Ok
    <2>1. /\ UNCHANGED <<page, broken>> /\ verdict[x] = "fail" /\ rpc'[x] = rpc[x]
      BY <1>0, <1>4 DEF VerifyEnds, VerifyTypeOK, FailsExcused
    <2>2. QED  BY <1>1, <2>1
  <1> HIDE DEF Ok
  <1>5. ASSUME NEW r \in Readers, \/ QueryBegin(r) \/ QueryAcquire(r) \/ Fetch(r)
                                  \/ VerifyAcquire(r) \/ QueryFails(r)
        PROVE  Ok
    <2>1. /\ rpc[r] # "answered" /\ UNCHANGED <<verdict, broken>>
          /\ \E s : rpc' = [rpc EXCEPT ![r] = s]
          /\ \A y \in Readers : y # r => page'[y] = page[y]
      BY <1>5 DEF QueryBegin, QueryAcquire, Fetch, VerifyAcquire, QueryFails, ReaderHolds,
                  VerifyTypeOK
    <2>2. QED  BY <1>2, <2>1
  <1>6. ASSUME NEW e \in Exports, ExportBegin(e) \/ ExportEnd(e) PROVE Ok
    BY <1>0, <1>1, <1>6 DEF ExportBegin, ExportEnd
  <1>7. ASSUME UNCHANGED vars \/ (WriterNext /\ UNCHANGED rvars) \/ ChangeByHand PROVE Ok
    <2>1. UNCHANGED <<rpc, page, verdict, broken>>
      BY <1>7 DEF vars, rvars, ChangeByHand
    <2>2. QED  BY <1>0, <1>1, <2>1
  <1>8. QED  BY <1>3, <1>4, <1>5, <1>6, <1>7 DEF Next, QueryStep, Ok

LEMMA FailStep ==
    ASSUME RowsInv, FailInv, [Next]_vars
    PROVE  FailInv'
  <1>t. VerifyTypeOK /\ TypeOK
    BY DEF RowsInv, VerifyTypeOK
  <1>s. /\ \A q \in log : q.seq \in Nat \ {0} /\ q.id \in Writers /\ q.seq < nextseq
        /\ \A q, u \in log : q.seq = u.seq => q = u
        /\ nextseq \in Nat \ {0}
    BY LogSeqs DEF RowsInv
  <1>f. NumbersExplained /\ RowsVerify /\ TipRead /\ PagesStored /\ FailsExcused
    BY FailParts
  <1>a. \A n : Abandoned(n) => Abandoned(n)'
    BY AbandonedStays
  <1>p. ASSUME NumbersExplained', RowsVerify', TipRead', changed \subseteq changed',
               \A row \in log : row \in log' \/ Touched(row.seq)'
        PROVE  FailInv'
    <2>2. \A n : Touched(n) => Touched(n)'
      BY <1>p DEF Touched
    <2>e. \A n : Excused(n) => Excused(n)'
      BY <1>a, <2>2 DEF Excused
    <2>1. FailsExcused'
      BY <1>f, <1>t, <2>2, <2>e, FailedExcused
    <2>3. PagesStored'
      BY <1>p, <1>f, <1>t, <2>2, PageFetched DEF PagesStored
    <2>4. QED  BY <1>p, <2>1, <2>3, FailParts
  <1>1. CASE UNCHANGED <<log, nextseq, lock, wpc, prev, new, changed>>
    <2>1. NumbersExplained' /\ RowsVerify' /\ TipRead'
      BY <1>1, <1>f DEF NumbersExplained, RowsVerify, TipRead, ReadHashOf, Touched, Excused, Abandoned
    <2>2. QED  BY <1>1, <1>p, <2>1
  <1>2. CASE ChangeByHand
    <2>1. PICK row, kind, c : ByHand(row, kind, c)
      BY <1>2, ChangeIsByHand
    <2> DEFINE x == [kind |-> kind, seq |-> row.seq, was |-> row.row_hash,
                     linked |-> \E q \in log : q.seq = row.seq + 1]
    <2>2. changed' = changed \cup {x}
      BY <2>1 DEF ByHand
    <2>3. x.seq = row.seq
      OBVIOUS
    <2> HIDE DEF x
    <2>4. /\ \A n : Touched(n)' <=> Touched(n) \/ n = row.seq
          /\ changed \subseteq changed'
      BY <2>2, <2>3 DEF Touched
    <2>e. \A n : Excused(n) \/ n = row.seq => Excused(n)'
      BY <1>a, <2>4 DEF Excused
    <2>5. /\ \A q \in log : q = row \/ q \in log'
          /\ \A q \in log' : q \in log \/ q.seq = row.seq
          /\ UNCHANGED <<nextseq, wpc, prev>>
      BY <2>1 DEF ByHand
    <2>6. NumbersExplained'
      BY <1>f, <2>e, <2>5 DEF NumbersExplained
    <2>7. RowsVerify'
      <3>1. SUFFICES ASSUME NEW q \in log', ~ Touched(q.seq)', ~ Excused(q.seq - 1)',
                            q.id \notin Lossy
                     PROVE  VerifiesOver(q, log')
        BY DEF RowsVerify
      <3>2. q \in log /\ q.seq - 1 # row.seq /\ ~ Touched(q.seq) /\ ~ Excused(q.seq - 1)
        BY <2>4, <2>5, <2>e, <3>1
      <3>3. VerifiesOver(q, log)
        BY <1>f, <3>1, <3>2 DEF RowsVerify
      <3>4. QED  BY <2>5, <3>2, <3>3 DEF VerifiesOver
    <2>8. TipRead'
      <3>1. SUFFICES ASSUME NEW w \in Writers, NEW n \in 0..(nextseq' - 1), ~ Excused(n)',
                            \/ wpc'[w] = "insert" /\ n = nextseq' - 1
                            \/ wpc'[w] = "commit" /\ n = nextseq' - 2
                     PROVE  ReadHashOf(w, n)'
        BY DEF TipRead
      <3>2. ReadHashOf(w, n) /\ n # row.seq
        BY <1>f, <2>e, <2>5, <3>1 DEF TipRead
      <3>3. QED  BY <2>5, <3>2 DEF ReadHashOf
    <2>9. QED  BY <1>p, <2>4, <2>5, <2>6, <2>7, <2>8
  <1>3. ASSUME NEW w \in Writers, UNCHANGED rvars, Begin(w) \/ Acquire(w) \/ Lock(w)
        PROVE  FailInv'
    <2>1. /\ UNCHANGED <<log, nextseq, prev, changed>>
          /\ \A u \in Writers : wpc'[u] # wpc[u] => /\ wpc'[u] \notin {"insert", "commit"}
                                                    /\ wpc[u] \notin {"insert", "commit"}
      BY <1>3, <1>t DEF Begin, Acquire, Lock, TypeOK, rvars
    <2>e. \A n : (Touched(n) => Touched(n)') /\ (Excused(n) => Excused(n)')
      BY <1>a, <2>1 DEF Touched, Excused
    <2>2. NumbersExplained'
      BY <1>f, <2>1, <2>e DEF NumbersExplained
    <2>3. RowsVerify'
      BY <1>f, <2>1, <2>e DEF RowsVerify
    <2>4. TipRead'
      BY <1>f, <2>1, <2>e DEF TipRead, ReadHashOf
    <2>5. QED  BY <1>p, <2>1, <2>2, <2>3, <2>4
  <1>4. ASSUME NEW w \in Writers, UNCHANGED rvars, ReadPrev(w) PROVE FailInv'
    <2>1. /\ UNCHANGED <<log, nextseq, changed>>
          /\ wpc[w] = "read" /\ wpc'[w] = "insert" /\ prev'[w] = LastHash(log)
          /\ \A u \in Writers : u # w => wpc'[u] = wpc[u]
      BY <1>4, <1>t DEF ReadPrev, TypeOK, rvars
    <2>2. \A u \in Writers : u # w => wpc[u] \notin {"insert", "commit"}
      BY <2>1 DEF RowsInv
    <2>e. \A n : (Touched(n) => Touched(n)') /\ (Excused(n) => Excused(n)')
      BY <1>a, <2>1 DEF Touched, Excused
    <2>3. NumbersExplained'
      BY <1>f, <2>1, <2>2, <2>e DEF NumbersExplained
    <2>4. RowsVerify'
      BY <1>f, <2>1, <2>e DEF RowsVerify
    <2>5. ASSUME ~ Excused(nextseq - 1) PROVE ReadHashOf(w, nextseq - 1)'
      <3>1. CASE nextseq = 1
        <4>1. log = {}
          BY <1>s, <3>1
        <4>2. QED  BY <2>1, <3>1, <4>1 DEF ReadHashOf, LastHash
      <3>2. CASE nextseq # 1
        <4>1. nextseq - 1 \in 1..(nextseq - 1)
          BY <1>s, <3>2
        <4>2. PICK q \in log : q.seq = nextseq - 1
          BY <1>f, <2>1, <2>2, <2>5, <4>1 DEF NumbersExplained
        <4>3. \A u \in log : u.seq \in Int /\ (u # q => u.seq < q.seq)
          BY <1>s, <4>2
        <4>4. LastHash(log) = q.row_hash
          BY <4>3, LastHashOfMax
        <4>5. nextseq - 1 > 0
          BY <1>s, <3>2
        <4>6. QED  BY <2>1, <4>2, <4>4, <4>5 DEF ReadHashOf
      <3>3. QED  BY <3>1, <3>2
    <2>6. TipRead'
      BY <2>1, <2>2, <2>5, <2>e DEF TipRead
    <2>7. QED  BY <1>p, <2>1, <2>3, <2>4, <2>6
  <1>5. ASSUME NEW w \in Writers, UNCHANGED rvars, Insert(w) PROVE FailInv'
    <2>1. /\ UNCHANGED <<log, prev, changed>>
          /\ nextseq' = nextseq + 1
          /\ wpc[w] = "insert" /\ wpc'[w] = "commit"
          /\ \A u \in Writers : u # w => wpc'[u] = wpc[u]
      BY <1>5, <1>t DEF Insert, TypeOK, rvars
    <2>2. \A u \in Writers : u # w => wpc[u] \notin {"insert", "commit"}
      BY <2>1 DEF RowsInv
    <2>3. \A n : (Touched(n) => Touched(n)') /\ (Excused(n) => Excused(n)')
      BY <1>a, <2>1 DEF Touched, Excused
    <2>4. NumbersExplained'
      <3>1. SUFFICES ASSUME NEW n \in 1..(nextseq' - 1), n # nextseq' - 1
                     PROVE  Excused(n)' \/ \E q \in log' : q.seq = n
        BY <2>1 DEF NumbersExplained
      <3>2. n \in 1..(nextseq - 1)
        BY <1>s, <2>1, <3>1
      <3>3. QED  BY <1>f, <2>1, <2>2, <2>3, <3>2 DEF NumbersExplained
    <2>5. RowsVerify'
      BY <1>f, <2>1, <2>3 DEF RowsVerify
    <2>6. TipRead'
      <3>1. SUFFICES ASSUME NEW u \in Writers, NEW n \in 0..(nextseq' - 1), ~ Excused(n)',
                            \/ wpc'[u] = "insert" /\ n = nextseq' - 1
                            \/ wpc'[u] = "commit" /\ n = nextseq' - 2
                     PROVE  ReadHashOf(u, n)'
        BY DEF TipRead
      <3>2. u = w /\ n = nextseq - 1
        BY <1>s, <2>1, <2>2, <3>1
      <3>3. n \in 0..(nextseq - 1)
        BY <1>s, <3>2
      <3>4. ReadHashOf(w, n)
        BY <1>f, <2>1, <2>3, <3>1, <3>2, <3>3 DEF TipRead
      <3>5. QED  BY <2>1, <3>2, <3>4 DEF ReadHashOf
    <2>7. QED  BY <1>p, <2>1, <2>4, <2>5, <2>6
  <1>6. ASSUME NEW w \in Writers, UNCHANGED rvars, wpc[w] = "commit",
               log' = log \cup {new[w]},
               NEW s \in {"done", "failed"}, EndTransaction(w, s)
        PROVE  FailInv'
    <2> DEFINE m == new[w]
    <2>1. /\ UNCHANGED <<nextseq, prev, changed>>
          /\ \A u \in Writers : wpc'[u] \notin {"insert", "commit"}
          /\ \A u \in Writers : wpc[u] = "commit" => u = w
      BY <1>6, <1>t DEF EndTransaction, TypeOK, RowsInv, rvars
    <2>2. /\ m.seq = nextseq - 1 /\ m.id = w /\ m.args = Jsonb(w)
          /\ m.row_hash = RowHash(prev[w], w, "written")
          /\ nextseq > 1
      <3>1. m = [seq |-> nextseq - 1, id |-> w, args |-> Jsonb(w),
                 result_status |-> "written",
                 row_hash |-> RowHash(prev[w], w, "written")]
        BY <1>6 DEF RowsInv
      <3>2. nextseq > 1
        BY <1>6 DEF RowsInv
      <3>3. QED  BY <3>1, <3>2
    <2> HIDE DEF m
    <2>3. log' = log \cup {m} /\ m \in log'
      BY <1>6 DEF m
    <2>4. \A n : (Touched(n) => Touched(n)') /\ (Excused(n) => Excused(n)')
      BY <1>a, <2>1 DEF Touched, Excused
    <2>5. NumbersExplained'
      BY <1>f, <2>1, <2>2, <2>3, <2>4 DEF NumbersExplained
    <2>6. ASSUME ~ Excused(m.seq - 1), m.id \notin Lossy PROVE VerifiesOver(m, log')
      <3>a. m.args = "written"
        BY <2>2, <2>6 DEF Jsonb
      <3>1. nextseq - 2 \in 0..(nextseq - 1) /\ m.seq - 1 = nextseq - 2
        BY <1>s, <2>2
      <3>2. ReadHashOf(w, nextseq - 2)
        BY <1>6, <1>f, <2>6, <3>1 DEF TipRead
      <3>3. CASE nextseq - 2 = 0 /\ prev[w] = GENESIS_HASH
        BY <1>s, <2>2, <3>a, <3>3 DEF VerifiesOver
      <3>4. CASE nextseq - 2 > 0 /\ \E q \in log : q.seq = nextseq - 2 /\ q.row_hash = prev[w]
        BY <1>s, <2>2, <2>3, <3>a, <3>1, <3>4 DEF VerifiesOver
      <3>5. QED  BY <3>2, <3>3, <3>4 DEF ReadHashOf
    <2>7. \A q \in log : VerifiesOver(q, log) => VerifiesOver(q, log')
      BY <2>3 DEF VerifiesOver
    <2>8. RowsVerify'
      BY <1>f, <2>3, <2>4, <2>6, <2>7 DEF RowsVerify
    <2>9. TipRead'
      BY <2>1 DEF TipRead
    <2>10. QED  BY <1>p, <2>1, <2>3, <2>5, <2>8, <2>9
  <1>7. ASSUME NEW w \in Writers, UNCHANGED rvars, wpc[w] \in InTransaction, UNCHANGED log,
               EndTransaction(w, "failed")
        PROVE  FailInv'
    <2>1. /\ UNCHANGED <<nextseq, prev, new, changed>>
          /\ wpc'[w] = "failed"
          /\ \A u \in Writers : u # w => wpc'[u] = wpc[u]
      BY <1>7, <1>t DEF EndTransaction, TypeOK, rvars
    <2>2. \A n : (Touched(n) => Touched(n)') /\ (Excused(n) => Excused(n)')
      BY <1>a, <2>1 DEF Touched, Excused
    <2>3. wpc[w] = "commit" => Excused(nextseq - 1)'
      <3>1. SUFFICES ASSUME wpc[w] = "commit" PROVE Abandoned(nextseq - 1)'
        BY <2>1 DEF Excused
      <3>2. nextseq > 1 /\ new[w].seq = nextseq - 1
        <4>1. /\ nextseq > 1
              /\ new[w] = [seq |-> nextseq - 1, id |-> w, args |-> Jsonb(w),
                           result_status |-> "written",
                           row_hash |-> RowHash(prev[w], w, "written")]
          BY <3>1 DEF RowsInv
        <4>2. QED  BY <4>1
      <3>3. \A row \in log : row.id # w
        BY <3>1 DEF RowsInv
      <3>4. QED  BY <1>7, <1>s, <2>1, <3>2, <3>3 DEF Abandoned
    <2>4. NumbersExplained'
      BY <1>f, <1>7, <2>1, <2>2, <2>3 DEF NumbersExplained
    <2>5. RowsVerify'
      BY <1>f, <1>7, <2>2 DEF RowsVerify
    <2>6. TipRead'
      BY <1>f, <1>7, <2>1, <2>2 DEF TipRead, ReadHashOf
    <2>7. QED  BY <1>7, <1>p, <2>1, <2>4, <2>5, <2>6
  <1>8. QED
    BY <1>1, <1>2, <1>3, <1>4, <1>5, <1>6, <1>7, TableSteps

\* integrity_check "fail" at seq n has a cause, for every number of writers,
\* queries and changes by hand, database failures included: row n or row n - 1
\* was changed by hand, a rolled-back INSERT took the number n - 1, or jsonb does
\* not give back what row n was hashed with.  The violation run on the gap shows
\* that the first alone is not enough.
THEOREM VerifyFailExplained == Spec => []FailExplained
  <1>1. RowsInv /\ FailInv /\ [Next]_vars => FailInv'
    BY FailStep
  <1>2. FailInv => FailExplained
    BY DEF FailInv
  <1>3. QED
    BY <1>1, <1>2, RowsInit, RowsStep, FailInit, PTL DEF Spec

-----------------------------------------------------------------------------
\* An export is part of the log for good, and holds all of it up to its end.
ExportInv == ExportIsPrefix /\ \A e \in Exports : sent[e] \subseteq log

LEMMA ExportStep ==
    ASSUME Changes = {}, RowsInv, ExportInv, [Next]_vars
    PROVE  ExportInv'
  <1>t. DOMAIN sent = Exports
    BY DEF RowsInv, VerifyTypeOK
  <1>s. \A q \in log : q.seq \in Nat
    BY LogSeqs
  <1>1. ASSUME UNCHANGED <<log, sent>> PROVE ExportInv'
    BY <1>1 DEF ExportInv, ExportIsPrefix
  <1>2. ASSUME NEW w \in Writers, wpc[w] = "commit", log' = log \cup {new[w]}, UNCHANGED sent
        PROVE  ExportInv'
    <2>1. new[w].seq = nextseq - 1 /\ nextseq \in Nat /\ \A q \in log : q.seq < nextseq - 1
      <3>1. new[w] = [seq |-> nextseq - 1, id |-> w, args |-> Jsonb(w),
                      result_status |-> "written",
                      row_hash |-> RowHash(prev[w], w, "written")]
        BY <1>2 DEF RowsInv
      <3>2. \A q \in log : q.seq < nextseq - 1
        BY <1>2 DEF RowsInv
      <3>3. QED  BY <3>1, <3>2, LogSeqs
    <2>2. \A row \in log : Before(log', row.seq) = Before(log, row.seq)
      BY <1>2, <1>s, <2>1 DEF Before
    <2>3. \A e \in Exports : \A row \in sent[e] :
             row \in log /\ Before(log, row.seq) \subseteq sent[e]
      BY DEF ExportInv, ExportIsPrefix
    <2>4. \A e \in Exports : \A row \in sent'[e] : Before(log', row.seq) \subseteq sent'[e]
      BY <1>2, <2>2, <2>3
    <2>5. QED  BY <1>2, <2>3, <2>4 DEF ExportInv, ExportIsPrefix
  <1>3. ASSUME NEW e \in Exports, ExportBegin(e) PROVE ExportInv'
    <2>1. /\ UNCHANGED log
          /\ \A x \in Exports : sent'[x] = IF x = e THEN log ELSE sent[x]
      BY <1>3, <1>t DEF ExportBegin
    <2>2. \A n : Before(log, n) \subseteq log
      BY DEF Before
    <2>3. QED  BY <2>1, <2>2 DEF ExportInv, ExportIsPrefix
  <1>4. ASSUME NEW e \in Exports, ExportEnd(e) PROVE ExportInv'
    BY <1>1, <1>4 DEF ExportEnd
  <1>5. ASSUME NEW r \in Readers, QueryBegin(r) \/ QueryStep(r) \/ QueryFails(r)
        PROVE  ExportInv'
    BY <1>1, <1>5 DEF QueryBegin, QueryStep, QueryFails, QueryAcquire, Fetch, VerifyAcquire,
                      VerifyRow, VerifyEnds, wvars
  <1>6. CASE WriterNext /\ UNCHANGED rvars
    BY <1>1, <1>2, <1>6 DEF rvars, WriterNext, WriterStep, Begin, Acquire, Lock, ReadPrev,
                            Insert, Commit, Fail
  <1>7. ~ ChangeByHand
    BY DEF ChangeByHand
  <1>8. CASE UNCHANGED vars
    BY <1>1, <1>8 DEF vars, wvars, rvars
  <1>9. QED  BY <1>3, <1>4, <1>5, <1>6, <1>7, <1>8 DEF Next

\* A full export is a prefix of the chain for good, whatever writers run beside
\* it and fail: none of them commits a row into what the client has received.
THEOREM VerifyExportIsPrefix ==
    ASSUME Changes = {}
    PROVE  Spec => []ExportIsPrefix
  <1>1. Init => ExportInv
    BY DEF Init, ExportInv, ExportIsPrefix
  <1>2. RowsInv /\ ExportInv /\ [Next]_vars => ExportInv'
    BY ExportStep
  <1>3. ExportInv => ExportIsPrefix
    BY DEF ExportInv
  <1>4. QED
    BY <1>1, <1>2, <1>3, RowsInit, RowsStep, PTL DEF Spec

\* Beside queries and exports the writers are those of AuditLog, so the chain,
\* its one row per call and the refinement of SerialChain are as there.
THEOREM VerifyRefinesWriters ==
    ASSUME Changes = {}
    PROVE  Spec => ImplementsWriters
  <1>1. Init => AppendPath!WriterInit
    BY DEF Init, WriterInit, AppendPath!WriterInit, AppendPath!NoRow, NoRow,
           AppendPath!GENESIS_HASH, GENESIS_HASH
  <1>2. ASSUME RowsInv, [Next]_vars
        PROVE  [AppendPath!WriterNext]_(AppendPath!wvars)
    <2> DEFINE own == conns \cap Writers
    <2>t. IsFiniteSet(conns)
      BY <1>2 DEF RowsInv, VerifyTypeOK
    <2>1. ASSUME UNCHANGED <<log, nextseq, lock, wpc, prev, new>>,
                 NEW x, x \notin Writers,
                 conns' = conns \/ conns' = conns \cup {x} \/ conns' = conns \ {x}
          PROVE  UNCHANGED AppendPath!wvars
      BY <2>1 DEF AppendPath!wvars
    <2>2. ASSUME NEW w \in Writers, Begin(w) \/ WriterStep(w) \/ Fail(w)
          PROVE  AppendPath!WriterNext
      <3>1. Cardinality(own) <= Cardinality(conns) /\ Cardinality(own) \in Nat
            /\ Cardinality(conns) \in Nat
        <4>1. IsFiniteSet(own)
          BY <2>t, FS_Subset
        <4>2. QED  BY <2>t, <4>1, FS_Subset, FS_CardinalityType
      <3>2. Begin(w) => AppendPath!Begin(w)
        BY DEF Begin, AppendPath!Begin
      <3>3. Acquire(w) => AppendPath!Acquire(w)
        <4>1. Cardinality(conns) < PoolSize => Cardinality(own) < PoolSize
          BY <3>1, AuditAssumption DEF AuditAssumption
        <4>2. Acquire(w) => conns' \cap Writers = own \cup {w}
          BY DEF Acquire
        <4>3. Acquire(w) => /\ wpc[w] = "conn"
                            /\ Cardinality(own) < PoolSize
                            /\ wpc' = [wpc EXCEPT ![w] = "lock"]
                            /\ UNCHANGED <<log, nextseq, lock, prev, new>>
          BY <4>1 DEF Acquire
        <4>4. AppendPath!Cardinality(own) = Cardinality(own)
          BY Zenon DEF AppendPath!Cardinality, Cardinality
        <4>5. QED  BY <4>2, <4>3, <4>4 DEF AppendPath!Acquire
      <3>4. Lock(w) => AppendPath!Lock(w)
        BY DEF Lock, AppendPath!Lock
      <3>5. ReadPrev(w) => AppendPath!ReadPrev(w)
        BY DEF ReadPrev, AppendPath!ReadPrev, LastHash, AppendPath!LastHash,
               GENESIS_HASH, AppendPath!GENESIS_HASH
      <3>6. Insert(w) => AppendPath!Insert(w)
        BY DEF Insert, AppendPath!Insert, RowHash, AppendPath!RowHash, Payload,
               AppendPath!Payload, Jsonb, AppendPath!Jsonb
      <3>7. ASSUME NEW s, EndTransaction(w, s) PROVE AppendPath!EndTransaction(w, s)
        BY <3>7 DEF EndTransaction, AppendPath!EndTransaction
      <3>8. Commit(w) => AppendPath!Commit(w)
        BY <3>7 DEF Commit, AppendPath!Commit
      <3>9. Fail(w) => AppendPath!Fail(w)
        BY <3>7 DEF Fail, AppendPath!Fail, InTransaction, AppendPath!InTransaction
      <3>10. QED
        BY <2>2, <3>2, <3>3, <3>4, <3>5, <3>6, <3>8, <3>9
           DEF WriterStep, AppendPath!WriterStep, AppendPath!WriterNext
    <2>3. ASSUME NEW r \in Readers, QueryBegin(r) \/ QueryStep(r) \/ QueryFails(r)
          PROVE  UNCHANGED AppendPath!wvars
      <3>1. r \notin Writers
        BY VerifyAssumption DEF VerifyAssumption
      <3>2. UNCHANGED <<log, nextseq, lock, wpc, prev, new>>
        BY <2>3 DEF QueryBegin, QueryStep, QueryFails, QueryAcquire, Fetch, VerifyAcquire,
                    VerifyRow, VerifyEnds, wvars
      <3>3. conns' = conns \/ conns' = conns \cup {r} \/ conns' = conns \ {r}
        BY <2>3 DEF QueryBegin, QueryStep, QueryFails, QueryAcquire, Fetch, VerifyAcquire,
                    VerifyRow, VerifyEnds, wvars, TakeConn, DropConn
      <3>4. QED  BY <2>1, <3>1, <3>2, <3>3
    <2>4. ASSUME NEW e \in Exports, ExportBegin(e) \/ ExportEnd(e)
          PROVE  UNCHANGED AppendPath!wvars
      <3>1. e \notin Writers
        BY VerifyAssumption DEF VerifyAssumption
      <3>2. QED  BY <2>1, <2>4, <3>1 DEF ExportBegin, ExportEnd, TakeConn, DropConn
    <2>5. ~ ChangeByHand
      BY DEF ChangeByHand
    <2>6. CASE UNCHANGED vars
      BY <2>6 DEF vars, wvars, AppendPath!wvars
    <2>7. QED  BY <1>2, <2>2, <2>3, <2>4, <2>5, <2>6 DEF Next, WriterNext
  <1>3. QED
    BY <1>1, <1>2, RowsInit, RowsStep, PTL DEF Spec, ImplementsWriters, AppendPath!WriterSpec

=============================================================================
