------------------------- MODULE AuditExportProofs --------------------------
(***************************************************************************)
(* For every number of writers and jobs and every length of the day: an    *)
(* object that the schedule stored is complete for good.                   *)
(***************************************************************************)
EXTENDS AuditExport, AuditLogProofs

\* The last midnight: a whole number of days, at most a day ago.
LEMMA Midnight ==
    ASSUME NEW t \in Int, NEW D \in Int, D > 0
    PROVE  /\ t % D \in Int /\ 0 <= t % D /\ t % D < D
           /\ \E k \in Int : t - (t % D) = D * k
           /\ t >= D => t - (t % D) >= D
  <1>1. t % D \in Int /\ 0 <= t % D /\ t % D < D
    OBVIOUS
  <1>2. \E k \in Int : t - (t % D) = D * k
    <2>1. \A q, m \in Int : q = t \div D /\ m = t % D => t = q * D + m
      OBVIOUS
    <2>2. t \div D \in Int
      OBVIOUS
    <2>3. t = (t \div D) * D + (t % D)
      BY <1>1, <2>1, <2>2
    <2> DEFINE q == t \div D
               m == t % D
    <2>4. q \in Int /\ m \in Int /\ t = q * D + m
      BY <1>1, <2>2, <2>3
    <2> HIDE DEF q, m
    <2>5. t - m = D * q
      BY <2>4
    <2>6. QED  BY <2>4, <2>5 DEF m
  <1>3. t >= D => t - (t % D) >= D
    OBVIOUS
  <1>4. QED  BY <1>1, <1>2, <1>3

\* Different midnights are at least a day apart.
LEMMA DaysApart ==
    ASSUME NEW D \in Int, D > 0, NEW a \in Int, NEW b \in Int, D * a < D * b
    PROVE  D * a + D <= D * b
  <1>1. a < b
    <2>1. SUFFICES ASSUME b <= a PROVE FALSE
      OBVIOUS
    <2>2. D * b <= D * a
      BY <2>1
    <2>3. QED  BY <2>2
  <1>2. D * (a + 1) <= D * b
    BY <1>1
  <1>3. D * (a + 1) = D * a + D
    OBVIOUS
  <1>4. QED  BY <1>2, <1>3

LEMMA ExportInitInv == ExportInit => ExportInv
  <1> SUFFICES ASSUME ExportInit PROVE ExportInv
    OBVIOUS
  <1>1. ChainInv /\ TypeOK
    BY InitInv DEF ExportInit, ChainInv
  <1>2. wpc = [w \in Writers |-> "idle"] /\ log = {}
    BY DEF ExportInit, WriterInit
  <1>3. ExportTypeOK
    BY <1>1, ExportAssumption DEF ExportInit, ExportTypeOK, ExportAssumption
  <1>4. Fresh
    BY <1>2 DEF Fresh, AtWork, InTransaction
  <1>5. DayOver /\ Collected /\ ArchiveComplete /\ WithinDay
    BY DEF ExportInit, DayOver, Collected, ArchiveComplete, WithinDay
  <1>6. QED  BY <1>1, <1>3, <1>4, <1>5 DEF ExportInv

\* A step of the composition is a step of the writers or none of theirs.
LEMMA ExportChainInv ==
    ASSUME ExportInv, [ExportNext]_evars
    PROVE  ChainInv' /\ [WriterNext]_wvars
  <1>1. [WriterNext]_wvars
    BY DEF ExportNext, evars, Stamp, Write, JobStart, Collect, Put, JobFails, Tick,
           WriterNext
  <1>2. QED  BY <1>1, StepInv DEF ExportInv

\* Committed rows stay, with the time they bear, and a row that is added is one
\* of a writer at work.
LEMMA RowsKept ==
    ASSUME ExportInv, [ExportNext]_evars
    PROVE  /\ log \subseteq log'
           /\ \A r \in log : created_at'[r.id] = created_at[r.id]
           /\ \A r \in log' : r \in log \/ (/\ r.id \in Writers
                                            /\ wpc[r.id] \in AtWork
                                            /\ created_at'[r.id] = created_at[r.id])
  <1>1. \A r \in log : r.id \in Writers /\ wpc[r.id] \in {"done", "failed"}
    BY DEF ExportInv, ChainInv, TypeOK, OneRowPerCall
  <1>2. created_at \in [Writers -> 0..MaxTime]
    BY DEF ExportInv, ExportTypeOK
  <1>3. \A r \in log : created_at'[r.id] = created_at[r.id]
    <2>1. CASE \E w \in Writers : Stamp(w)
      BY <1>1, <1>2, <2>1 DEF Stamp, Begin
    <2>2. CASE UNCHANGED created_at
      BY <2>2
    <2>3. QED
      BY <2>1, <2>2 DEF ExportNext, evars, Write, JobStart, Collect, Put, JobFails, Tick
  <1>4. log' = log \/ \E w \in Writers : /\ Write(w)
                                         /\ wpc[w] = "commit"
                                         /\ log' = log \cup {new[w]}
    BY DEF ExportNext, evars, wvars, Stamp, Write, JobStart, Collect, Put, JobFails, Tick,
           Begin, WriterStep, Acquire, Lock, ReadPrev, Insert, Commit, Fail
  <1>5. \A w \in Writers : wpc[w] = "commit" => new[w].id = w
    <2> SUFFICES ASSUME NEW w \in Writers, wpc[w] = "commit" PROVE new[w].id = w
      OBVIOUS
    <2>1. new[w] = [seq |-> new[w].seq, id |-> w, args |-> Jsonb(w),
                    result_status |-> "written", row_hash |-> RowHash(prev[w], w, "written")]
      BY DEF ExportInv, ChainInv
    <2>2. QED  BY <2>1
  <1>6. CASE log' = log
    BY <1>3, <1>6
  <1>7. CASE \E w \in Writers : /\ Write(w)
                                /\ wpc[w] = "commit"
                                /\ log' = log \cup {new[w]}
    <2>1. PICK w \in Writers : Write(w) /\ wpc[w] = "commit" /\ log' = log \cup {new[w]}
      BY <1>7
    <2>2. new[w].id = w /\ created_at' = created_at
      BY <1>5, <2>1 DEF Write
    <2>3. wpc[w] \in AtWork
      BY <2>1 DEF AtWork, InTransaction
    <2>4. QED  BY <1>3, <2>1, <2>2, <2>3
  <1>8. QED  BY <1>4, <1>6, <1>7

\* The types of the export's own variables; those of the writers are ChainInv's.
LEMMA ExportTypeStep ==
    ASSUME ExportInv, [ExportNext]_evars
    PROVE  ExportTypeOK'
  <1>t. ExportTypeOK
    BY DEF ExportInv
  <1>a. /\ Day \in Int /\ Day > 0 /\ Grace \in Nat /\ MaxDelay \in Nat
        /\ MaxDelay <= Grace /\ MaxTime \in Nat
    BY ExportAssumption DEF ExportAssumption
  <1>1. TypeOK'
    BY ExportChainInv DEF ChainInv
  <1>2. log \subseteq log'
    BY RowsKept
  <1>3. clock \in Int /\ clock >= 0 /\ clock <= MaxTime
    BY <1>t, <1>a DEF ExportTypeOK
  <1>4. CASE \E w \in Writers : Stamp(w) \/ Write(w)
    BY <1>1, <1>2, <1>4, <1>t DEF ExportTypeOK, Stamp, Write, jvars, bucket
  <1>5. CASE \E j \in Jobs : JobStart(j)
    <2>1. PICK j \in Jobs : JobStart(j)
      BY <1>5
    <2>2. PriorDay \in 0..MaxTime
      BY <1>a, <1>3, <2>1, Midnight DEF JobStart, PriorDay
    <2>3. from' \in [Jobs -> 0..MaxTime]
      BY <1>t, <2>1, <2>2 DEF ExportTypeOK, JobStart
    <2>4. jpc' \in [Jobs -> {"idle", "collect", "put", "done", "skipped", "failed"}]
      BY <1>t, <2>1 DEF ExportTypeOK, JobStart
    <2>5. early' \subseteq Jobs
      BY <1>t, <2>1 DEF ExportTypeOK, JobStart
    <2>6. UNCHANGED <<log, clock, created_at, body, s3, partial>>
      BY <2>1 DEF JobStart, wvars, bucket
    <2>7. QED  BY <1>1, <1>t, <2>3, <2>4, <2>5, <2>6 DEF ExportTypeOK
  <1>6. CASE \E j \in Jobs : Collect(j)
    <2>1. PICK j \in Jobs : Collect(j)
      BY <1>6
    <2>2. DOMAIN body' = Jobs /\ \A i \in Jobs : body'[i] \subseteq log
      BY <1>t, <2>1 DEF ExportTypeOK, Collect
    <2>3. jpc' \in [Jobs -> {"idle", "collect", "put", "done", "skipped", "failed"}]
      BY <1>t, <2>1 DEF ExportTypeOK, Collect
    <2>4. UNCHANGED <<log, clock, created_at, from, s3, early, partial>>
      BY <2>1 DEF Collect, wvars, bucket
    <2>5. QED  BY <1>1, <1>t, <2>2, <2>3, <2>4 DEF ExportTypeOK
  <1>7. CASE \E j \in Jobs : Put(j) \/ JobFails(j)
    <2>1. PICK j \in Jobs : Put(j) \/ JobFails(j)
      BY <1>7
    <2>2. UNCHANGED bucket \/ PutObject(j)
      BY <2>1 DEF Put, JobFails
    <2>3. DOMAIN s3' = 0..MaxTime /\ \A d \in 0..MaxTime : s3'[d] \subseteq log
      BY <1>t, <2>2 DEF ExportTypeOK, PutObject, bucket
    <2>4. partial' \subseteq 0..MaxTime
      BY <1>t, <2>2 DEF ExportTypeOK, PutObject, bucket
    <2>5. jpc' \in [Jobs -> {"idle", "collect", "put", "done", "skipped", "failed"}]
      BY <1>t, <2>1 DEF ExportTypeOK, Put, JobFails
    <2>6. UNCHANGED <<log, clock, created_at, from, body, early>>
      BY <2>1 DEF Put, JobFails, wvars
    <2>7. QED  BY <1>1, <1>t, <2>3, <2>4, <2>5, <2>6 DEF ExportTypeOK
  <1>8. CASE Tick
    <2>1. clock' \in 0..MaxTime
      BY <1>a, <1>3, <1>8 DEF Tick
    <2>2. UNCHANGED <<log, created_at, jpc, from, body, early, s3, partial>>
      BY <1>8 DEF Tick, wvars, jvars, bucket
    <2>3. QED  BY <1>1, <1>t, <2>1, <2>2 DEF ExportTypeOK
  <1>9. CASE UNCHANGED evars
    BY <1>1, <1>9, <1>t DEF ExportTypeOK, evars, wvars, jvars, bucket
  <1>10. QED  BY <1>4, <1>5, <1>6, <1>7, <1>8, <1>9 DEF ExportNext

\* Nobody is left at work for longer than MaxDelay.
LEMMA FreshStep ==
    ASSUME ExportInv, [ExportNext]_evars
    PROVE  Fresh'
  <1>t. /\ ExportTypeOK /\ Fresh
        /\ wpc \in [Writers -> InTransaction \cup {"idle", "conn", "done", "failed"}]
    BY DEF ExportInv, ChainInv, TypeOK
  <1>a. MaxDelay \in Nat /\ MaxTime \in Nat
    BY ExportAssumption DEF ExportAssumption
  <1>1. clock \in Int /\ created_at \in [Writers -> 0..MaxTime]
    BY <1>t, <1>a DEF ExportTypeOK
  <1>2. CASE \E w \in Writers : Stamp(w)
    BY <1>t, <1>a, <1>1, <1>2 DEF Fresh, Stamp, Begin, AtWork, InTransaction
  <1>3. CASE \E w \in Writers : Write(w)
    <2>1. PICK w \in Writers : Write(w)
      BY <1>3
    <2>2. \A v \in Writers : wpc'[v] \in AtWork => wpc[v] \in AtWork
      BY <1>t, <2>1 DEF Write, WriterStep, Acquire, Lock, ReadPrev, Insert, Commit, Fail,
                        EndTransaction, AtWork, InTransaction
    <2>3. UNCHANGED <<clock, created_at>>
      BY <2>1 DEF Write
    <2>4. QED  BY <1>t, <2>2, <2>3 DEF Fresh
  <1>4. CASE Tick
    <2>1. UNCHANGED <<wpc, created_at>> /\ clock' = clock + 1
      BY <1>4 DEF Tick, wvars
    <2>2. \A w \in Writers : wpc[w] \in AtWork => clock - created_at[w] < MaxDelay
      BY <1>4 DEF Tick
    <2>3. QED  BY <1>t, <1>a, <1>1, <2>1, <2>2 DEF Fresh
  <1>5. CASE UNCHANGED <<wpc, clock, created_at>>
    BY <1>t, <1>5 DEF Fresh
  <1>6. QED
    BY <1>2, <1>3, <1>4, <1>5 DEF ExportNext, evars, wvars, JobStart, Collect, Put, JobFails

\* A job that has started keeps its day and its place in the schedule.
LEMMA JobKept ==
    ASSUME ExportInv, [ExportNext]_evars
    PROVE  /\ \A j \in Jobs : jpc[j] # "idle" =>
                  from'[j] = from[j] /\ (j \in early' <=> j \in early)
           /\ \A j \in Jobs : jpc'[j] = "idle" => jpc[j] = "idle"
           /\ clock' \in Int /\ clock \in Int /\ clock <= clock'
  <1>t. ExportTypeOK
    BY DEF ExportInv
  <1>a. MaxTime \in Nat
    BY ExportAssumption DEF ExportAssumption
  <1>1. clock \in Int
    BY <1>t, <1>a DEF ExportTypeOK
  <1>2. CASE \E j \in Jobs : JobStart(j)
    BY <1>t, <1>1, <1>2 DEF ExportTypeOK, JobStart
  <1>3. CASE \E j \in Jobs : Collect(j) \/ Put(j) \/ JobFails(j)
    BY <1>t, <1>1, <1>3 DEF ExportTypeOK, Collect, Put, JobFails
  <1>4. CASE Tick
    BY <1>1, <1>4 DEF Tick, jvars
  <1>5. CASE UNCHANGED <<clock, jvars>>
    BY <1>1, <1>5 DEF jvars
  <1>6. QED  BY <1>2, <1>3, <1>4, <1>5 DEF ExportNext, evars, Stamp, Write

\* A job of the schedule starts when its day has been over for Grace.
LEMMA DayOverStep ==
    ASSUME ExportInv, [ExportNext]_evars
    PROVE  DayOver'
  <1>t. ExportTypeOK /\ DayOver
    BY DEF ExportInv
  <1>a. /\ Day \in Int /\ Day > 0 /\ Grace \in Int /\ MaxTime \in Nat
    BY ExportAssumption DEF ExportAssumption
  <1> SUFFICES ASSUME NEW j \in Jobs, j \notin early', jpc'[j] # "idle"
               PROVE  from'[j] + Day + Grace <= clock'
    BY DEF DayOver
  <1>1. from[j] \in Int /\ clock \in Int /\ clock' \in Int /\ clock <= clock'
    BY <1>t, <1>a, JobKept DEF ExportTypeOK
  <1>2. CASE jpc[j] # "idle"
    <2>1. from'[j] = from[j] /\ j \notin early
      BY <1>2, JobKept
    <2>2. from[j] + Day + Grace <= clock
      BY <1>2, <1>t, <2>1 DEF DayOver
    <2>3. QED  BY <1>1, <1>a, <2>1, <2>2
  <1>3. CASE jpc[j] = "idle"
    <2>1. JobStart(j)
      BY <1>3, <1>t DEF ExportNext, evars, jvars, Stamp, Write, JobStart, Collect, Put,
                        JobFails, Tick, ExportTypeOK
    <2>2. from'[j] = PriorDay /\ clock' = clock /\ ~(clock % Day < Grace)
      BY <1>t, <2>1 DEF JobStart, ExportTypeOK
    <2>3. clock % Day \in Int
      BY <1>1, <1>a, Midnight
    <2>4. QED  BY <1>1, <1>a, <2>2, <2>3 DEF PriorDay
  <1>4. QED  BY <1>2, <1>3

\* No row is added to the day of a job of the schedule: whoever is still at work
\* made its event after that day.
LEMMA RowsOfClosed ==
    ASSUME ExportInv, [ExportNext]_evars,
           NEW j \in Jobs, j \notin early, jpc[j] # "idle"
    PROVE  \A r \in log' :
               from[j] <= created_at'[r.id] /\ created_at'[r.id] < from[j] + Day =>
                   r \in RowsOf(from[j])
  <1>t. ExportTypeOK /\ DayOver /\ Fresh
    BY DEF ExportInv
  <1>a. /\ Day \in Int /\ Grace \in Int /\ MaxDelay \in Int
        /\ MaxDelay <= Grace /\ MaxTime \in Nat
    BY ExportAssumption DEF ExportAssumption
  <1> SUFFICES ASSUME NEW r \in log', from[j] <= created_at'[r.id],
                      created_at'[r.id] < from[j] + Day
               PROVE  r \in RowsOf(from[j])
    OBVIOUS
  <1>1. CASE r \in log
    BY <1>1, RowsKept DEF RowsOf
  <1>2. CASE r \notin log
    <2>1. /\ r.id \in Writers /\ wpc[r.id] \in AtWork
          /\ created_at'[r.id] = created_at[r.id]
      BY <1>2, RowsKept
    <2>2. clock - created_at[r.id] <= MaxDelay
      BY <1>t, <2>1 DEF Fresh
    <2>3. from[j] + Day + Grace <= clock
      BY <1>t DEF DayOver
    <2>4. from[j] \in Int /\ clock \in Int /\ created_at[r.id] \in Int
      BY <1>t, <1>a, <2>1 DEF ExportTypeOK
    <2>5. QED  BY <1>a, <2>1, <2>2, <2>3, <2>4
  <1>3. QED  BY <1>1, <1>2

\* What a job of the schedule collected is its whole day.
LEMMA CollectedStep ==
    ASSUME ExportInv, [ExportNext]_evars
    PROVE  Collected'
  <1>t. ExportTypeOK /\ Collected
    BY DEF ExportInv
  <1>a. Day \in Int /\ MaxTime \in Nat
    BY ExportAssumption DEF ExportAssumption
  <1> SUFFICES ASSUME NEW j \in Jobs, j \notin early',
                      jpc'[j] \in {"put", "done", "skipped"}
               PROVE  /\ jpc'[j] \in {"put", "done"} => RowsOf(from[j])' \subseteq body'[j]
                      /\ jpc'[j] = "skipped" => RowsOf(from[j])' = {}
    BY DEF Collected
  <1>1. jpc[j] # "idle"
    BY <1>t DEF ExportNext, evars, jvars, Stamp, Write, JobStart, Collect, Put, JobFails,
                Tick, ExportTypeOK
  <1>2. from'[j] = from[j] /\ j \notin early
    BY <1>1, JobKept
  <1>3. RowsOf(from[j])' \subseteq RowsOf(from[j])
    BY <1>1, <1>2, RowsOfClosed DEF RowsOf
  <1>4. CASE Collect(j)
    <2> DEFINE rows == {r \in log : InRange(r, from[j], from[j] + Day)}
    <2>1. /\ body'[j] = rows
          /\ jpc'[j] = IF rows = {} THEN "skipped" ELSE "put"
      BY <1>4, <1>t DEF Collect, ExportTypeOK
    <2>2. RowsOf(from[j]) \subseteq rows
      <3>1. \A r \in log : created_at[r.id] \in Int
        BY <1>t, <1>a DEF ExportTypeOK, TypeOK
      <3>2. from[j] \in Int
        BY <1>t, <1>a DEF ExportTypeOK
      <3>3. QED  BY <1>a, <3>1, <3>2 DEF RowsOf, InRange
    <2>3. QED  BY <1>3, <2>1, <2>2
  <1>5. CASE ~Collect(j)
    <2>1. /\ jpc'[j] \in {"put", "done"} => jpc[j] \in {"put", "done"}
          /\ jpc'[j] = "skipped" => jpc[j] = "skipped"
          /\ body'[j] = body[j]
      BY <1>5, <1>t DEF ExportNext, evars, jvars, Stamp, Write, JobStart, Collect, Put,
                        JobFails, Tick, ExportTypeOK
    <2>2. QED  BY <1>2, <1>3, <1>t, <2>1 DEF Collected
  <1>6. QED  BY <1>4, <1>5

\* A step leaves the bucket alone, or one job at its upload puts its object.
LEMMA BucketStep ==
    ASSUME ExportInv, [ExportNext]_evars
    PROVE  \/ UNCHANGED bucket
           \/ \E i \in Jobs : /\ jpc[i] = "put" /\ PutObject(i)
                              /\ jpc' = [jpc EXCEPT ![i] = jpc'[i]]
                              /\ jpc'[i] \in {"done", "failed"}
                              /\ UNCHANGED <<log, created_at, from, body, early>>
  <1>t. ExportTypeOK
    BY DEF ExportInv
  <1>1. CASE \E i \in Jobs : Put(i) \/ JobFails(i)
    BY <1>1, <1>t DEF Put, JobFails, wvars, ExportTypeOK
  <1>2. CASE UNCHANGED bucket
    BY <1>2
  <1>3. QED
    BY <1>1, <1>2 DEF ExportNext, evars, jvars, Stamp, Write, JobStart, Collect, Tick

\* Jobs export whole days, and objects hold rows of their day.
LEMMA WithinDayStep ==
    ASSUME ExportInv, [ExportNext]_evars
    PROVE  WithinDay'
  <1>t. ExportTypeOK /\ WithinDay
    BY DEF ExportInv
  <1>a. Day \in Int /\ Day > 0 /\ MaxTime \in Nat
    BY ExportAssumption DEF ExportAssumption
  <1>b. clock \in Int
    BY <1>t, <1>a DEF ExportTypeOK
  <1>1. ASSUME NEW j \in Jobs, jpc'[j] \in {"collect", "put"}
        PROVE  \E k \in Int : from'[j] = Day * k
    <2>1. CASE jpc[j] = "idle"
      <3>1. JobStart(j)
        BY <1>1, <2>1, <1>t DEF ExportNext, evars, jvars, Stamp, Write, JobStart, Collect,
                                Put, JobFails, Tick, ExportTypeOK
      <3>2. from'[j] = clock - (clock % Day) - Day
        BY <1>t, <3>1 DEF JobStart, ExportTypeOK, PriorDay
      <3>3. PICK k \in Int : clock - (clock % Day) = Day * k
        BY <1>a, <1>b, Midnight
      <3>4. Day * (k - 1) = Day * k - Day
        BY <1>a
      <3>5. QED  BY <3>2, <3>3, <3>4
    <2>2. CASE jpc[j] # "idle"
      <3>1. jpc[j] \in {"collect", "put"}
        BY <1>1, <2>2, <1>t DEF ExportNext, evars, jvars, Stamp, Write, JobStart, Collect,
                                Put, JobFails, Tick, ExportTypeOK
      <3>2. from'[j] = from[j]
        BY <2>2, JobKept
      <3>3. QED  BY <1>t, <3>1, <3>2 DEF WithinDay
    <2>3. QED  BY <2>1, <2>2
  <1>2. ASSUME NEW j \in Jobs, jpc'[j] = "put"
        PROVE  \A r \in body'[j] : InRange(r, from[j], from[j] + Day)'
    <2>1. jpc[j] # "idle"
      BY <1>2, <1>t DEF ExportNext, evars, jvars, Stamp, Write, JobStart, Collect, Put,
                        JobFails, Tick, ExportTypeOK
    <2>2. from'[j] = from[j]
      BY <2>1, JobKept
    <2>3. CASE Collect(j)
      BY <1>t, <2>2, <2>3 DEF Collect, ExportTypeOK, InRange
    <2>4. CASE ~Collect(j)
      <3>1. jpc[j] = "put" /\ body'[j] = body[j]
        BY <1>2, <2>1, <2>4, <1>t DEF ExportNext, evars, jvars, Stamp, Write, JobStart,
                                Collect, Put, JobFails, Tick, ExportTypeOK
      <3>2. body[j] \subseteq log
        BY <1>t DEF ExportTypeOK
      <3>3. QED  BY <1>t, <2>2, <3>1, <3>2, RowsKept DEF WithinDay, InRange
    <2>5. QED  BY <2>3, <2>4
  <1>3. ASSUME NEW d \in 0..MaxTime
        PROVE  /\ s3'[d] # {} => \E k \in Int : d = Day * k
               /\ \A r \in s3'[d] : InRange(r, d, d + Day)'
    <2>1. CASE UNCHANGED bucket
      <3>1. s3'[d] = s3[d] /\ s3[d] \subseteq log
        BY <1>t, <2>1 DEF bucket, ExportTypeOK
      <3>2. QED  BY <1>t, <3>1, RowsKept DEF WithinDay, InRange
    <2>2. CASE \E i \in Jobs : /\ jpc[i] = "put" /\ PutObject(i)
                               /\ UNCHANGED <<log, created_at, from, body, early>>
      <3>1. PICK i \in Jobs : /\ jpc[i] = "put" /\ PutObject(i)
                              /\ UNCHANGED <<log, created_at, from, body, early>>
        BY <2>2
      <3>2. s3'[d] = IF d = from[i] THEN body[i] ELSE s3[d]
        BY <1>t, <3>1 DEF PutObject, ExportTypeOK
      <3>3. CASE d = from[i]
        BY <1>t, <3>1, <3>2, <3>3 DEF WithinDay, InRange
      <3>4. CASE d # from[i]
        BY <1>t, <3>1, <3>2, <3>4 DEF WithinDay, InRange
      <3>5. QED  BY <3>3, <3>4
    <2>3. QED  BY <2>1, <2>2, BucketStep
  <1>4. QED  BY <1>1, <1>2, <1>3 DEF WithinDay

\* An object is replaced by a complete one, or the day is marked as the work of
\* a job run by hand.
LEMMA ArchiveStep ==
    ASSUME ExportInv, [ExportNext]_evars
    PROVE  ArchiveComplete'
  <1>t. ExportTypeOK /\ Collected /\ ArchiveComplete
    BY DEF ExportInv
  <1>c. Collected'
    BY CollectedStep
  <1> SUFFICES ASSUME NEW j \in Jobs, j \notin early', jpc'[j] \in {"done", "skipped"},
                      from'[j] \notin partial'
               PROVE  RowsOf(from[j])' \subseteq s3'[from'[j]]
    BY DEF ArchiveComplete
  <1>1. CASE jpc'[j] = "skipped"
    BY <1>1, <1>c DEF Collected
  <1>2. CASE jpc'[j] = "done"
    <2>1. jpc[j] \in {"put", "done"}
      BY <1>2, <1>t DEF ExportNext, evars, jvars, Stamp, Write, JobStart, Collect, Put,
                        JobFails, Tick, ExportTypeOK
    <2>2. from'[j] = from[j] /\ j \notin early
      BY <2>1, JobKept
    <2>3. RowsOf(from[j])' \subseteq RowsOf(from[j])
      BY <2>1, <2>2, RowsOfClosed DEF RowsOf
    <2>4. CASE UNCHANGED bucket
      <3>1. CASE jpc[j] = "done"
        BY <1>t, <2>2, <2>3, <2>4, <3>1 DEF ArchiveComplete, bucket
      <3>2. CASE jpc[j] = "put"
        <4>1. PutObject(j)
          BY <1>2, <3>2, <1>t DEF ExportNext, evars, jvars, Stamp, Write, JobStart, Collect,
                                  Put, JobFails, Tick, ExportTypeOK
        <4>2. s3'[from[j]] = body[j]
          BY <1>t, <4>1 DEF PutObject, ExportTypeOK
        <4>3. RowsOf(from[j]) \subseteq body[j]
          BY <1>t, <2>2, <3>2 DEF Collected
        <4>4. QED  BY <2>2, <2>3, <4>2, <4>3
      <3>3. QED  BY <2>1, <3>1, <3>2
    <2>5. CASE \E i \in Jobs : /\ jpc[i] = "put" /\ PutObject(i)
                               /\ jpc' = [jpc EXCEPT ![i] = jpc'[i]]
                               /\ UNCHANGED <<log, created_at, from, body, early>>
      <3>1. PICK i \in Jobs : /\ jpc[i] = "put" /\ PutObject(i)
                              /\ jpc' = [jpc EXCEPT ![i] = jpc'[i]]
        BY <2>5
      <3>2. CASE from[i] = from[j]
        <4>1. i \notin early
          BY <2>2, <3>1, <3>2 DEF PutObject
        <4>2. RowsOf(from[i]) \subseteq body[i]
          BY <1>t, <3>1, <4>1 DEF Collected
        <4>3. s3'[from[i]] = body[i]
          BY <1>t, <3>1 DEF PutObject, ExportTypeOK
        <4>4. QED  BY <2>2, <2>3, <3>2, <4>2, <4>3
      <3>3. CASE from[i] # from[j]
        <4>1. jpc[j] = "done"
          BY <1>2, <1>t, <3>1, <3>3 DEF ExportTypeOK
        <4>2. s3'[from[j]] = s3[from[j]]
          BY <1>t, <3>1, <3>3 DEF PutObject, ExportTypeOK
        <4>3. from[j] \notin partial
          BY <2>2, <3>1, <3>3 DEF PutObject
        <4>4. QED  BY <1>t, <2>2, <2>3, <4>1, <4>2, <4>3 DEF ArchiveComplete
      <3>4. QED  BY <3>2, <3>3
    <2>6. QED  BY <2>4, <2>5, BucketStep
  <1>3. QED  BY <1>1, <1>2

LEMMA ExportStepInv == ExportInv /\ [ExportNext]_evars => ExportInv'
  BY ExportChainInv, ExportTypeStep, FreshStep, DayOverStep, CollectedStep,
     WithinDayStep, ArchiveStep DEF ExportInv

LEMMA ExportSpecInv == ExportSpec => []ExportInv
  BY ExportInitInv, ExportStepInv, PTL DEF ExportSpec

-----------------------------------------------------------------------------
\* The state of the export and of the writers beside it is always well-typed:
\* in particular a job and an object hold committed rows only.
THEOREM ExportTypeCorrect == ExportSpec => []ExportTypeOK
  <1>1. ExportInv => ExportTypeOK
    BY DEF ExportInv
  <1>2. QED  BY <1>1, ExportSpecInv, PTL

\* Whatever the writers, the jobs run by hand and the faults do, the object of a
\* day that a scheduled run of export_audit_to_s3.py has stored stays complete.
THEOREM ExportArchiveComplete == ExportSpec => []ArchiveComplete
  <1>1. ExportInv => ArchiveComplete
    BY DEF ExportInv
  <1>2. QED  BY <1>1, ExportSpecInv, PTL

\* The inclusive upper end of the query duplicates a row into two objects only
\* when it is stamped with the midnight between them.
THEOREM ExportSharedOnlyAtMidnight == ExportSpec => []SharedOnlyAtMidnight
  <1>1. ExportInv => SharedOnlyAtMidnight
    <2> SUFFICES ASSUME ExportInv, NEW d \in 0..MaxTime, NEW e \in 0..MaxTime, d < e,
                        NEW r \in s3[d] \cap s3[e]
                 PROVE  created_at[r.id] = e /\ e = d + Day
      BY DEF SharedOnlyAtMidnight
    <2>a. Day \in Int /\ Day > 0 /\ MaxTime \in Nat
      BY ExportAssumption DEF ExportAssumption
    <2>1. \E k \in Int : d = Day * k
      BY DEF ExportInv, WithinDay
    <2>2. \E k \in Int : e = Day * k
      BY DEF ExportInv, WithinDay
    <2>3. d + Day <= e
      BY <2>a, <2>1, <2>2, DaysApart
    <2>4. e <= created_at[r.id] /\ created_at[r.id] <= d + Day
      BY <2>a DEF ExportInv, WithinDay, InRange
    <2>5. created_at[r.id] \in Int /\ d \in Int /\ e \in Int
      BY <2>a DEF ExportInv, ExportTypeOK, TypeOK
    <2>6. QED  BY <2>a, <2>3, <2>4, <2>5
  <1>2. QED  BY <1>1, ExportSpecInv, PTL

\* The export only reads: what the writers do beside it is a behaviour of AuditLog,
\* so the chain, its one row per call and the refinement of SerialChain are as there.
THEOREM ExportRefinesWriters == ExportSpec => WriterSpec
  <1>1. ExportInit => WriterInit
    BY DEF ExportInit
  <1>2. ExportInv /\ [ExportNext]_evars => [WriterNext]_wvars
    BY ExportChainInv
  <1>3. QED  BY <1>1, <1>2, ExportSpecInv, PTL DEF ExportSpec, WriterSpec

=============================================================================
