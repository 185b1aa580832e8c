----------------------------- MODULE AuditExport ----------------------------
(***************************************************************************)
(* The daily copy of the audit log to S3: scripts/export_audit_to_s3.py,   *)
(* run by .github/workflows/audit-export.yml, beside the writers of        *)
(* AuditLog.  It selects rows by created_at, which a writer fixes before   *)
(* it waits for a connection and for the chain lock, so a row may be       *)
(* committed long after the time it bears.                                 *)
(*                                                                         *)
(* A day is named by its first tick.  The job has a pool of its own and    *)
(* takes no connection from the writers.                                   *)
(***************************************************************************)
EXTENDS AuditLog

CONSTANTS
    Jobs,      \* runs of the script, by the schedule or by hand
    Day,       \* ticks in a day
    Grace,     \* how long after midnight the schedule starts a job (01:00 UTC)
    MaxDelay,  \* how long a row may take from its created_at to its commit
    MaxTime    \* bound: the clock stops here

ASSUME ExportAssumption ==
    /\ Day \in Nat \ {0}
    /\ Grace \in Nat
    /\ MaxDelay \in Nat
    /\ MaxDelay <= Grace
    /\ MaxTime \in Nat

VARIABLES
    clock,       \* UTC, the same for the writers and the job
    created_at,  \* when the AuditEvent of each writer was made
    jpc,         \* where each job is
    from,        \* the first tick of the day it exports
    body,        \* the rows it has collected
    s3,          \* the object audit-log/{date}.ndjson of each day, {} without one
    early,       \* history: jobs started by hand before the scheduled hour
    partial      \* history: days whose object is the work of such a job

bucket == <<s3, partial>>
jvars == <<jpc, from, body, early, bucket>>
evars == <<wvars, clock, created_at, jvars>>

ExportTypeOK ==
    /\ TypeOK
    /\ clock \in 0..MaxTime
    /\ created_at \in [Writers -> 0..MaxTime]
    /\ jpc \in [Jobs -> {"idle", "collect", "put", "done", "skipped", "failed"}]
    /\ from \in [Jobs -> 0..MaxTime]
    /\ DOMAIN body = Jobs /\ \A j \in Jobs : body[j] \subseteq log
    /\ DOMAIN s3 = 0..MaxTime /\ \A d \in 0..MaxTime : s3[d] \subseteq log
    /\ early \subseteq Jobs
    /\ partial \subseteq 0..MaxTime

ExportInit ==
    /\ WriterInit
    /\ clock = 0
    /\ created_at = [w \in Writers |-> 0]
    /\ jpc = [j \in Jobs |-> "idle"]
    /\ from = [j \in Jobs |-> 0]
    /\ body = [j \in Jobs |-> {}]
    /\ s3 = [d \in 0..MaxTime |-> {}]
    /\ early = {}
    /\ partial = {}

-----------------------------------------------------------------------------
AtWork == {"conn"} \cup InTransaction

\* AuditEvent.timestamp is set when the event is made, before the pool.
Stamp(w) ==
    /\ Begin(w)
    /\ created_at' = [created_at EXCEPT ![w] = clock]
    /\ UNCHANGED <<clock, jvars>>

Write(w) == (WriterStep(w) \/ Fail(w)) /\ UNCHANGED <<clock, created_at, jvars>>

\* _prior_utc_day: the last midnight, and the one before it.
PriorDay == clock - (clock % Day) - Day

\* The schedule or workflow_dispatch, which may come at any hour.
JobStart(j) ==
    /\ jpc[j] = "idle"
    /\ clock >= Day
    /\ early' = early \cup IF clock % Day < Grace THEN {j} ELSE {}
    /\ from' = [from EXCEPT ![j] = PriorDay]
    /\ jpc' = [jpc EXCEPT ![j] = "collect"]
    /\ UNCHANGED <<wvars, clock, created_at, body, bucket>>

\* Seeded bug: a row of the first instant of the day is left out.
InRangeOpen(r, first, last) == created_at[r.id] > first /\ created_at[r.id] <= last

\* WHERE created_at >= $1 AND created_at <= $2
InRange(r, first, last) == created_at[r.id] >= first /\ created_at[r.id] <= last

\* export_audit_log: one cursor, one snapshot.  Without rows nothing is put.
Collect(j) ==
    LET rows == {r \in log : InRange(r, from[j], from[j] + Day)} IN
    /\ jpc[j] = "collect"
    /\ body' = [body EXCEPT ![j] = rows]
    /\ jpc' = [jpc EXCEPT ![j] = IF rows = {} THEN "skipped" ELSE "put"]
    /\ UNCHANGED <<wvars, clock, created_at, from, early, bucket>>

\* Seeded bug: the object is named after the day of the run.
PutObjectOfToday(j) ==
    /\ s3' = [s3 EXCEPT ![clock - (clock % Day)] = body[j]]
    /\ UNCHANGED partial

\* put_object replaces the object of that date.
PutObject(j) ==
    /\ s3' = [s3 EXCEPT ![from[j]] = body[j]]
    /\ partial' = IF j \in early THEN partial \cup {from[j]} ELSE partial \ {from[j]}

Put(j) ==
    /\ jpc[j] = "put"
    /\ PutObject(j)
    /\ jpc' = [jpc EXCEPT ![j] = "done"]
    /\ UNCHANGED <<wvars, clock, created_at, from, body, early>>

\* The database or S3 fails; the object may have been stored all the same.
JobFails(j) ==
    /\ DbFaults
    /\ \/ jpc[j] \in {"collect", "put"} /\ UNCHANGED bucket
       \/ jpc[j] = "put" /\ PutObject(j)
    /\ jpc' = [jpc EXCEPT ![j] = "failed"]
    /\ UNCHANGED <<wvars, clock, created_at, from, body, early>>

\* Time passes, but no writer is left at work for longer than MaxDelay.
Tick ==
    /\ clock < MaxTime
    /\ \A w \in Writers : wpc[w] \in AtWork => clock - created_at[w] < MaxDelay
    /\ clock' = clock + 1
    /\ UNCHANGED <<wvars, created_at, jvars>>

ExportNext ==
    \/ \E w \in Writers : Stamp(w) \/ Write(w)
    \/ \E j \in Jobs : JobStart(j) \/ Collect(j) \/ Put(j) \/ JobFails(j)
    \/ Tick

ExportSpec == ExportInit /\ [][ExportNext]_evars

-----------------------------------------------------------------------------
\* The rows of a day: from its first instant up to the next midnight.
RowsOf(d) == {r \in log : d <= created_at[r.id] /\ created_at[r.id] < d + Day}

\* Once a job of the schedule has ended well, the object of its day holds every
\* row of that day, for good: no row of the day is committed later, and no other
\* job, slower or run again, puts back an older copy.  This is what the hour
\* between midnight and the job is for; the copy of a job run by hand before it
\* is only as good as the moment it was taken.
ArchiveComplete ==
    \A j \in Jobs \ early :
        jpc[j] \in {"done", "skipped"} /\ from[j] \notin partial =>
            RowsOf(from[j]) \subseteq s3[from[j]]

\* Two objects have a row in common only if it is stamped with the midnight
\* between them: the range of the query includes both of its ends.
SharedOnlyAtMidnight ==
    \A d, e \in 0..MaxTime : d < e =>
        \A r \in s3[d] \cap s3[e] : created_at[r.id] = e /\ e = d + Day

\* The inductive invariant behind them.  A row that is still to be committed is
\* no older than MaxDelay, so a job that started after the hour has a day
\* behind it to which nothing is added (DayOver); what it collected is then the
\* day (Collected), whoever put an object before it.
Fresh ==
    \A w \in Writers : wpc[w] \in AtWork =>
        created_at[w] <= clock /\ clock - created_at[w] <= MaxDelay

DayOver ==
    \A j \in Jobs \ early : jpc[j] # "idle" => from[j] + Day + Grace <= clock

Collected ==
    \A j \in Jobs \ early :
        /\ jpc[j] \in {"put", "done"} => RowsOf(from[j]) \subseteq body[j]
        /\ jpc[j] = "skipped" => RowsOf(from[j]) = {}

\* Whole days apart, and rows inside their day, both midnights included.
WithinDay ==
    /\ \A j \in Jobs : jpc[j] \in {"collect", "put"} => \E k \in Int : from[j] = Day * k
    /\ \A j \in Jobs : jpc[j] = "put" => \A r \in body[j] : InRange(r, from[j], from[j] + Day)
    /\ \A d \in 0..MaxTime : s3[d] # {} => \E k \in Int : d = Day * k
    /\ \A d \in 0..MaxTime : \A r \in s3[d] : InRange(r, d, d + Day)

ExportInv ==
    /\ ChainInv
    /\ ExportTypeOK
    /\ Fresh
    /\ DayOver
    /\ Collected
    /\ WithinDay
    /\ ArchiveComplete

=============================================================================
