# A TLA+ model of the MCP control plane

The gateway in `app/` lets AI agents call infrastructure tools (Kubernetes,
Jenkins, Terraform, Prometheus, tickets) over HTTP. Every call is authenticated,
rate limited, checked by OPA, if need be held for a human's approval in Slack,
executed, and written to a hash-chained audit log. This directory holds TLA+
models of those parts, the TLC instances that check them, and TLAPS proofs that
the properties that matter most hold for every value of the constants.

    tlc -workers 2 -config MCApprovalGate_overlap.cfg MCApprovalGate   # one run
    tlapm ApprovalGateProofs.tla                                       # one proof module

`PROJECT.json` lists the runs, the definition-to-source map, the seeded bugs, the
disagreements between code and documentation, and the hazards the properties aim
at.

## 1. The system

Several gateway processes (uvicorn, asyncio) run behind a load balancer and share
one Redis and one PostgreSQL. A handler runs without interruption from one `await`
to the next; between two awaits every other handler, in this or another process,
may run. All the difficult behaviour comes from there: a value read from Redis or
PostgreSQL before an `await` is used after it.

| Part | State | Operations | Correct when |
|---|---|---|---|
| `/mcp` pipeline (`main.py`, `middleware/auth.py`) | per request | authenticate, rate limit, dispatch, scope check, OPA, hold / deny / execute, audit | only authorised calls run; each is answered; what is answered is audited |
| interceptor (`interceptor.py`) | none | validate the call, infer the environment, build OPA's input | OPA sees what will be executed |
| OPA client and policy (`authz/opa.py`, `policies/`) | policy data | evaluate | fails closed; approval is asked for before allow is looked at |
| approval gate (`approvals.py`, `slack.py`, `main.py`) | `approval:<id>` in Redis, with a TTL | create, notify, decide, resume | decided once, executed at most once, never after a denial |
| audit log, writing (`audit.py`, `db.py`) | `audit_log`, its sequence, an advisory lock, the connection pool | `record_tool_call` | one row per call, each hashed over its predecessor |
| audit log, reading (`audit.py`, `main.py`) | a page, a verdict, a cursor | `query_audit_log`, `verify_rows`, `export_audit_log` | a verdict means what it says; an export is a prefix of history; nobody waits forever |
| rate limiter (`middleware/rate_limit.py`) | a sorted set per agent in Redis | `check` | no admitted call is forgotten inside its window; the quota holds |
| SSE hub (`sse_hub.py`, `main.py`) | queues per agent, in one process | subscribe, publish, the generator of `GET /mcp/sse` | a connected agent gets what its process publishes, once and in order; queues go with their connections |
| executors (`tools/`) | the cached Kubernetes configuration and clients | one function per tool | the namespace that is changed is the one the policy saw; an answer tells the truth about the effect |
| daily export (`scripts/export_audit_to_s3.py`) | one S3 object per day | collect yesterday's rows, put them | no row of a day is missing from its object |
| migrations, telemetry, logging, deployment | | | |

How they interact: the `/mcp` handler calls the interceptor, OPA, the approval
store, Slack, an executor and `record_tool_call`; the Slack callback calls the
approval store, the executor, `record_tool_call` and the SSE hub. Both keep their
shared state in Redis and PostgreSQL only, and a held call passes from the first
handler to the second through the approval record. Writers, queries and exports of
the audit log share one pool of ten connections.

What is hard to test, in the words of the hazard list: callbacks that overlap
between the GET and the SET of `decide_approval`; redelivered and late callbacks;
a key that expires under a handler; an executor that has run when the audit write
fails; a process that dies between storing a decision and acting on it; an OPA
that does not answer; writers that would chain off the same row; an INSERT rolled
back, a COMMIT whose reply is lost; an integrity check over rows that change under
it; a pool at its limit; overlapping rate-limit checks on clocks that differ; rows
that commit after the time they bear; a five-second wait that ends as an event is put;
a downstream system that acts after the gateway has given up.

## 2. Modules

A step of every model is one `await`: what the remote side does, or what the
handler does once the answer is back. An `async` function appears as a program
counter per call (`pc`, `call`, `stage`, `wpc`, `rpc`).

| Module | Models | Composes / refines |
|---|---|---|
| `ApprovalGate` | the `require_approval` branch of `/mcp`, `approvals.py`, the decide endpoint, `slack.py` | refines `AtomicGate` when callbacks do not overlap |
| `AtomicGate` | what the gate promises: pending, then one final decision, then at most one run | |
| `Policy` | `authz.rego`, `data.json`, `_infer_environment`, the branch on `PolicyDecision` | |
| `Gateway` | middleware, dispatch, OPA, execution and audit of a request | extends `ApprovalGate` and `Policy`; refines `ApprovalGate` |
| `AuditLog` | `record_tool_call` over PostgreSQL | refines `SerialChain` |
| `SerialChain` | a log appended to in one step | |
| `AuditVerify` | queries, the integrity check, exports, and changes by hand | extends `AuditLog`; refines it when nothing is changed by hand |
| `RateLimiter` | `SlidingWindowRateLimiter.check` | |
| `AuditExport` | the daily export by `created_at`, the schedule and runs by hand | extends `AuditLog` |
| `SseHub` | `sse_hub.py` and the generator of `GET /mcp/sse` | its `Publish` is the last step of `ApprovalGate`'s handlers |
| `Executors` | `tools_spec.py`, `k8s_client.py`, `_execute_tool`, against downstream systems | extends `Policy`; its outcomes are those `Gateway`'s `Execute` chooses from |
| `MC...` | symmetry sets and the key registry of the TLC instances | |
| `...Proofs` | theorems | |

**ApprovalGate.** `status`, `expires_at` and `ttl` are the Redis record; `ttl` is
Redis's own expiry and `NoTTL` a key without one. `call` is the agent's handler:
`RequestApproval`, `CreatePending`, `Notify`, `AuditPending`, each with its failure.
`pc` is the handler of a callback: `Receive` (signature and body), `Get`, `Check`
(the three early returns of `decide_approval`, in order), `Set`, `Act` (a denial, or
the synchronous executor), `Audit`, `Publish`. A failed `SET` or `COMMIT` may have
been executed before its reply was lost. HMAC is ideal, so a genuine signature is
Slack's, and Slack signs once it has been sent a message; but the signature covers the
timestamp and the body, and the approval id is in the URL only, so `Receive` lets a
genuine body name any approval that was ever issued. `late`, `foreign` and
`executions` are history: which callbacks arrived after a decision, which carry a body
signed outside the life of their approval (give or take the tolerance), which ran the
executor.

**Policy, Gateway.** A request is a key, a method, a tool and a namespace; one
namespace stands for each prefix `_infer_environment` knows, plus `kube-system`, one
without a prefix, none at all, and one that is not a string (the code raises). A
request and its approval share a name. `Gateway` adds the handler's `stage` and
reuses the gate's actions; when OPA says `require_approval`, `Hold` is
`RequestApproval`. An OPA that cannot be asked or does not answer in JSON is a denial
(`OpaFails`), one that answers JSON of another shape is a 500 (`OpaBreaks`). The rate
limiter's verdict is a free choice here, since
`RateLimiter` models it. The keys of the instances are `test_key` of `API_KEYS` and
one agent per further role of `data.json`, scoped to the role's tools as
`docs/rego-policies.md` ("Adding a role") asks; the theorems hold for any registry.

**AuditLog, AuditVerify.** A writer is one call of `record_tool_call`; its steps are
the statements of its transaction. `lock` is the advisory lock, `nextseq` the
BIGSERIAL, which no rollback returns. SHA-256 is a free constructor (`RowHash`) over the
payload, and the payload is the columns without delimiters: `args` stands for the hashed
columns, and `Payload` makes "shifted" ones, with characters moved between neighbours,
equal to those written. `prev_hash` and `id` have a fixed length and stay apart.
`Jsonb` is what the table gives back for the arguments and the result: the rows of
`Lossy` hold a number that jsonb does not keep as Python wrote it (1e+16, -0.0).
`result_status` stands for the columns `_row_hash` leaves out. Readers fetch any subset of the
rows (filters and paging), give the connection back, take another and verify row by
row against predecessors looked up afresh. Changes by hand are the one of
`tests/test_audit_docker_integration.py` and four more: characters moved between hashed
columns, an unhashed column, a row whose hash is recomputed, a deletion.

**RateLimiter.** One agent's sorted set, one action per Redis command; ZADD and
EXPIRE are one MULTI. Each process's clock may be up to `Skew` ahead. `FailOpen` is
the `RedisError` branch. Scores have fractions of a second and Retry-After does not,
so a second is `Second` ticks of the clock and `RetryAfter` rounds down. `reset` and
`refused` are history: when the refusing member leaves the window, and when the refusal
was computed, which is when the agent starts to count; `now` was read before the round
trips.

**AuditExport.** `created_at` is fixed by `Stamp`, before the pool and the lock; `Write`
is the rest of `AuditLog`'s writer. A job is one run of the script: `JobStart` computes
yesterday, `Collect` is the cursor (one snapshot; an empty day puts nothing), `Put`
replaces the object of that day. The schedule starts jobs `Grace` after midnight,
`workflow_dispatch` at any time; `early` and `partial` are history that tells the two
apart. `MaxDelay` is the one assumption: how long a row may wait between its
`created_at` and its commit. The code does not bound it; the schedule's hour is what
it relies on.

**SseHub.** Every process has a hub. `Connect` is the start of the response, which the
agent sees; `Subscribe`, a later step, starts the generator and registers the queue. A
connection has one queue and a generator that is testing for disconnection (`check`), waiting in `wait_for` (`wait`) or at its `yield`
(`send`). `put` on an unbounded queue and `get` on one that is not empty do not suspend,
so `Publish` is one step and so is taking the head. A time-out and a put may come in
either order. A disconnection is seen by the loop or cancels the generator, at any
await; both run the `finally` block (`Unsubscribe`). What of a decision is published, and
when, is `ApprovalGate`'s business (`pushed`); the two modules share the call only.
A composed instance adds the product of their states and no interaction.

**Executors.** One call, as the policy let it through, is tried up to `Attempts` times,
maybe by an agent whose own patience ended while the first attempt still runs in the
other process. Each executor is an operator of its name: from the answer to its last
request to the set of what it may do next. `Begin` is everything up to the first request
(arguments in the code's order, settings, `_load_config`); `Answer`, `Expire` and `Break`
are the ways a request ends; `Upgrade`, `Perform` and `Refuse` are the downstream
system's own steps and need not wait for, or be in time for, the gateway. `run` maps
urllib3's `MaxRetryError` and nothing else; a timeout of a request urllib3 does not retry
is its bare exception, so a timeout is `executor_timeout` or an unhandled error. The
timeouts bound single socket operations, so `Expire` may happen and need not, and there is
no fairness in this module. The discovery of `apply_k8s_manifest` and the handshake of
`exec_into_pod` have no timeout. The DynamicClient discovers lazily: it has a kind in
memory or in its file (`FromCache`) or asks, in any process and any call, and always asks
about a kind it does not find. An exec request is first upgraded to a stream ("open"); its
command then starts ("done") or cannot be started ("unstarted"), which only the exec
status says and `exec_into_pod` does not read; a stream that ends or is cut at the timeout
is a success in each of the three. `required`, `reason`, `kind` and `inner` are what the
checks tell apart about the arguments. An executor is synchronous: a process runs one at
a time.

## 3. Runs

| Run | Instance | Checks |
|---|---|---|
| `gate_overlap` | 1 approval, 3 callbacks, 2 at a time, all faults | `TypeOK`, `ExecutionBound`, `LateCallbackRefused`, `AnsweredAudited`, `SignedForLifetime`, `ImmortalIsDecided` |
| `gate_serial` | 2 approvals, 2 callbacks, 1 at a time, Redis errors, crashes | `AtMostOneExecution`, `DeniedNeverExecutes`, `OneOutcomePushed`, `ImplementsAtomicGate` |
| `gateway_faults` | 1 request, 2 callbacks, 3 keys, 5 tools, all faults | `ExecutedWasAuthorised`, `HumanInTheLoop`, `AnswerAudited` |
| `gateway_live` | 1 request, 2 overlapping callbacks, OPA and database faults, fair | `RequestAnswered`, `ApprovedIsExecuted` |
| `audit_export` | 3 writers, pool of 2, 2 jobs, 3 days, faults | `ExportTypeOK`, `ArchiveComplete`, `SharedOnlyAtMidnight`, `ChainLinked`, `OneRowPerCall`, `ImplementsSerialChain` |
| `verify_changes` | 3 writers (one row that jsonb renumbers), 1 query, 2 changes by hand, faults | `FailExplained`, `PassMeansGenuine` |
| `verify_live` | 2 writers, 2 queries, 1 export, pool of 2, faults, fair | `ExportIsPrefix`, `WriterFinishes`, `QueryAnswered` |
| `limiter_overlap` | 4 requests, limit 2, 2 checks at a time, skew 1, faults | `RecentTracked`, `WindowBound`, `RetryAfterBound` |
| `hub_live` | 2 processes, 2 agents, 2 connections, 3 events, crashes, fair | `SubscribersExact`, `EventsOnceInOrder`, `EventDelivered`, `QueueReclaimed` |
| `executors` | every tool, 3 roles, 2 attempts, 2 processes, all answers, crashes | `TypeOK`, `WritesAreVetted`, `DefiniteErrorNoEffect`, `SuccessMeansDone` |

Two more runs check what the documentation says and end in a violation; section 6
reads their traces.

**What the passing runs show.** The gate's get-check-set is not atomic, and
`gate_overlap` says exactly what remains: the executor runs at most once per
overlapping callback, a callback that comes after the decision never acts (not
even when the record is overwritten or expires while it runs), and whatever is
answered 200 or pushed is in the log under the right label. `SignedForLifetime` says
what the signature is worth: it ties a body to an approval by time alone, so that a body
signed before the approval was requested or after it expired, the tolerance granted,
never decides it; that it was meant for this approval is nowhere checked, and no property
says so. `gate_serial` says that overlap is the only culprit: one callback at a time, the
gate is atomic, with Redis errors and crashes (failing audit writes are left out of this
run for its size; the theorems have them). `gateway_faults` follows a request end to end. `audit_export` and
`verify_changes` together say what the integrity check is worth: the chain itself is
always right; a `fail` has one of four causes, of which two, a rolled-back INSERT before
the row and a number that jsonb rewrites, need nobody to have touched anything; a `pass`
excludes a changed payload and deleted or rewritten predecessors, and nothing else. The
payload is the concatenation of the hashed columns: characters moved from one to the next
pass. `limiter_overlap` gives Retry-After as the agent counts it, from the refusal: with
the skew and the time of the check on one side, and a second and the skew on the other. `audit_export` also says what the
hour between midnight and the job is worth: with it, and with writers that commit
within it, an object the schedule stored is complete for good, and consecutive objects
share at most the rows of a midnight. `hub_live`: within one process, the hub is a
reliable queue to whoever is registered. `executors`: `validation_error`, `not_found` and
`permission_denied` mean that nothing was changed and nothing will be; success means it
was, except for `exec_into_pod`, where it means that the stream was opened; the other errors mean nothing, and a retry after them may repeat the effect.

**Bounds.** `MaxTime`, `MaxSeq`, `MaxChanges` and the sizes of the sets are the only
ones. Time: `TTL = 1`, `ReplayTolerance = 1` and `MaxTime = 2` give records that are
live, expire under a handler, and are gone, and signatures that are fresh and stale;
TTL and tolerance enter only as comparisons with the clock. Three callbacks, two of
them overlapping, are the fewest in which one overlaps, one comes late, and the bound
`MaxInFlight` is less than the number of callbacks. Two approvals in `gate_serial`
are for callbacks that go to different records; records share nothing else. Three
writers on two connections have one waiting for the pool and one for the lock, and
`AuditLogProofs` has no such bound. Days of two ticks and a clock up to 5 give two days
that can be exported, each before and after the scheduled hour, by two jobs that may
overlap. In the limiter, four requests with limit 2 and a window of four half seconds
over six fill a window, overshoot it, expire the key and start again. Two connections
are on one process or on two and of one agent or of two, all in one instance; three
events make a queue of two behind one that is being sent. Two attempts are a call and
its retry, which meet the first one's late effect and its process's cached state.
Three writers with one `Lossy` row give that row a good predecessor, a rolled-back one, a
changed one, and a successor; the other audit runs have no such row, since nothing they
check reads the table back. Deadlock checking is off:
each instance handles a fixed set of requests and then stops.

**Symmetry** is used in the safety runs only, over approvals, callbacks, writers (those in
`Lossy` and the others apart), readers, exports and requests, which no definition tells
apart.

**Fairness.** Weak fairness of every handler's own steps, in `gateway_live`,
`verify_live` and `hub_live` only: asyncio resumes a task whose await is complete, Redis and
PostgreSQL answer or fail, asyncpg serves pool waiters and PostgreSQL lock waiters
in the order they came, so none is passed over forever. In the audit log no fairness
is given to failures: a writer stuck on the lock is not saved by one. Requests and callbacks
need not arrive, and the clock need not advance. Three assumptions are about the world,
not the code: executors return, the client of an export reads to the end or goes away,
and so does an agent that is connected to `GET /mcp/sse`. `ApprovedIsExecuted` is checked without crashes and
without Redis errors: a process that dies, or a SET whose reply is lost, right after
storing "approved" loses the call for good, since a retried callback is answered
409. In `SseHub` the fair steps are a connection's own (`ConnStep`): a get that finds
nothing times out, a yield returns (if the agent does not read, a full socket holds it).
`Executors` has no liveness property: the code bounds no executor as a whole.

**Seeded bugs.** For every property of a passing run `PROJECT.json` names an operator
marked "Seeded bug" in the modules and the definition it replaces: a dropped check,
an early answer, a shared lock, an off-by-one. TLC finds the property violated under
the same configuration. They are used by nothing else.

## 4. Proofs

All theorems are for arbitrary sets of approvals, callbacks, keys, writers and
requests, under the named assumptions on constants in the modules that declare them
(positive limits, `Callbacks` and `Requests` finite, `NoApproval` not an approval, writers,
queries and exports distinct callers of the pool).

- `ApprovalGateProofs`: `Spec => []GateInv`. `ExecutionBound` is not inductive: what
  must be counted is `Candidates(a)`, the callbacks that have executed `a` *or still
  can* (those past the GET that saw "pending"). Until `a` is decided nobody has
  executed it and candidates are all in flight, so there are at most `MaxInFlight`;
  once it is decided, no callback joins, because no GET sees "pending" again
  (`ClosingStep`). `LateOrder`, `HandlerOrder`, `ExecutionOrder` and `OfferOrder` say
  what a handler has done by the time it is where it is, `StampOrder` that a body
  in `foreign` came in after its approval had expired (an earlier one is stale by the time
  the id exists), so that `Check` refuses it. From `GateInv` follow
  `GateTypeCorrect`, `GateExecutionBound`, `GateRefusesLate`, `GateAnswersAudited`
  and `GateSignedForLifetime`. For `MaxInFlight = 1`, `SerialInv` (nothing comes between
  a GET and its SET, or a SET and its execution) gives `SerialDeniedNeverExecutes` and
  the refinement `SerialImplementsAtomic`; `SerialAtMostOneExecution` is the bound with 1
  in it. `SerialOneOutcomePushed` needs to know who answers for an approval: `OutcomeInv`
  says that one callback alone is past its SET, that the decision it recorded is still
  there (`DecisionKept`: no other SET comes), and that its row says so.
  `GateImmortalIsDecided` is part of `GateInv`: only a SET of a decision keeps a
  TTL that may be gone.
- `GatewayProofs`: each step of the composition is a step of the gate or leaves it
  alone (`GatewayRefinesGate`), so `GateInv` carries over. `PipelineInv` adds how far
  a request can be without having been let through. From both:
  `GatewayAuthorises`, `GatewayHumanInTheLoop`, `GatewayAnswersAudited`.
- `AuditLogProofs`: `WriterSpec => []ChainInv`: who holds the lock knows the tip, and
  the row it is about to commit goes on top of every committed one. Gives
  `AuditTypeCorrect`, `AuditChainLinked`, `AuditOneRowPerCall`, the refinement
  `AuditImplementsSerialChain`, and, without database faults, `AuditPredecessor`
  (every number taken is a row or about to be one), the assumption `verify_rows`
  rests on.
- `AuditVerifyProofs`: three invariants over one base, `RowsInv`, which is what `ChainInv`
  leaves true of a table that changes by hand: rows are told apart by seq and by id, and
  the row about to be committed goes above every row that is or was there.
  - `VerifyPassMeansGenuine`, with any failures and any number of changes. A pass compares
    a row with the hash stored *now* at seq - 1, so what must be shown is that a hash that
    was rewritten or deleted never comes back. `HashInv`: every stored hash is over the
    current hash of the row before it or over a superseded one, no stored hash is
    superseded, and a superseded hash of a row rewritten before is itself over a superseded
    one. A rewrite that brought one back would need a predecessor whose hash is superseded
    (`ChangeKeepsHashes`). A row whose predecessor was rewritten or deleted under it is
    hashed over a superseded hash (`RowFits`), so it never verifies. What a pass vouches for
    is `Payload(row.args)`, since that is all the hash is over. `PassInv` carries this
    through the loop. The field `was` of `changed` is history, there for this argument.
  - `VerifyFailExplained`, with any failures and changes. `FailInv`: every number taken is a
    row, about to be one, touched or abandoned by a writer that rolled back; a writer has
    read the hash of the row just below its own unless that was touched or abandoned; so a
    row verifies unless one of these holds of it or of the number before it, or it is in
    `Lossy`. `FailMeansChanged`, the claim of the docstring, is what is left without
    failures and without `Lossy` rows; `verify_gap` shows it broken.
  - `VerifyExportIsPrefix` and `VerifyRefinesWriters`, without changes by hand: an export is
    part of the log and new rows go above it; queries and exports take connections from
    the writers and nothing else (`AppendPath` maps the pool to the writers' share of it).

  `VerifyTypeCorrect` includes that writers, queries and exports together stay within the
  pool. The smallest seq of `verify_rows`' loop and the largest of `LIMIT 1` exist because
  the naturals are well founded (`SmallestNat`, `LargestNat`).
- `SseHubProofs`: `Spec => []HubInv`. `HubSubscribersExact` and `HubEventsOnceInOrder` need
  `HeldOrder`: a generator holds an event only between taking it off the queue and yielding
  it, and a connection whose generator has not started has seen nothing.
- `ExecutorsProofs`: `Spec => []ExecInv`. The properties are about what is on the wire;
  `Checked` says what the executor has looked at by the time its first request, or its last,
  is out, `StreamOnly` that only an exec request is a stream. `ExecutorStarts` and `ExecutorContinues` go through the tools once, for
  all the actions that end a request. Gives `ExecutorsTypeCorrect`,
  `ExecutorsWritesAreVetted`, `ExecutorsDefiniteErrorNoEffect` and
  `ExecutorsSuccessMeansDone`.
- `AuditExportProofs`: `ExportSpec => []ExportInv`. `ArchiveComplete` needs to know why
  nothing is added to a stored day: a writer at work made its event at most `MaxDelay`
  ago (`Fresh`), a job of the schedule started `Grace` after its day (`DayOver`), and
  `MaxDelay <= Grace`; so what it collected stays the whole day (`Collected`).
  `WithinDay` keeps jobs and objects on whole days, which gives
  `ExportSharedOnlyAtMidnight`. Also `ExportTypeCorrect`, `ExportArchiveComplete`, and
  `ExportRefinesWriters`: beside the export the writers are those of `AuditLog`. That no
  writer takes longer than `MaxDelay` is assumed (`Tick`'s guard), not shown.
- `RateLimiterProofs`: `Spec => []LimiterInv`, which charges a check that has passed
  ZCARD as if its member were already there, and bounds the key's expiry from below
  by every member still in the window. Gives `LimiterTypeCorrect`,
  `LimiterTracksRecent` and `LimiterWindowBound`; `LimiterRetryAfterBound` needs only that
  no check's clock is further ahead than `Skew` (`WaitBound` does the rounding).

Only model-checked: the liveness properties of `gateway_live`, `verify_live` and `hub_live`
(fairness and ENABLED are beyond the prover). Every safety invariant of a passing run is a
theorem.

## 5. Plan

Done: the gate, the pipeline, the policy, the audit log on both sides, the daily
export, the rate limiter, the SSE hub, the executors, and the theorems above. Next:

1. Composition of `Gateway` with `AuditLog`: the handlers' atomic audit writes
   replaced by writers of the log. The refinement `ImplementsSerialChain` is what
   justifies them until then.

## 6. Where the code and its documentation disagree

With a run:

- `gate_denied`: an approving and a denying callback overlap, both find the record
  pending. The tool runs, the record ends as denied, and the log has both rows.
  `tools_spec.py:11`: "a denial or expiry never calls the executor at all". Two
  overlapping approvals run the tool twice in the same way, against
  `approvals.py:82` ("not act again"). A compare-and-set in Redis would make
  `MaxInFlight = 1` true of each approval, and with it everything `gate_serial` says.
- `verify_gap`: a writer fails between INSERT and COMMIT; the sequence has a gap; the
  next row, untouched, is reported as broken forever. `audit.py:208`: "each row's
  predecessor is always seq - 1".

Seen in the model or in the code, without a run of their own:

- A call outside the agent's scope is answered 403 and leaves no row (`audit.py:3`:
  "Every tool call - allowed, denied, ... - gets one row"); `AnswerAudited` is about
  calls that reached the policy for that reason.
- A change of a column `_row_hash` leaves out (the decision, for one), or of a row that
  is not on the page, or one that moves characters between two hashed columns, is not reported (`audit.py:6`: "editing or deleting any row breaks
  every hash computed after it"). `PassMeansGenuine` states what a pass does exclude.
- A row whose arguments or result hold a number that jsonb does not keep as written is
  reported as broken from the start (`audit.py:62`: "the hash is reproducible when
  recomputed later"). `FailExplained` names it as a cause of a fail.
- The Slack signature does not cover the approval id (`slack.py:95`, `main.py:415-424`):
  that a signed decision is for the approval it is posted to is not checked.
- A `200` of `GET /mcp/sse` goes out before the queue is registered; a result published in
  between is not pushed (`main.py:605`: "while this connection is open, a decision ... is
  pushed here").
- `k8s_client.py:71-75`: "only the very first call in this process's lifetime does a live
  HTTP request". The client discovers lazily, a group at a time, and asks again for a kind
  it does not know; each of these requests is without a timeout.
- `exec_into_pod` answers "executed" whatever the exec status says (`tools_spec.py:274-298`);
  the comment above it owns up to a cut stream, not to a command that could not be started.
- An OPA answer that is JSON but no object, or has no object for a result, is a 500
  without an audit row (`opa.py:44`, `opa.py:57`), where every other failure is a denial.
- `_prior_utc_day` documents `[start, end)`; the query includes both ends. A row stamped
  exactly midnight is in two objects (`SharedOnlyAtMidnight`).
- A job run by hand in the first hour of a day may copy the day before while rows of it
  are still to be committed, and, if it is slow, put that copy over the schedule's. A day
  whose job failed is never exported: the script only knows yesterday, though
  `audit-export.yml` offers manual runs "for testing/backfill".
- A result is pushed only to agents connected to the process that handled the callback
  (`sse_hub.py:5` says so; `helm/` runs two replicas), and not at all when the audit
  write before it fails.
- `config.py:3-5`: a slow dependency "can't hang a request past the bound ... 10s
  default, 30s max". The timeout is per socket operation of each request: an answer that
  trickles in does not meet it, `query_terraform_plan` makes three requests and
  `trigger_jenkins_job` two, the discovery and the exec handshake have none, and the
  executor holds the event loop meanwhile.
- `k8s_client.py:111`: timeouts "never reach the API server". A read timeout comes after
  the request was sent; `Perform` may precede or follow it. `main.py:344` calls an
  `executor_timeout` "retry me", `docs/tool-spec.md:816` leaves retries to the agent "to
  avoid duplicate side effects".
- A `reason` that is not a string is a 500 instead of a `validation_error`.
- A key that expires between the GET and the SET ... KEEPTTL comes back without an
  expiry (`approvals.py:96`: "not forever").
- An execution whose audit write fails has no row, and its retry is answered 409
  (`README.md:32`: "every tool call ... gets one append-only row").
- Overlapping rate-limit checks exceed the quota by up to their number minus one
  (`docs/architecture.md:118`); `WindowBound` is that bound.
- `docs/tool-spec.md:585`: "`maintenance/` jobs always require approval regardless of
  environment"; no rule reads a job's name, and a Jenkins call has no namespace from
  which to infer prod.
- `docs/api-design.md:422` and `docs/threat-model.md:133-134` describe a global cap of
  300 RPM and automatic suspension; neither is in the code.

## 7. What is not modelled

Response bodies, headers other than Retry-After, log lines, spans and metrics
(`otel.py`, `middleware/logging.py`): no behaviour depends on them. The status and
health endpoints, which change nothing. What the tools return, beyond success and the
class of an error; the effect of a write is that it happened. Alembic, Helm, Terraform
and the dashboards. OPA is taken to evaluate Rego as documented, Redis and PostgreSQL to
execute each command atomically, PostgreSQL at READ COMMITTED, S3 to be consistent, and
SHA-256 and HMAC to be ideal. Redis failover, which may lose writes, is not modelled. A
synchronous executor blocks its process; `Executors` has that, while `Gateway` lets the
other requests of the process go on, which adds behaviours and removes none.
