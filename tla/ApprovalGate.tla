---------------------------- MODULE ApprovalGate ----------------------------
(***************************************************************************)
(* The human-in-the-loop approval gate: app/approvals.py, the              *)
(* require_approval branch of the /mcp handler, the Slack callback         *)
(* /admin/approvals/{id}/decide (app/main.py) and the signature check of   *)
(* app/slack.py.                                                           *)
(*                                                                         *)
(* The gateway runs several asyncio processes over one Redis and one       *)
(* PostgreSQL.  A handler runs without interruption from one await to the  *)
(* next, so a step here is one await: what the remote side does, or what   *)
(* the handler does when the answer comes back.  Between two steps every   *)
(* other handler, and the clock, may move.                                 *)
(***************************************************************************)
EXTENDS Integers, FiniteSets

CONSTANTS
    Approvals,        \* approval ids (one per call that OPA holds)
    Callbacks,        \* deliveries of a Slack callback
    NoApproval,       \* the target of a callback that has not arrived
    TTL,              \* APPROVAL_TTL_SECONDS
    ReplayTolerance,  \* REPLAY_TOLERANCE_SECONDS
    MaxTime,          \* bound: the clock stops here
    MaxInFlight,      \* how many callbacks may be in progress at once
    Faults            \* what may fail: "redis", "db", "crash"

ASSUME GateAssumption ==
    /\ TTL \in Nat \ {0}
    /\ ReplayTolerance \in Nat
    /\ MaxTime \in Nat
    /\ MaxInFlight \in Nat \ {0}
    /\ IsFiniteSet(Callbacks)
    /\ NoApproval \notin Approvals
    /\ Faults \subseteq {"redis", "db", "crash"}

VARIABLES
    clock,       \* time.time(), shared by the processes and by Redis
    status,      \* the "status" field of the record under approval:<id>
    expires_at,  \* its "expires_at" field
    ttl,         \* when Redis drops the key; NoTTL when it never will
    call,        \* where the /mcp handler that asked for the approval is
    offered,     \* approvals whose Slack message was delivered
    pending_row, \* approvals with a committed "pending_approval" audit row
    pc,          \* where the handler of each callback is, or its HTTP status
    target,      \* the approval_id of its URL
    decision,    \* the "decision" field of its body
    seen,        \* the record's status as its GET returned it
    label,       \* the AuditEvent.decision it will write
    row,         \* the AuditEvent.decision it has committed
    executions,  \* the callbacks that ran the executor, per approval
    pushed,      \* the callbacks whose event went to sse_hub.publish
    late,        \* the callbacks that arrived after a decision was recorded
    foreign      \* the callbacks with a body signed outside the approval's life

record == <<status, expires_at, ttl>>
handler == <<pc, target, decision, seen, label>>
effects == <<row, executions, pushed, late, foreign>>
agent == <<call, offered, pending_row>>
vars == <<clock, record, agent, handler, effects>>

Labels == {"approval_denied", "allowed", "executor_timeout", "error"}
Active == {"get", "check", "set", "act", "audit", "publish"}
Answers == {"200", "400", "401", "409", "410", "500"}
CallActive == {"create", "notify", "audit"}
NoTTL == -1

\* GET and SET ... KEEPTTL treat a key past its TTL as missing.
Live(a) == status[a] # "absent" /\ (ttl[a] = NoTTL \/ clock < ttl[a])

Decided(a) == status[a] \in {"approved", "denied"}

InFlight == {c \in Callbacks : pc[c] \in Active}

TypeOK ==
    /\ clock \in 0..MaxTime
    /\ status \in [Approvals -> {"absent", "pending", "approved", "denied"}]
    /\ expires_at \in [Approvals -> Nat]
    /\ ttl \in [Approvals -> Nat \cup {NoTTL}]
    /\ call \in [Approvals -> CallActive \cup {"idle", "202", "500", "dead"}]
    /\ offered \subseteq Approvals
    /\ pending_row \subseteq Approvals
    /\ pc \in [Callbacks -> Active \cup Answers \cup {"idle", "dead"}]
    /\ target \in [Callbacks -> Approvals \cup {NoApproval}]
    /\ decision \in [Callbacks -> {"approve", "deny"}]
    /\ seen \in [Callbacks -> {"absent", "pending", "approved", "denied"}]
    /\ label \in [Callbacks -> Labels \cup {"none"}]
    /\ row \in [Callbacks -> Labels \cup {"none"}]
    /\ executions \in [Approvals -> SUBSET Callbacks]
    /\ pushed \subseteq Callbacks
    /\ late \subseteq Callbacks
    /\ foreign \subseteq Callbacks

Init ==
    /\ clock = 0
    /\ status = [a \in Approvals |-> "absent"]
    /\ expires_at = [a \in Approvals |-> 0]
    /\ ttl = [a \in Approvals |-> 0]
    /\ call = [a \in Approvals |-> "idle"]
    /\ offered = {}
    /\ pending_row = {}
    /\ pc = [c \in Callbacks |-> "idle"]
    /\ target = [c \in Callbacks |-> NoApproval]
    /\ decision = [c \in Callbacks |-> "deny"]
    /\ seen = [c \in Callbacks |-> "absent"]
    /\ label = [c \in Callbacks |-> "none"]
    /\ row = [c \in Callbacks |-> "none"]
    /\ executions = [a \in Approvals |-> {}]
    /\ pushed = {}
    /\ late = {}
    /\ foreign = {}

-----------------------------------------------------------------------------
(***************************************************************************)
(* The /mcp handler, once OPA has said require_approval.                   *)
(***************************************************************************)

\* create_pending_approval up to its SET: expires_at is read off this
\* process's clock before the request is sent.
RequestApproval(a) ==
    /\ call[a] = "idle"
    /\ call' = [call EXCEPT ![a] = "create"]
    /\ expires_at' = [expires_at EXCEPT ![a] = clock + TTL]
    /\ UNCHANGED <<clock, status, ttl, offered, pending_row, handler, effects>>

\* Seeded bug: SET ... KEEPTTL for the new key too, which then has no TTL.
StorePendingKeepTTL(a) ==
    /\ status' = [status EXCEPT ![a] = "pending"]
    /\ ttl' = [ttl EXCEPT ![a] = IF Live(a) THEN @ ELSE NoTTL]

\* SET approval:<id> ... EX TTL, executed by Redis.
StorePending(a) ==
    /\ status' = [status EXCEPT ![a] = "pending"]
    /\ ttl' = [ttl EXCEPT ![a] = clock + TTL]

CreatePending(a) ==
    /\ call[a] = "create"
    /\ StorePending(a)
    /\ call' = [call EXCEPT ![a] = "notify"]
    /\ UNCHANGED <<clock, expires_at, offered, pending_row, handler, effects>>

\* The SET raises; Redis may have executed it before the connection broke.
\* The exception leaves the handler, the agent sees a 500.
CreateFails(a) ==
    /\ "redis" \in Faults
    /\ call[a] = "create"
    /\ \/ StorePending(a)
       \/ UNCHANGED <<status, ttl>>
    /\ call' = [call EXCEPT ![a] = "500"]
    /\ UNCHANGED <<clock, expires_at, offered, pending_row, handler, effects>>

\* send_approval_request: an httpx error, or no webhook configured, is only
\* logged, so the handler goes on whether or not Slack got the message.
Notify(a) ==
    /\ call[a] = "notify"
    /\ offered' \in {offered, offered \cup {a}}
    /\ call' = [call EXCEPT ![a] = "audit"]
    /\ UNCHANGED <<clock, record, pending_row, handler, effects>>

AuditPending(a) ==
    /\ call[a] = "audit"
    /\ pending_row' = pending_row \cup {a}
    /\ call' = [call EXCEPT ![a] = "202"]
    /\ UNCHANGED <<clock, record, offered, handler, effects>>

\* record_tool_call raises; a COMMIT whose reply was lost has been applied.
AuditPendingFails(a) ==
    /\ "db" \in Faults
    /\ call[a] = "audit"
    /\ pending_row' \in {pending_row, pending_row \cup {a}}
    /\ call' = [call EXCEPT ![a] = "500"]
    /\ UNCHANGED <<clock, record, offered, handler, effects>>

-----------------------------------------------------------------------------
(***************************************************************************)
(* POST /admin/approvals/{id}/decide.                                      *)
(***************************************************************************)

\* Seeded bug: the HMAC is compared and the age of the timestamp is not.
VerifyHmacOnly(genuine, signed_at) == genuine

\* verify_signature: a genuine HMAC over a timestamp close to now.
VerifySignature(genuine, signed_at) ==
    /\ genuine
    /\ clock - signed_at <= ReplayTolerance
    /\ signed_at - clock <= ReplayTolerance

\* Approval ids are drawn by uuid4: nobody can name one before the SET of
\* create_pending_approval has gone out.
Issued == {a \in Approvals : call[a] \notin {"idle", "create"}}

\* A body signed between the request for the approval and its expiry, give or
\* take the tolerance.
SignedInLife(a, signed_at) ==
    /\ signed_at + ReplayTolerance >= expires_at[a] - TTL
    /\ signed_at <= expires_at[a] + ReplayTolerance

\* The handler up to the GET of decide_approval.  Only Slack can sign, and it
\* signs the clicks on the messages it was given.  The HMAC covers the
\* timestamp and the body (decision, decided_by, note); the approval id is in
\* the URL alone, so a genuine body may come with any issued id, whichever
\* message was clicked.  Anyone may post the rest.
Receive(c, a, d, genuine, signed_at, well_formed) ==
    /\ pc[c] = "idle"
    /\ a \in Issued
    /\ genuine => offered # {}
    /\ Cardinality(InFlight) < MaxInFlight
    /\ IF VerifySignature(genuine, signed_at) /\ well_formed
       THEN /\ pc' = [pc EXCEPT ![c] = "get"]
            /\ target' = [target EXCEPT ![c] = a]
            /\ decision' = [decision EXCEPT ![c] = d]
            /\ late' = IF Decided(a) THEN late \cup {c} ELSE late
            /\ foreign' = IF SignedInLife(a, signed_at) THEN foreign ELSE foreign \cup {c}
       ELSE /\ pc' = [pc EXCEPT ![c] = IF VerifySignature(genuine, signed_at)
                                       THEN "400" ELSE "401"]
            /\ UNCHANGED <<target, decision, late, foreign>>
    /\ UNCHANGED <<clock, record, agent, seen, label, row, executions, pushed>>

\* get_approval: Redis executes the GET.
Get(c) ==
    /\ pc[c] = "get"
    /\ seen' = [seen EXCEPT ![c] = IF Live(target[c]) THEN status[target[c]]
                                   ELSE "absent"]
    /\ pc' = [pc EXCEPT ![c] = "check"]
    /\ UNCHANGED <<clock, record, agent, target, decision, label, effects>>

\* Seeded bug: a record that was already decided is decided again.
CheckForgetsDecision(c) ==
    /\ pc[c] = "check"
    /\ pc' = [pc EXCEPT ![c] =
                IF seen[c] = "absent" \/ clock > expires_at[target[c]]
                THEN "410" ELSE "set"]
    /\ UNCHANGED <<clock, record, agent, target, decision, seen, label, effects>>

\* The three early returns of decide_approval, in their order.
Check(c) ==
    /\ pc[c] = "check"
    /\ pc' = [pc EXCEPT ![c] =
                IF seen[c] = "absent" THEN "410"
                ELSE IF seen[c] # "pending" THEN "409"
                ELSE IF clock > expires_at[target[c]] THEN "410"
                ELSE "set"]
    /\ UNCHANGED <<clock, record, agent, target, decision, seen, label, effects>>

\* Seeded bug: the request's "decision" is stored as it came.
StoreVerbatim(c) ==
    /\ status' = [status EXCEPT ![target[c]] = decision[c]]
    /\ ttl' = [ttl EXCEPT ![target[c]] = IF Live(target[c]) THEN @ ELSE NoTTL]

\* SET approval:<id> ... KEEPTTL, executed by Redis: the whole record is
\* overwritten whatever it holds by now, and a key that is gone comes back
\* without a TTL.
StoreDecision(c) ==
    LET a == target[c] IN
    /\ status' = [status EXCEPT ![a] = IF decision[c] = "approve"
                                       THEN "approved" ELSE "denied"]
    /\ ttl' = [ttl EXCEPT ![a] = IF Live(a) THEN @ ELSE NoTTL]

\* Seeded bug: the decision is answered without resuming the call.
SetWithoutResuming(c) ==
    /\ pc[c] = "set"
    /\ StoreDecision(c)
    /\ pc' = [pc EXCEPT ![c] = "200"]
    /\ UNCHANGED <<clock, expires_at, agent, target, decision, seen, label, effects>>

Set(c) ==
    /\ pc[c] = "set"
    /\ StoreDecision(c)
    /\ pc' = [pc EXCEPT ![c] = "act"]
    /\ UNCHANGED <<clock, expires_at, agent, target, decision, seen, label, effects>>

\* A GET or SET that raises; the SET may have been executed.
RedisFails(c) ==
    /\ "redis" \in Faults
    /\ \/ pc[c] \in {"get", "set"} /\ UNCHANGED <<status, ttl>>
       \/ pc[c] = "set" /\ StoreDecision(c)
    /\ pc' = [pc EXCEPT ![c] = "500"]
    /\ UNCHANGED <<clock, expires_at, agent, target, decision, seen, label, effects>>

\* Seeded bug: the branch on the decision is missing.
ActOnDenial(c, result) ==
    /\ pc[c] = "act"
    /\ pc' = [pc EXCEPT ![c] = "audit"]
    /\ label' = [label EXCEPT ![c] = result]
    /\ executions' = [executions EXCEPT ![target[c]] = @ \cup {c}]
    /\ UNCHANGED <<clock, record, agent, target, decision, seen, row, pushed, late, foreign>>

\* Seeded bug: a denial is logged under the label of an execution.
ActMislabels(c, result) ==
    /\ pc[c] = "act"
    /\ pc' = [pc EXCEPT ![c] = "audit"]
    /\ label' = [label EXCEPT ![c] = result]
    /\ executions' = IF decision[c] = "deny" THEN executions
                     ELSE [executions EXCEPT ![target[c]] = @ \cup {c}]
    /\ UNCHANGED <<clock, record, agent, target, decision, seen, row, pushed, late, foreign>>

\* A denial goes straight to its audit row.  An approval first runs
\* _execute_tool, which is synchronous and classifies its own errors.
Act(c, result) ==
    /\ pc[c] = "act"
    /\ pc' = [pc EXCEPT ![c] = "audit"]
    /\ IF decision[c] = "deny"
       THEN /\ label' = [label EXCEPT ![c] = "approval_denied"]
            /\ UNCHANGED executions
       ELSE /\ label' = [label EXCEPT ![c] = result]
            /\ executions' = [executions EXCEPT ![target[c]] = @ \cup {c}]
    /\ UNCHANGED <<clock, record, agent, target, decision, seen, row, pushed, late, foreign>>

\* record_tool_call commits.
Audit(c) ==
    /\ pc[c] = "audit"
    /\ row' = [row EXCEPT ![c] = label[c]]
    /\ pc' = [pc EXCEPT ![c] = "publish"]
    /\ UNCHANGED <<clock, record, agent, target, decision, seen, label,
                   executions, pushed, late, foreign>>

AuditFails(c) ==
    /\ "db" \in Faults
    /\ pc[c] = "audit"
    /\ row' \in {row, [row EXCEPT ![c] = label[c]]}
    /\ pc' = [pc EXCEPT ![c] = "500"]
    /\ UNCHANGED <<clock, record, agent, target, decision, seen, label,
                   executions, pushed, late, foreign>>

\* sse_hub.publish puts on unbounded queues and cannot suspend; the response
\* follows in the same step.
Publish(c) ==
    /\ pc[c] = "publish"
    /\ pushed' = pushed \cup {c}
    /\ pc' = [pc EXCEPT ![c] = "200"]
    /\ UNCHANGED <<clock, record, agent, target, decision, seen, label,
                   row, executions, late, foreign>>

-----------------------------------------------------------------------------
\* A process dies with the handlers it was running; nothing resumes them.
\* The balancer may have given it any of them.
Crash ==
    /\ "crash" \in Faults
    /\ \E C \in SUBSET InFlight,
          A \in SUBSET {a \in Approvals : call[a] \in CallActive} :
          /\ C # {} \/ A # {}
          /\ pc' = [c \in Callbacks |-> IF c \in C THEN "dead" ELSE pc[c]]
          /\ call' = [a \in Approvals |-> IF a \in A THEN "dead" ELSE call[a]]
    /\ UNCHANGED <<clock, record, offered, pending_row, target, decision, seen,
                   label, effects>>

Tick ==
    /\ clock < MaxTime
    /\ clock' = clock + 1
    /\ UNCHANGED <<record, agent, handler, effects>>

AgentStep(a) ==
    \/ CreatePending(a)
    \/ CreateFails(a)
    \/ Notify(a)
    \/ AuditPending(a)
    \/ AuditPendingFails(a)

Arrive(c) ==
    \E a \in Approvals, d \in {"approve", "deny"}, genuine, well_formed \in BOOLEAN,
       signed_at \in 0..(MaxTime + ReplayTolerance) : Receive(c, a, d, genuine, signed_at, well_formed)

HandlerStep(c) ==
    \/ Get(c)
    \/ Check(c)
    \/ Set(c)
    \/ RedisFails(c)
    \/ \E result \in {"allowed", "executor_timeout", "error"} : Act(c, result)
    \/ Audit(c)
    \/ AuditFails(c)
    \/ Publish(c)

Next ==
    \/ \E a \in Approvals : RequestApproval(a) \/ AgentStep(a)
    \/ \E c \in Callbacks : Arrive(c) \/ HandlerStep(c)
    \/ Crash
    \/ Tick

Spec == Init /\ [][Next]_vars

-----------------------------------------------------------------------------
(***************************************************************************)
(* Properties that hold for any number of overlapping callbacks.           *)
(***************************************************************************)

\* The get-check-set of decide_approval is not atomic, but once one SET has
\* been executed no later GET finds "pending": an approved call can be
\* executed by the callbacks that overlapped the deciding one, and by no
\* others.
ExecutionBound == \A a \in Approvals : Cardinality(executions[a]) <= MaxInFlight

\* A callback that arrives once a decision is recorded (a Slack retry, a
\* second click, a replay inside the tolerance) never acts on the approval:
\* it is answered 409, or 410 once the record has expired, even when the
\* record is overwritten or expires while it runs.
LateCallbackRefused ==
    \A c \in late : /\ pc[c] \notin {"set", "act", "audit", "publish", "200"}
                    /\ \A a \in Approvals : c \notin executions[a]

\* What decide_approval answers 200 for, or pushes to the agent, is in the
\* audit log under the label of what really happened: an executed call never
\* as a denial, a denial never as an execution.
AnsweredAudited ==
    \A c \in Callbacks :
        c \in pushed \/ pc[c] = "200" =>
            /\ row[c] # "none"
            /\ row[c] = "approval_denied" <=> c \notin executions[target[c]]

\* Time is all that ties a signed body to an approval.  A body that Slack signed
\* more than ReplayTolerance before the approval was requested, or after it
\* expired, never decides it and never runs its call, however late its handler
\* is scheduled and whatever the record goes through in between; and nothing
\* does before Slack has been sent a message.
SignedForLifetime ==
    \A c \in Callbacks :
        \/ pc[c] \in {"set", "act", "audit", "publish", "200"}
        \/ \E a \in Approvals : c \in executions[a]
        => c \notin foreign /\ offered # {}

\* SET ... KEEPTTL on a key that expired after the GET brings it back without
\* an expiry.  Such a record stays for good, but it always holds a decision:
\* no call stays open to approval beyond its TTL.
ImmortalIsDecided == \A a \in Approvals : ttl[a] = NoTTL => Decided(a)

(***************************************************************************)
(* Properties that hold when callbacks do not overlap (MaxInFlight = 1).   *)
(***************************************************************************)

\* One approval, at most one run of the executor, whatever Slack redelivers.
AtMostOneExecution == \A a \in Approvals : Cardinality(executions[a]) <= 1

\* A call whose record says denied has never reached the executor.
DeniedNeverExecutes == \A a \in Approvals : status[a] = "denied" => executions[a] = {}

\* The agent is told one outcome per approval, and it is told of a denial just
\* when the status endpoint shows one.  (A run that failed is pushed as an
\* error while the record says approved.)
OneOutcomePushed ==
    \A c1, c2 \in pushed :
        /\ target[c1] = target[c2] => c1 = c2
        /\ row[c1] = "approval_denied" <=> status[target[c1]] = "denied"

\* The gate as its callers see it: decided once, final, executed at most once.
Atomic == INSTANCE AtomicGate
            WITH st <- status,
                 runs <- [a \in Approvals |-> Cardinality(executions[a])]

\* While callbacks do not overlap, the stored record and the executor runs
\* behave as that atomic gate, faults and crashes included.
ImplementsAtomicGate == Atomic!Spec

(***************************************************************************)
(* The inductive invariant behind them.                                    *)
(***************************************************************************)

\* The record is created before anyone hears of it, and decided only after.
OfferOrder ==
    \A a \in Approvals : a \notin Issued => status[a] = "absent" /\ a \notin offered

\* What a handler has done by the time it is where it is.
HandlerOrder ==
    \A c \in Callbacks :
        /\ pc[c] \in Active => target[c] \in Issued
        /\ pc[c] = "set" => seen[c] = "pending"
        /\ pc[c] \in {"act", "audit", "publish", "200"} =>
               target[c] \in Approvals /\ Decided(target[c])
        /\ pc[c] \in {"audit", "publish", "200"} =>
               /\ label[c] # "none"
               /\ label[c] = "approval_denied" <=> c \notin executions[target[c]]
        /\ pc[c] \in {"publish", "200"} => row[c] = label[c]
        /\ c \in pushed => pc[c] = "200"

\* A foreign body came in after the expiry: an earlier one is stale by the time
\* anyone can name the approval.  A callback at work was signed by Slack.
StampOrder ==
    /\ \A a \in Approvals : call[a] # "idle" => expires_at[a] <= clock + TTL
    /\ \A c \in Callbacks : pc[c] \in Active => offered # {}
    /\ \A c \in foreign :
          pc[c] # "idle" /\ target[c] \in Issued /\ expires_at[target[c]] < clock
    /\ SignedForLifetime

ExecutionOrder ==
    \A a \in Approvals : \A c \in executions[a] :
        /\ Decided(a)
        /\ target[c] = a /\ decision[c] = "approve"
        /\ pc[c] \notin {"idle", "get", "check", "set", "act"}

LateOrder ==
    \A c \in late :
        /\ target[c] \in Approvals /\ Decided(target[c])
        /\ pc[c] \notin {"idle", "set", "act", "audit", "publish", "200"}
        /\ pc[c] = "check" => seen[c] # "pending"
        /\ \A a \in Approvals : c \notin executions[a]

\* The callbacks that have run the executor for a, or still can.  Until a is
\* decided they are all in flight; once it is, nobody joins them.
Candidates(a) ==
    {c \in Callbacks : /\ target[c] = a
                       /\ \/ pc[c] \in {"set", "act"}
                          \/ pc[c] = "check" /\ seen[c] = "pending"}
    \cup executions[a]

GateInv ==
    /\ TypeOK
    /\ Cardinality(InFlight) <= MaxInFlight
    /\ OfferOrder
    /\ HandlerOrder
    /\ ExecutionOrder
    /\ LateOrder
    /\ \A a \in Approvals : Cardinality(Candidates(a)) <= MaxInFlight

\* With one callback at a time nothing comes between its GET and its SET, or
\* between its SET and its execution.
SerialInv ==
    /\ \A c \in Callbacks :
          /\ pc[c] = "set" \/ (pc[c] = "check" /\ seen[c] = "pending") =>
                 status[target[c]] = "pending"
          /\ pc[c] = "act" =>
                 /\ executions[target[c]] = {}
                 /\ decision[c] = "approve" => status[target[c]] = "approved"
    /\ \A a \in Approvals :
          executions[a] # {} => status[a] = "approved" /\ Cardinality(executions[a]) = 1

\* And then one callback alone answers for an approval: it recorded the
\* decision that is still there, and its row says so.
Deciders == {c \in Callbacks : pc[c] \in {"act", "audit", "publish", "200"}}

OutcomeInv ==
    /\ \A c, d \in Deciders : target[c] = target[d] => c = d
    /\ \A c \in Deciders :
          /\ decision[c] = "deny" <=> status[target[c]] = "denied"
          /\ pc[c] # "act" => (label[c] = "approval_denied" <=> decision[c] = "deny")

(***************************************************************************)
(* Liveness.                                                               *)
(***************************************************************************)

\* A recorded approval is carried out: the executor runs.
ApprovedIsExecuted ==
    \A a \in Approvals : status[a] = "approved" ~> executions[a] # {}

=============================================================================
