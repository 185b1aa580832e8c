------------------------------ MODULE Gateway -------------------------------
(***************************************************************************)
(* A tools/call from the HTTP request to its answer: the middleware stack  *)
(* and the /mcp handler of app/main.py, the interceptor, the OPA client,   *)
(* and, for a call that is held, the approval gate of ApprovalGate.        *)
(*                                                                         *)
(* A request that OPA holds gets one approval, so a request and its        *)
(* approval share a name in Approvals.  As in ApprovalGate a step is one   *)
(* await.                                                                  *)
(***************************************************************************)
EXTENDS ApprovalGate, Policy

CONSTANTS
    Keys,      \* the API keys of the API_KEYS registry
    Role,      \* the role each resolves to
    Scope,     \* the allowed_tools each resolves to
    Called,    \* the tool names requests are tried with
    OpaFaults  \* whether the request to OPA may fail

ASSUME GatewayAssumption ==
    /\ "invalid" \notin Keys
    /\ DOMAIN Role = Keys
    /\ Scope \in [Keys -> SUBSET TOOLS]
    /\ Called \subseteq TOOLS
    /\ OpaFaults \in BOOLEAN

VARIABLES
    req,      \* what each request asks for
    stage,    \* where it is, or its HTTP status
    verdict,  \* the branch its PolicyDecision selects
    outcome,  \* how its executor ended, or "denied": decides label and status
    mcp_row,  \* the AuditEvent.decision the /mcp handler has committed
    ran       \* the requests whose executor the /mcp handler ran

mcp == <<req, stage, verdict, outcome, mcp_row, ran>>
allvars == <<vars, mcp>>

Methods == {"unparsable", "tools/list", "other", "tools/call"}

\* The name and the arguments of a call matter for tools/call only.
Requests ==
    {r \in [key : Keys \cup {"invalid"}, method : Methods,
            tool : Called \cup {"missing", "unknown"},
            namespace : Namespaces \cup {"number"}] :
        r.method # "tools/call" => r.tool = "missing" /\ r.namespace = "null"}

NoRequest == [key |-> "invalid", method |-> "unparsable", tool |-> "missing",
              namespace |-> "null"]

Stages == {"limit", "opa", "decided", "audit"}
Outcomes == {"success", "validation_error", "not_found", "permission_denied",
             "executor_timeout", "upstream_error", "unhandled_error"}
Statuses == {"200", "400", "401", "403", "404", "429", "500", "502", "504"}

\* The AuditEvent.decision of an outcome.
AuditLabel(o) ==
    CASE o = "denied"           -> "denied"
      [] o = "success"          -> "allowed"
      [] o = "executor_timeout" -> "executor_timeout"
      [] OTHER                  -> "error"

\* _ERROR_TYPE_STATUS, and the status of the other branches.
StatusOf(o) ==
    CASE o = "success"           -> "200"
      [] o = "validation_error"  -> "400"
      [] o = "denied"            -> "403"
      [] o = "permission_denied" -> "403"
      [] o = "not_found"         -> "404"
      [] o = "unhandled_error"   -> "500"
      [] o = "upstream_error"    -> "502"
      [] o = "executor_timeout"  -> "504"

\* The context the interceptor hands to OPA.
OpaInput(r) == [role |-> Role[r.key], tool |-> r.tool, namespace |-> r.namespace]

GatewayInit ==
    /\ Init
    /\ req = [a \in Approvals |-> NoRequest]
    /\ stage = [a \in Approvals |-> "idle"]
    /\ verdict = [a \in Approvals |-> "none"]
    /\ outcome = [a \in Approvals |-> "none"]
    /\ mcp_row = [a \in Approvals |-> "none"]
    /\ ran = {}

-----------------------------------------------------------------------------
\* authenticate: an unknown x-api-key goes no further.
Authenticate(a, r) ==
    /\ stage[a] = "idle"
    /\ req' = [req EXCEPT ![a] = r]
    /\ stage' = [stage EXCEPT ![a] = IF r.key \in Keys THEN "limit" ELSE "401"]
    /\ UNCHANGED <<vars, verdict, outcome, mcp_row, ran>>

\* intercept_tool_call raises: no name, or arguments that are not an object.
MissingParam(r) == r.tool = "missing"

\* The /mcp handler up to the request to OPA: every early return, in order.
\* _infer_environment raises on a namespace that is not a string ("number"),
\* and nothing catches it.
Dispatch(r) ==
    IF r.method = "unparsable" THEN "400"
    ELSE IF r.method = "tools/list" THEN "200"
    ELSE IF r.method = "other" THEN "404"
    ELSE IF MissingParam(r) THEN "400"
    ELSE IF r.namespace = "number" THEN "500"
    ELSE IF r.tool \notin TOOLS THEN "400"
    ELSE IF r.tool \notin Scope[r.key] THEN "403"
    ELSE "opa"

\* rate_limit and, for an admitted request, the handler.  RateLimiter models
\* the check; it may admit or refuse.
RateLimit(a) ==
    /\ stage[a] = "limit"
    /\ \E next \in {"429", Dispatch(req[a])} : stage' = [stage EXCEPT ![a] = next]
    /\ UNCHANGED <<vars, req, verdict, outcome, mcp_row, ran>>

\* evaluate_policy gets OPA's answer.
Evaluate(a) ==
    /\ stage[a] = "opa"
    /\ verdict' = [verdict EXCEPT ![a] = Decision(OpaInput(req[a]))]
    /\ stage' = [stage EXCEPT ![a] = "decided"]
    /\ UNCHANGED <<vars, req, outcome, mcp_row, ran>>

\* Seeded bug: an unreachable policy engine lets calls through.
OpaFailsOpen(a) ==
    /\ OpaFaults
    /\ stage[a] = "opa"
    /\ verdict' = [verdict EXCEPT ![a] = "allow"]
    /\ stage' = [stage EXCEPT ![a] = "decided"]
    /\ UNCHANGED <<vars, req, outcome, mcp_row, ran>>

\* Timeout, refused connection, error status or a body that is not JSON: the
\* call is denied.
OpaFails(a) ==
    /\ OpaFaults
    /\ stage[a] = "opa"
    /\ verdict' = [verdict EXCEPT ![a] = "deny"]
    /\ stage' = [stage EXCEPT ![a] = "decided"]
    /\ UNCHANGED <<vars, req, outcome, mcp_row, ran>>

\* A body that is JSON but not an object, or whose result is null or no object:
\* .get raises an AttributeError that nothing catches, and the agent sees a 500.
OpaBreaks(a) ==
    /\ OpaFaults
    /\ stage[a] = "opa"
    /\ stage' = [stage EXCEPT ![a] = "500"]
    /\ UNCHANGED <<vars, req, verdict, outcome, mcp_row, ran>>

\* The call is handed to the approval gate, which answers it (call).
Hold(a) ==
    /\ stage[a] = "decided"
    /\ verdict[a] = "require_approval"
    /\ RequestApproval(a)
    /\ stage' = [stage EXCEPT ![a] = "held"]
    /\ UNCHANGED <<req, verdict, outcome, mcp_row, ran>>

\* Seeded bug: a denied call is left waiting like a held one.
DenyWaits(a) ==
    /\ stage[a] = "decided"
    /\ verdict[a] = "deny"
    /\ outcome' = [outcome EXCEPT ![a] = "denied"]
    /\ stage' = [stage EXCEPT ![a] = "held"]
    /\ UNCHANGED <<vars, req, verdict, mcp_row, ran>>

Deny(a) ==
    /\ stage[a] = "decided"
    /\ verdict[a] = "deny"
    /\ outcome' = [outcome EXCEPT ![a] = "denied"]
    /\ stage' = [stage EXCEPT ![a] = "audit"]
    /\ UNCHANGED <<vars, req, verdict, mcp_row, ran>>

\* _execute_tool, synchronously.
Execute(a, o) ==
    /\ stage[a] = "decided"
    /\ verdict[a] = "allow"
    /\ ran' = ran \cup {a}
    /\ outcome' = [outcome EXCEPT ![a] = o]
    /\ stage' = [stage EXCEPT ![a] = "audit"]
    /\ UNCHANGED <<vars, req, verdict, mcp_row>>

\* Seeded bug: only calls that succeed are logged.
McpAuditSuccess(a) ==
    /\ stage[a] = "audit"
    /\ mcp_row' = IF outcome[a] = "success"
                  THEN [mcp_row EXCEPT ![a] = "allowed"] ELSE mcp_row
    /\ stage' = [stage EXCEPT ![a] = StatusOf(outcome[a])]
    /\ UNCHANGED <<vars, req, verdict, outcome, ran>>

\* record_tool_call commits and the response goes out.
McpAudit(a) ==
    /\ stage[a] = "audit"
    /\ mcp_row' = [mcp_row EXCEPT ![a] = AuditLabel(outcome[a])]
    /\ stage' = [stage EXCEPT ![a] = StatusOf(outcome[a])]
    /\ UNCHANGED <<vars, req, verdict, outcome, ran>>

McpAuditFails(a) ==
    /\ "db" \in Faults
    /\ stage[a] = "audit"
    /\ mcp_row' \in {mcp_row, [mcp_row EXCEPT ![a] = AuditLabel(outcome[a])]}
    /\ stage' = [stage EXCEPT ![a] = "500"]
    /\ UNCHANGED <<vars, req, verdict, outcome, ran>>

\* A process dies with the requests it serves: those in the /mcp handler and
\* those in the approval gate.
GatewayCrash ==
    /\ "crash" \in Faults
    /\ \E A \in SUBSET {a \in Approvals : stage[a] \in Stages} :
          /\ stage' = [a \in Approvals |-> IF a \in A THEN "dead" ELSE stage[a]]
          /\ \/ Crash
             \/ A # {} /\ UNCHANGED vars
    /\ UNCHANGED <<req, verdict, outcome, mcp_row, ran>>

McpStep(a) ==
    \/ RateLimit(a)
    \/ Evaluate(a)
    \/ OpaFails(a)
    \/ OpaBreaks(a)
    \/ Hold(a)
    \/ Deny(a)
    \/ \E o \in Outcomes : Execute(a, o)
    \/ McpAudit(a)
    \/ McpAuditFails(a)

\* What the approval gate does with a held call.
GateStep ==
    /\ \/ \E a \in Approvals : AgentStep(a)
       \/ \E c \in Callbacks : Arrive(c) \/ HandlerStep(c)
       \/ Tick
    /\ UNCHANGED mcp

GatewayNext ==
    \/ \E a \in Approvals : (\E r \in Requests : Authenticate(a, r)) \/ McpStep(a)
    \/ GateStep
    \/ GatewayCrash

GatewaySpec == GatewayInit /\ [][GatewayNext]_allvars

\* A process that stays up resumes every handler whose await completed.
GatewayFairSpec ==
    /\ GatewaySpec
    /\ \A a \in Approvals : /\ WF_allvars(McpStep(a))
                            /\ WF_allvars(AgentStep(a) /\ UNCHANGED mcp)
    /\ \A c \in Callbacks : WF_allvars(HandlerStep(c) /\ UNCHANGED mcp)

-----------------------------------------------------------------------------
\* The requests whose tool was run, at once or after an approval.
Executed == ran \cup {a \in Approvals : executions[a] # {}}

\* Whatever fails on the way - OPA, Redis, the database, a process - a tool
\* runs only for a registered key, inside the key's scope and the role's
\* tools and environments, and never against kube-system when it is one of
\* the blocked tools.
ExecutedWasAuthorised ==
    \A a \in Executed :
        LET r == req[a] IN
        /\ r.key \in Keys
        /\ r.tool \in Scope[r.key] \cap AllowedTools(Role[r.key])
        /\ r.namespace = "prod-payments" => Role[r.key] # "deploy-bot"
        /\ ~ (r.tool \in kube_system_blocked_tools /\ r.namespace = "kube-system")

\* The calls that need a human: arbitrary commands and manifests everywhere,
\* restarts, scaling and jobs in a prod namespace.
NeedsHuman(r) ==
    \/ r.tool \in {"exec_into_pod", "apply_k8s_manifest"}
    \/ /\ r.tool \in {"restart_deployment", "scale_deployment", "trigger_jenkins_job"}
       /\ r.namespace = "prod-payments"

\* They run only after an approving callback posted to the id of that very
\* approval, and a call that did not need one is never run by a callback: the
\* two execution paths are exclusive.  (The signature says that someone clicked
\* approve, not on which message: ApprovalGate, SignedForLifetime.)
HumanInTheLoop ==
    \A a \in Approvals :
        /\ NeedsHuman(req[a]) => a \notin ran
        /\ executions[a] # {} => NeedsHuman(req[a])
        /\ \A c \in executions[a] : target[c] = a /\ decision[c] = "approve"

\* Every answer to a call that got as far as the policy, other than a 500, has
\* its row in the audit log, and the row tells a run from a refusal.
AnswerAudited ==
    \A a \in Approvals :
        /\ stage[a] \in Statuses \ {"500"} /\ verdict[a] # "none" =>
               /\ mcp_row[a] # "none"
               /\ mcp_row[a] = "denied" <=> a \notin ran
        /\ call[a] = "202" => a \in pending_row

\* An authenticated request is answered, by the handler or through the gate.
RequestAnswered ==
    \A a \in Approvals :
        stage[a] = "limit" ~> stage[a] \in Statuses \/ call[a] \in {"202", "500"}

(***************************************************************************)
(* The inductive invariant behind them, on top of ApprovalGate's.          *)
(***************************************************************************)
PipelineTypeOK ==
    /\ req \in [Approvals -> Requests]
    /\ stage \in [Approvals -> Stages \cup Statuses \cup {"idle", "held", "dead"}]
    /\ verdict \in [Approvals -> {"none", "allow", "deny", "require_approval"}]
    /\ outcome \in [Approvals -> Outcomes \cup {"none", "denied"}]
    /\ DOMAIN mcp_row = Approvals
    /\ ran \subseteq Approvals

\* How far a request can be without having been let through.
PipelineOrder ==
    \A a \in Approvals :
        /\ stage[a] \in {"idle", "limit", "opa"} => verdict[a] = "none"
        /\ stage[a] \in {"decided", "audit"} => verdict[a] # "none"
        /\ stage[a] = "limit" => req[a].key \in Keys
        /\ stage[a] = "opa" \/ verdict[a] # "none" =>
               req[a].key \in Keys /\ req[a].tool \in Scope[req[a].key]
        /\ verdict[a] # "none" => verdict[a] \in {"deny", Decision(OpaInput(req[a]))}
        /\ a \in ran => verdict[a] = "allow" /\ stage[a] # "decided"

\* The gate only ever sees the calls the policy held.
GateSeesHeld ==
    \A a \in Approvals :
        /\ call[a] # "idle" => verdict[a] = "require_approval" /\ stage[a] = "held"
        /\ call[a] = "202" => a \in pending_row

RowOrder ==
    \A a \in Approvals :
        /\ stage[a] \in {"audit"} \cup (Statuses \ {"500"}) /\ verdict[a] # "none" =>
               outcome[a] # "none" /\ (outcome[a] = "denied" <=> a \notin ran)
        /\ stage[a] \in Statuses \ {"500"} /\ verdict[a] # "none" =>
               mcp_row[a] = AuditLabel(outcome[a])

PipelineInv == PipelineTypeOK /\ PipelineOrder /\ GateSeesHeld /\ RowOrder

=============================================================================
