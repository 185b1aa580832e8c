----------------------------- MODULE Executors ------------------------------
(***************************************************************************)
(* The tool executors: app/tools/tools_spec.py, the Kubernetes client of   *)
(* app/tools/k8s_client.py and _execute_tool of app/main.py.               *)
(*                                                                         *)
(* One call that the policy lets through, tried again by its agent as long *)
(* as it has not succeeded, maybe in another gateway process and maybe     *)
(* while an earlier attempt still runs.  An executor is synchronous, so it *)
(* holds the event loop of its process until it ends.  The downstream      *)
(* system acts on a request in its own time: before the answer, or after   *)
(* the gateway has given up.                                               *)
(*                                                                         *)
(* An executor is an operator: from the call x, the process p, the number  *)
(* i of the request that was answered (0: none sent yet) and the answer    *)
(* ans, to the set of what it may do: "next" is the next request, anything *)
(* else ends the call with that outcome.                                   *)
(***************************************************************************)
EXTENDS Naturals, Policy

CONSTANTS
    Processes,  \* gateway processes
    Attempts,   \* the agent makes attempts 1..Attempts
    Callers     \* the roles of the agents

ASSUME ExecutorsAssumption ==
    /\ Attempts \in Nat \ {0}
    /\ Callers \subseteq Roles

VARIABLES
    args,       \* the call: who, which tool, and what its executor checks
    configured, \* the settings of the tool's HTTP system are in the environment
    mounted,    \* a usable kubeconfig is there
    loaded,     \* _load_config has succeeded in the process (lru_cache)
    state,      \* of each attempt: "unused", "running", or its outcome
    host,       \* the process it runs in
    at,         \* the number of its last request
    wire        \* what became of that request downstream

attempt == <<state, host, at, wire>>
vars == <<args, configured, mounted, loaded, attempt>>

-----------------------------------------------------------------------------
K8sReads == {"get_pod_logs", "list_pods", "get_deployment_status"}
K8sWrites == {"restart_deployment", "scale_deployment", "exec_into_pod",
              "apply_k8s_manifest"}
Writes == K8sWrites \cup {"trigger_jenkins_job"}

\* required: the identifiers and values looked at first are present and well
\* formed (of a manifest, that it is an object).  kind and inner describe a
\* manifest: its kind on this cluster, "unnamed" without apiVersion, kind or
\* name, and its own metadata.namespace.
Arguments ==
    {x \in [role : Callers, tool : TOOLS, namespace : Namespaces,
            required : BOOLEAN, reason : {"ok", "bad", "number"},
            kind : {"none", "unnamed", "namespaced", "cluster", "unknown", "ambiguous"},
            inner : {"null", "kube-system", "dev-payments"}] :
        /\ x.required /\ x.tool \in K8sReads \cup K8sWrites => x.namespace # "null"
        /\ x.reason # "ok" => x.required /\ x.tool \in Writes
        /\ x.kind # "none" <=> x.required /\ x.tool = "apply_k8s_manifest"
        /\ x.inner # "null" => x.kind = "namespaced"}

Errors == {"validation_error", "not_found", "permission_denied",
           "executor_timeout", "upstream_error", "unhandled_error"}

\* The requests of an executor that runs to its end.
Requests(tool) ==
    CASE tool = "open_ticket" -> 0
      [] tool = "query_terraform_plan" -> 3
      [] tool \in {"apply_k8s_manifest", "trigger_jenkins_job"} -> 2
      [] OTHER -> 1

Then(r, s) == IF r = "next" THEN s ELSE r

Given(x) == IF x.required THEN "next" ELSE "validation_error"

\* A reason that is not a string has no strip().
_require_reason(x) ==
    CASE x.reason = "ok" -> "next"
      [] x.reason = "bad" -> "validation_error"
      [] x.reason = "number" -> "unhandled_error"

-----------------------------------------------------------------------------
\* A failed load is not cached: the next call tries again.
_load_config(p) == IF loaded[p] \/ mounted THEN "next" ELSE "upstream_error"

\* Seeded bug: an error_type that _ERROR_TYPE_STATUS does not have.
MaxRetryMisnamed(ans) == IF ans = "timeout" THEN "timeout" ELSE "upstream_error"

\* Seeded bug: what cannot be reached is taken not to exist.
MaxRetryNotFound(ans) == "not_found"

\* The except MaxRetryError branch of run.
MaxRetry(ans) == IF ans = "timeout" THEN "executor_timeout" ELSE "upstream_error"

\* urllib3 raises a MaxRetryError when it runs out of retries and the bare
\* error for a request it does not retry; run does not catch the second.
run(ans) ==
    CASE ans \in {"ok", "cut"} -> {"success"}
      [] ans = "404" -> {"not_found"}
      [] ans = "auth" -> {"permission_denied"}
      [] ans = "error" -> {"upstream_error"}
      [] ans \in {"timeout", "broken"} -> {MaxRetry(ans), "unhandled_error"}

resource_for(x) ==
    CASE x.kind = "unknown" -> "not_found"
      [] x.kind = "ambiguous" -> "validation_error"
      [] OTHER -> "next"

k8s_reads(x, p, i, ans) ==
    IF i = 0 THEN {Then(Given(x), _load_config(p))} ELSE run(ans)

rollouts(x, p, i, ans) ==
    IF i = 0 THEN {Then(Then(Given(x), _require_reason(x)), _load_config(p))}
    ELSE run(ans)

\* A stream that is cut at the timeout ("cut") ends like a finished command, and
\* the exec status is not read.  The websocket client turns what goes wrong before
\* or in the stream into an ApiException, with or without its HTTP status.
exec_into_pod(x, p, i, ans) ==
    CASE i = 0 -> {Then(Then(Given(x), _require_reason(x)), _load_config(p))}
      [] i = 1 /\ ans \in {"ok", "cut"} -> {"success"}
      [] OTHER -> run(ans) \cup {"upstream_error"}

\* Seeded bug: a manifest is applied where it says.
AsWritten(x) == IF x.inner # "null" THEN x.inner ELSE x.namespace

\* The namespace of the manifest that is applied: the namespace argument, the
\* only one a manifest may name itself.
Placement(x) ==
    IF x.inner \in {"null", x.namespace} THEN x.namespace ELSE "rejected"

Manifest(x) ==
    IF x.kind = "unnamed" \/ Placement(x) = "rejected" THEN "validation_error"
    ELSE "next"

Namespaced(x) == IF x.kind = "cluster" THEN "validation_error" ELSE "next"

\* The first request stands for the discovery requests of the lazy DynamicClient,
\* none if it has the kind (FromCache).  A group that answers 503 counts as empty.
apply_k8s_manifest(x, p, i, ans) ==
    CASE i = 0 -> {Then(Then(Then(Given(x), _require_reason(x)), Manifest(x)),
                        _load_config(p))}
      [] i = 1 /\ ans = "ok" -> {Then(resource_for(x), Namespaced(x))}
      [] i = 1 /\ ans # "ok" -> {"unhandled_error"}
                                   \cup IF ans = "error" THEN {"not_found"} ELSE {}
      [] i = 2 -> run(ans)

-----------------------------------------------------------------------------
\* Seeded bug: as with the crumb, no answer is taken for a good one.
SendBestEffort(ans) == IF ans = "404" THEN {"not_found"} ELSE {"success"}

\* _send; "unusable" is a body that is not the JSON the executor reads.
_send(ans) ==
    CASE ans = "ok" -> {"success"}
      [] ans = "404" -> {"not_found"}
      [] ans = "timeout" -> {"executor_timeout"}
      [] ans \in {"auth", "error", "broken"} -> {"upstream_error"}
      [] ans = "unusable" -> {"unhandled_error"}

Configured == IF configured THEN "next" ELSE "upstream_error"

\* After the second request: no runs, or a run without a plan, ends it.
query_terraform_plan(x, i, ans) ==
    CASE i = 0 -> {Then(Given(x), Configured)}
      [] i = 1 /\ ans = "ok" -> {"next"}
      [] i = 2 /\ ans = "ok" -> {"next", "success"}
      [] OTHER -> _send(ans)

get_jenkins_job_status(x, i, ans) ==
    IF i = 0 THEN {Then(Given(x), Configured)} ELSE _send(ans)

\* Whatever stops the crumb, short of a bad body, the build is tried without.
_jenkins_crumb(ans) == IF ans = "unusable" THEN {"unhandled_error"} ELSE {"next"}

\* The body of the answer to the POST is not read.
trigger_jenkins_job(x, i, ans) ==
    CASE i = 0 -> {Then(Then(Given(x), _require_reason(x)), Configured)}
      [] i = 1 -> _jenkins_crumb(ans)
      [] i = 2 -> IF ans = "unusable" THEN {"success"} ELSE _send(ans)

\* PROMETHEUS_URL has a default.  A failed query is a 200 whose body says so.
read_prometheus_metrics(x, i, ans) ==
    IF i = 0 THEN {Given(x)}
    ELSE _send(ans) \cup IF ans = "unusable" THEN {"upstream_error"} ELSE {}

open_ticket == {"success"}

read_ticket(x, i, ans) ==
    IF i = 0 THEN {Then(Given(x), Configured)} ELSE _send(ans)

\* TOOLS[tool_name](arguments)
Executor(x, p, i, ans) ==
    CASE x.tool \in K8sReads -> k8s_reads(x, p, i, ans)
      [] x.tool \in {"restart_deployment", "scale_deployment"} -> rollouts(x, p, i, ans)
      [] x.tool = "exec_into_pod" -> exec_into_pod(x, p, i, ans)
      [] x.tool = "apply_k8s_manifest" -> apply_k8s_manifest(x, p, i, ans)
      [] x.tool = "query_terraform_plan" -> query_terraform_plan(x, i, ans)
      [] x.tool = "get_jenkins_job_status" -> get_jenkins_job_status(x, i, ans)
      [] x.tool = "trigger_jenkins_job" -> trigger_jenkins_job(x, i, ans)
      [] x.tool = "read_prometheus_metrics" -> read_prometheus_metrics(x, i, ans)
      [] x.tool = "open_ticket" -> open_ticket
      [] x.tool = "read_ticket" -> read_ticket(x, i, ans)

-----------------------------------------------------------------------------
Tries == 1..Attempts
IsK8s == args.tool \in K8sReads \cup K8sWrites
Running(a) == state[a] = "running"
Free(p) == \A a \in Tries : ~ (Running(a) /\ host[a] = p)
Discovering(a) == Running(a) /\ args.tool = "apply_k8s_manifest" /\ at[a] = 1

\* Its last request is the one that changes something.
Writing(a) == args.tool \in Writes /\ at[a] = Requests(args.tool)

Init ==
    /\ args \in {x \in Arguments : Decision(x) # "deny"}
    /\ configured \in BOOLEAN
    /\ mounted \in BOOLEAN
    /\ loaded = [p \in Processes |-> FALSE]
    /\ state = [a \in Tries |-> "unused"]
    /\ host \in [Tries -> Processes]
    /\ at = [a \in Tries |-> 0]
    /\ wire = [a \in Tries |-> "none"]

\* The agent calls, or calls again, and the executor runs up to its first
\* request.
Begin(a) ==
    /\ state[a] = "unused"
    /\ a > 1 => state[a - 1] \notin {"unused", "success"}
    /\ Free(host[a])
    /\ \E r \in Executor(args, host[a], 0, "none") :
          /\ state' = [state EXCEPT ![a] = IF r = "next" THEN "running" ELSE r]
          /\ at' = [at EXCEPT ![a] = IF r = "next" THEN 1 ELSE 0]
          /\ wire' = [wire EXCEPT ![a] = IF r = "next" THEN "sent" ELSE "none"]
          /\ loaded' = [loaded EXCEPT ![host[a]] = @ \/ (IsK8s /\ r = "next")]
    /\ UNCHANGED <<args, configured, mounted, host>>

\* The executor has ans to its last request, which is left downstream as w.
Proceed(a, ans, w) ==
    /\ \E r \in Executor(args, host[a], at[a], ans) :
          IF r = "next"
          THEN /\ at' = [at EXCEPT ![a] = @ + 1]
               /\ wire' = [wire EXCEPT ![a] = "sent"]
               /\ UNCHANGED state
          ELSE /\ state' = [state EXCEPT ![a] = r]
               /\ wire' = [wire EXCEPT ![a] = w]
               /\ UNCHANGED at
    /\ UNCHANGED <<args, configured, mounted, loaded, host>>

\* What was done may still be answered with an error, by a proxy on the way, or, by
\* the HTTP systems, with a body the executor cannot use.  A stream that is open
\* may end at any time.
Replies(a) ==
    IF wire[a] \notin {"open", "unstarted", "done"} THEN {wire[a]}
    ELSE {"ok", "error"} \cup IF IsK8s THEN {} ELSE {"unusable"}

Answer(a) ==
    /\ Running(a)
    /\ wire[a] \notin {"none", "sent"}
    /\ \E ans \in Replies(a) : Proceed(a, ans, wire[a])

\* The DynamicClient has the kind in memory or in its cache file.  It asks again
\* for a kind it does not know.
FromCache(a) ==
    /\ Discovering(a)
    /\ wire[a] = "sent"
    /\ args.kind # "unknown"
    /\ Proceed(a, "ok", "none")

\* The executor timeout, which bounds each socket operation: an answer that
\* trickles in is not cut, so this may happen and need not.  The discovery and the
\* handshake of an exec stream have none; a stream that is cut raises nothing.
Expire(a) ==
    /\ Running(a)
    /\ ~ Discovering(a)
    /\ IF args.tool = "exec_into_pod"
       THEN wire[a] \in {"open", "unstarted", "done"} /\ Proceed(a, "cut", wire[a])
       ELSE Proceed(a, "timeout", wire[a])

\* No connection, or one that breaks: the request may never have arrived.
Break(a) ==
    /\ Running(a)
    /\ \E w \in {wire[a], IF wire[a] = "sent" THEN "none" ELSE wire[a]} :
          Proceed(a, "broken", w)

\* The API server upgrades the connection of an exec request to a stream.
Upgrade(a) ==
    /\ wire[a] = "sent"
    /\ args.tool = "exec_into_pod"
    /\ wire' = [wire EXCEPT ![a] = "open"]
    /\ UNCHANGED <<args, configured, mounted, loaded, state, host, at>>

\* Downstream acts on a request, whether or not anybody still waits for it.
Perform(a) ==
    /\ wire[a] = IF args.tool = "exec_into_pod" THEN "open" ELSE "sent"
    /\ wire' = [wire EXCEPT ![a] = "done"]
    /\ UNCHANGED <<args, configured, mounted, loaded, state, host, at>>

\* A command that cannot be started leaves a message in the exec status only.
Refuse(a) ==
    /\ \/ /\ wire[a] = "sent"
          /\ \E s \in {"404", "auth", "error"} : wire' = [wire EXCEPT ![a] = s]
       \/ /\ wire[a] = "open"
          /\ wire' = [wire EXCEPT ![a] = "unstarted"]
    /\ UNCHANGED <<args, configured, mounted, loaded, state, host, at>>

Mount ==
    /\ ~ mounted
    /\ mounted' = TRUE
    /\ UNCHANGED <<args, configured, loaded, attempt>>

\* A gateway process dies and starts again; what it was running is lost.
Crash(p) ==
    /\ \/ ~ Free(p)
       \/ loaded[p]
    /\ state' = [a \in Tries |-> IF Running(a) /\ host[a] = p THEN "lost" ELSE state[a]]
    /\ loaded' = [loaded EXCEPT ![p] = FALSE]
    /\ UNCHANGED <<args, configured, mounted, host, at, wire>>

Next ==
    \/ \E a \in Tries : Begin(a) \/ Answer(a) \/ FromCache(a) \/ Expire(a) \/ Break(a)
                           \/ Upgrade(a) \/ Perform(a) \/ Refuse(a)
    \/ Mount
    \/ \E p \in Processes : Crash(p)

Spec == Init /\ [][Next]_vars

-----------------------------------------------------------------------------
\* The types; above all, that every way an executor can end is one that
\* _execute_tool's callers have a status for (_ERROR_TYPE_STATUS[...] would
\* raise after the tool ran and before the audit row).
TypeOK ==
    /\ args \in Arguments
    /\ configured \in BOOLEAN
    /\ mounted \in BOOLEAN
    /\ loaded \in [Processes -> BOOLEAN]
    /\ state \in [Tries -> Errors \cup {"unused", "running", "success", "lost"}]
    /\ host \in [Tries -> Processes]
    /\ at \in [Tries -> 0..Requests(args.tool)]
    /\ wire \in [Tries -> {"none", "sent", "open", "unstarted", "done",
                       "404", "auth", "error"}]

\* Whatever reaches Kubernetes as a write is what the policy decided about:
\* the namespace that is changed, had it been the one OPA saw, gets the same
\* decision, the object is in a namespace, and there is a reason for the audit
\* log.  The policy looks at the namespace argument, apply_k8s_manifest at a
\* manifest that has one of its own.
WritesAreVetted ==
    \A a \in Tries :
        Writing(a) /\ IsK8s /\ wire[a] \in {"sent", "open", "done"} =>
            /\ Decision([args EXCEPT !.namespace = Placement(args)]) = Decision(args)
            /\ args.kind \in {"none", "namespaced"}
            /\ args.reason = "ok"

\* An agent told validation_error, not_found or permission_denied may correct
\* its call and repeat it: nothing was changed, and no request is still on its
\* way to change it later.  (The other errors promise nothing.)
DefiniteErrorNoEffect ==
    \A a \in Tries :
        state[a] \in {"validation_error", "not_found", "permission_denied"} =>
            ~ (Writing(a) /\ wire[a] \in {"sent", "open", "done"})

\* How far a tool that reports success must have got downstream.  "executed" means
\* that the stream was opened: the command may not have started, or start later.
Carried(tool) == IF tool = "exec_into_pod" THEN {"open", "unstarted", "done"} ELSE {"done"}

\* A write tool other than exec_into_pod that reports success has been carried out
\* downstream, once every earlier request (crumb, discovery) is behind it, whatever
\* errors, lost answers and earlier attempts there were; exec_into_pod has opened
\* its stream and no more.
SuccessMeansDone ==
    \A a \in Tries :
        state[a] = "success" /\ args.tool \in Writes =>
            Writing(a) /\ wire[a] \in Carried(args.tool)

\* The inductive invariant behind the safety properties: what an executor has
\* looked at by the time its first request, or its last, is out.
Checked ==
    \A a \in Tries :
        /\ Running(a) => at[a] >= 1
        /\ at[a] >= 1 => /\ args.required
                         /\ args.tool \in Writes => args.reason = "ok"
                         /\ args.tool = "apply_k8s_manifest" => Manifest(args) = "next"
        /\ at[a] = 2 /\ args.tool = "apply_k8s_manifest" => args.kind = "namespaced"

\* Only an exec request is a stream.
StreamOnly ==
    \A a \in Tries : wire[a] \in {"open", "unstarted"} => args.tool = "exec_into_pod"

ExecInv ==
    /\ TypeOK
    /\ Checked
    /\ StreamOnly
    /\ DefiniteErrorNoEffect
    /\ SuccessMeansDone

=============================================================================
