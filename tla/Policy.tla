------------------------------- MODULE Policy -------------------------------
(***************************************************************************)
(* The authorization policy as the gateway sees it: the Rego rules of      *)
(* policies/authz.rego over policies/data.json, the OPA input built by     *)
(* app/interceptor.py and the decision app/authz/opa.py reads back.        *)
(*                                                                         *)
(* An input is a record with the fields role, tool and namespace.  One     *)
(* namespace stands for every name with its prefix; "null" is a call       *)
(* without a namespace argument.                                           *)
(***************************************************************************)

TOOLS == {"list_pods", "get_pod_logs", "get_deployment_status",
          "restart_deployment", "scale_deployment", "exec_into_pod",
          "apply_k8s_manifest", "query_terraform_plan", "trigger_jenkins_job",
          "get_jenkins_job_status", "read_prometheus_metrics", "open_ticket",
          "read_ticket"}

Namespaces == {"null", "kube-system", "prod-payments", "staging-payments",
               "dev-payments", "payments"}

\* data.roles.  A role that is not there has no role_config, so every rule
\* that reads it is undefined.
Roles == {"sre1", "readonly", "deploy-bot"}

AllowedTools(role) ==
    CASE role = "sre1" ->
            {"get_pod_logs", "list_pods", "get_deployment_status",
             "restart_deployment", "scale_deployment",
             "read_prometheus_metrics", "exec_into_pod", "apply_k8s_manifest"}
      [] role = "readonly" ->
            {"get_pod_logs", "list_pods", "get_deployment_status",
             "query_terraform_plan", "get_jenkins_job_status",
             "read_prometheus_metrics", "read_ticket"}
      [] role = "deploy-bot" ->
            {"restart_deployment", "scale_deployment", "trigger_jenkins_job",
             "get_jenkins_job_status", "query_terraform_plan"}
      [] OTHER -> {}

AllowedEnvironments(role) ==
    CASE role \in {"sre1", "readonly"} -> {"dev", "staging", "prod"}
      [] role = "deploy-bot" -> {"dev", "staging"}
      [] OTHER -> {}

destructive_tools == {"restart_deployment", "scale_deployment", "trigger_jenkins_job"}
always_require_approval_tools == {"exec_into_pod", "apply_k8s_manifest"}
kube_system_blocked_tools == {"restart_deployment", "exec_into_pod", "apply_k8s_manifest"}

\* _infer_environment: by the prefix of the namespace argument alone.
InferEnvironment(namespace) ==
    CASE namespace = "prod-payments"    -> "prod"
      [] namespace = "staging-payments" -> "staging"
      [] namespace = "dev-payments"     -> "dev"
      [] OTHER                          -> "unknown"

tool_allowed(i) == i.tool \in AllowedTools(i.role)

environment_allowed(i) ==
    \/ InferEnvironment(i.namespace) = "unknown"
    \/ InferEnvironment(i.namespace) \in AllowedEnvironments(i.role)

\* Every role of data.json has "*" among its allowed_namespaces.
namespace_allowed(i) == i.namespace = "null" \/ i.role \in Roles

kube_system_blocked(i) ==
    i.tool \in kube_system_blocked_tools /\ i.namespace = "kube-system"

allow(i) ==
    /\ tool_allowed(i)
    /\ environment_allowed(i)
    /\ namespace_allowed(i)
    /\ ~ kube_system_blocked(i)

require_approval(i) ==
    /\ allow(i)
    /\ \/ i.tool \in destructive_tools /\ InferEnvironment(i.namespace) = "prod"
       \/ i.tool \in always_require_approval_tools

\* Seeded bug: allow is looked at first.
DecisionAllowFirst(i) == IF allow(i) THEN "allow" ELSE "deny"

\* The branch the /mcp handler takes on the PolicyDecision: require_approval
\* is looked at before allow.
Decision(i) ==
    IF require_approval(i) THEN "require_approval"
    ELSE IF allow(i) THEN "allow"
    ELSE "deny"

=============================================================================
