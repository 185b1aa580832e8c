--------------------------- MODULE ExecutorsProofs --------------------------
(***************************************************************************)
(* For every number of processes and attempts, whatever fails: what an     *)
(* executor's outcome tells the agent about the downstream system is true. *)
(***************************************************************************)
EXTENDS Executors, TLAPS

Definite == {"validation_error", "not_found", "permission_denied"}

\* What an executor may be given for an answer.
AnswersTo(x) ==
    {"ok", "404", "auth", "error", "timeout", "broken"}
        \cup IF x.tool \in K8sReads \cup K8sWrites THEN {"cut"} ELSE {"unusable"}

\* The arguments of a call, field by field.
LEMMA ArgumentFields ==
    ASSUME NEW x \in Arguments
    PROVE  /\ x.tool \in TOOLS /\ x.required \in BOOLEAN
           /\ x.reason \in {"ok", "bad", "number"}
           /\ x.kind \in {"none", "unnamed", "namespaced", "cluster", "unknown", "ambiguous"}
           /\ x.kind # "none" <=> x.required /\ x.tool = "apply_k8s_manifest"
           /\ x.reason # "ok" => x.tool \in Writes
           /\ x = [role |-> x.role, tool |-> x.tool, namespace |-> x.namespace,
                   required |-> x.required, reason |-> x.reason, kind |-> x.kind,
                   inner |-> x.inner]
  BY DEF Arguments

\* An executor up to its first request.
LEMMA ExecutorStarts ==
    ASSUME NEW x \in Arguments, NEW p, NEW r \in Executor(x, p, 0, "none")
    PROVE  /\ r \in Errors \cup {"next", "success"}
           /\ r = "success" => x.tool = "open_ticket"
           /\ r = "next" =>
                 /\ x.tool # "open_ticket" /\ x.required
                 /\ x.tool \in Writes => x.reason = "ok"
                 /\ x.tool = "apply_k8s_manifest" => Manifest(x) = "next"
  <1>x. /\ x.tool \in TOOLS /\ x.required \in BOOLEAN
        /\ x.reason \in {"ok", "bad", "number"}
        /\ x.kind \in {"none", "unnamed", "namespaced", "cluster", "unknown", "ambiguous"}
        /\ x.kind # "none" <=> x.required /\ x.tool = "apply_k8s_manifest"
        /\ x.reason # "ok" => x.tool \in Writes
    BY ArgumentFields
  <1>1. CASE x.tool \in K8sReads
    <2>1. r = Then(Given(x), _load_config(p))
      BY <1>1 DEF Executor, K8sReads, k8s_reads
    <2>2. QED
      BY <1>1, <1>x, <2>1 DEF K8sReads, K8sWrites, Writes, Then, Given, _load_config, Errors
  <1>2. CASE x.tool \in {"restart_deployment", "scale_deployment", "exec_into_pod"}
    <2>1. r = Then(Then(Given(x), _require_reason(x)), _load_config(p))
      BY <1>2 DEF Executor, K8sReads, rollouts, exec_into_pod
    <2>2. QED
      BY <1>2, <1>x, <2>1 DEF Then, Given, _require_reason, _load_config, Errors
  <1>3. CASE x.tool = "apply_k8s_manifest"
    <2>1. r = Then(Then(Then(Given(x), _require_reason(x)), Manifest(x)), _load_config(p))
      BY <1>3 DEF Executor, K8sReads, apply_k8s_manifest
    <2>2. QED
      BY <1>3, <1>x, <2>1 DEF Manifest, Then, Given, _require_reason, _load_config, Errors
  <1>4. CASE x.tool = "trigger_jenkins_job"
    <2>1. r = Then(Then(Given(x), _require_reason(x)), Configured)
      BY <1>4 DEF Executor, K8sReads, trigger_jenkins_job
    <2>2. QED
      BY <1>4, <1>x, <2>1 DEF K8sReads, K8sWrites, Then, Given, _require_reason, Configured,
                              Errors
  <1>5. CASE x.tool \in {"query_terraform_plan", "get_jenkins_job_status", "read_ticket",
                         "read_prometheus_metrics"}
    <2>1. r \in {Given(x), Then(Given(x), Configured)}
      BY <1>5 DEF Executor, K8sReads, query_terraform_plan, get_jenkins_job_status,
                  read_ticket, read_prometheus_metrics
    <2>2. QED
      BY <1>5, <1>x, <2>1 DEF K8sReads, K8sWrites, Writes, Then, Given, Configured, Errors
  <1>6. CASE x.tool = "open_ticket"
    <2>1. r = "success"
      BY <1>6 DEF Executor, K8sReads, open_ticket
    <2>2. QED  BY <1>6, <2>1 DEF Errors
  <1>7. QED  BY <1>x, <1>1, <1>2, <1>3, <1>4, <1>5, <1>6 DEF TOOLS, K8sReads

\* An executor that has an answer to its request i: it goes on only if it has
\* another request, succeeds only with its last one answered well, and is sure
\* that nothing happened only if it was refused or never sent the last one.
LEMMA ExecutorContinues ==
    ASSUME NEW x \in Arguments, NEW p, NEW i \in 1..Requests(x.tool),
           NEW ans \in AnswersTo(x), NEW r \in Executor(x, p, i, ans)
    PROVE  /\ r \in Errors \cup {"next", "success"}
           /\ r = "next" => i < Requests(x.tool)
           /\ r = "next" /\ x.tool = "apply_k8s_manifest" /\ x.required /\ Manifest(x) = "next"
                 => x.kind = "namespaced"
           /\ r = "success" /\ x.tool \in Writes =>
                 i = Requests(x.tool) /\ ans \in {"ok", "cut", "unusable"}
           /\ r \in Definite => ans \in {"404", "auth"} \/ i < Requests(x.tool)
  <1>x. /\ x.tool \in TOOLS
        /\ x.kind \in {"none", "unnamed", "namespaced", "cluster", "unknown", "ambiguous"}
        /\ x.kind # "none" <=> x.required /\ x.tool = "apply_k8s_manifest"
    BY ArgumentFields
  <1>1. CASE x.tool \in K8sReads \cup {"restart_deployment", "scale_deployment"}
    <2>1. Requests(x.tool) = 1 /\ i = 1
      BY <1>1 DEF Requests, K8sReads
    <2>2. r \in run(ans)
      BY <1>1, <2>1 DEF Executor, K8sReads, k8s_reads, rollouts
    <2>3. ans \in {"ok", "404", "auth", "error", "timeout", "broken", "cut"}
      BY <1>1 DEF AnswersTo, K8sWrites
    <2>4. QED  BY <1>1, <2>1, <2>2, <2>3 DEF run, MaxRetry, Errors, Definite, K8sReads
  <1>0. CASE x.tool = "exec_into_pod"
    <2>1. Requests(x.tool) = 1 /\ i = 1
      BY <1>0 DEF Requests
    <2>2. ans \in {"ok", "404", "auth", "error", "timeout", "broken", "cut"}
      BY <1>0 DEF AnswersTo, K8sWrites
    <2>3. r \in IF ans \in {"ok", "cut"} THEN {"success"} ELSE run(ans) \cup {"upstream_error"}
      BY <1>0, <2>1 DEF Executor, K8sReads, exec_into_pod
    <2>4. QED  BY <1>0, <2>1, <2>2, <2>3 DEF run, MaxRetry, Errors, Definite
  <1>2. CASE x.tool = "apply_k8s_manifest"
    <2>1. Requests(x.tool) = 2 /\ i \in {1, 2}
      BY <1>2 DEF Requests
    <2>2. ans \in {"ok", "404", "auth", "error", "timeout", "broken", "cut"}
      BY <1>2 DEF AnswersTo, K8sWrites
    <2>3. r \in apply_k8s_manifest(x, p, i, ans)
      BY <1>2 DEF Executor, K8sReads
    <2>4. CASE i = 1
      <3>1. \/ ans = "ok" /\ r = Then(resource_for(x), Namespaced(x))
            \/ ans # "ok" /\ r \in {"unhandled_error", "not_found"}
        BY <2>3, <2>4 DEF apply_k8s_manifest
      <3>2. QED
        BY <1>2, <1>x, <2>1, <2>4, <3>1 DEF Then, resource_for, Namespaced, Manifest, Errors
    <2>5. CASE i = 2
      <3>1. r \in run(ans)
        BY <2>3, <2>5 DEF apply_k8s_manifest
      <3>2. QED  BY <1>2, <2>1, <2>2, <2>5, <3>1 DEF run, MaxRetry, Errors, Definite
    <2>6. QED  BY <2>1, <2>4, <2>5
  <1>3. ASSUME x.tool \notin K8sReads \cup K8sWrites, NEW s \in _send(ans)
        PROVE  /\ s \in Errors \cup {"success"}
               /\ s = "success" => ans = "ok"
               /\ s \in Definite => ans = "404"
    <2>1. ans \in {"ok", "404", "auth", "error", "timeout", "broken", "unusable"}
      BY <1>3 DEF AnswersTo
    <2>2. QED  BY <1>3, <2>1 DEF _send, Errors, Definite
  <1>4. CASE x.tool = "trigger_jenkins_job"
    <2>1. Requests(x.tool) = 2 /\ i \in {1, 2}
      BY <1>4 DEF Requests
    <2>2. r \in trigger_jenkins_job(x, i, ans)
      BY <1>4 DEF Executor, K8sReads
    <2>3. CASE i = 1
      <3>1. r \in {"next", "unhandled_error"}
        BY <2>2, <2>3 DEF trigger_jenkins_job, _jenkins_crumb
      <3>2. QED  BY <1>4, <2>1, <2>3, <3>1 DEF Errors, Definite
    <2>4. CASE i = 2
      <3>1. r \in IF ans = "unusable" THEN {"success"} ELSE _send(ans)
        BY <2>2, <2>4 DEF trigger_jenkins_job
      <3>2. r \in Errors \cup {"success"} /\ (r \in Definite => ans = "404")
            /\ (r = "success" => ans \in {"ok", "unusable"})
        BY <1>3, <1>4, <3>1 DEF K8sReads, K8sWrites, Errors, Definite
      <3>3. QED  BY <1>4, <2>1, <2>4, <3>2 DEF Errors
    <2>5. QED  BY <2>1, <2>3, <2>4
  <1>5. CASE x.tool = "query_terraform_plan"
    <2>1. Requests(x.tool) = 3 /\ i \in {1, 2, 3}
      BY <1>5 DEF Requests
    <2>2. r \in query_terraform_plan(x, i, ans)
      BY <1>5 DEF Executor, K8sReads
    <2>3. r \in _send(ans) \/ (i \in {1, 2} /\ r \in {"next", "success"})
      BY <2>1, <2>2 DEF query_terraform_plan
    <2>4. r \in _send(ans) => r \in Errors \cup {"success"} /\ (r \in Definite => ans = "404")
      BY <1>3, <1>5 DEF K8sReads, K8sWrites
    <2>5. QED  BY <1>5, <2>1, <2>3, <2>4 DEF Errors, Definite, Writes, K8sWrites
  <1>6. CASE x.tool \in {"get_jenkins_job_status", "read_ticket", "read_prometheus_metrics"}
    <2>1. Requests(x.tool) = 1 /\ i = 1
      BY <1>6 DEF Requests
    <2>2. r \in _send(ans) \cup {"upstream_error"}
      BY <1>6, <2>1 DEF Executor, K8sReads, get_jenkins_job_status, read_ticket,
                        read_prometheus_metrics
    <2>3. r \in Errors \cup {"success"} /\ (r \in Definite => ans = "404")
      BY <1>3, <1>6, <2>2 DEF K8sReads, K8sWrites, Errors, Definite
    <2>4. QED  BY <1>6, <2>1, <2>3 DEF Errors, Writes, K8sWrites
  <1>7. CASE x.tool = "open_ticket"
    BY <1>7 DEF Requests
  <1>8. QED  BY <1>x, <1>0, <1>1, <1>2, <1>4, <1>5, <1>6, <1>7 DEF TOOLS, K8sReads

-----------------------------------------------------------------------------
Wires == {"none", "sent", "open", "unstarted", "done", "404", "auth", "error"}
States == Errors \cup {"unused", "running", "success", "lost"}

LEMMA InitExec == Init => ExecInv
  <1> SUFFICES ASSUME Init PROVE ExecInv
    OBVIOUS
  <1>1. Requests(args.tool) \in Nat
    BY DEF Requests
  <1>2. TypeOK
    BY <1>1 DEF Init, TypeOK
  <1>3. Checked /\ StreamOnly /\ DefiniteErrorNoEffect /\ SuccessMeansDone
    BY DEF Init, Checked, StreamOnly, DefiniteErrorNoEffect, SuccessMeansDone, Running
  <1>4. QED  BY <1>2, <1>3 DEF ExecInv

\* The write tools have at least one request.
LEMMA WritesSend ==
    ASSUME NEW tool \in Writes
    PROVE  Requests(tool) \in Nat /\ Requests(tool) >= 1
  BY DEF Requests, Writes, K8sWrites

LEMMA BeginStep ==
    ASSUME ExecInv, NEW a \in Tries, Begin(a)
    PROVE  ExecInv'
  <1>t. TypeOK /\ Checked /\ StreamOnly /\ DefiniteErrorNoEffect /\ SuccessMeansDone
    BY DEF ExecInv
  <1>1. PICK r \in Executor(args, host[a], 0, "none") :
          /\ state' = [state EXCEPT ![a] = IF r = "next" THEN "running" ELSE r]
          /\ at' = [at EXCEPT ![a] = IF r = "next" THEN 1 ELSE 0]
          /\ wire' = [wire EXCEPT ![a] = IF r = "next" THEN "sent" ELSE "none"]
          /\ loaded' = [loaded EXCEPT ![host[a]] = @ \/ (IsK8s /\ r = "next")]
    BY DEF Begin
  <1>2. UNCHANGED <<args, configured, mounted, host>>
    BY DEF Begin
  <1>3. /\ r \in Errors \cup {"next", "success"}
        /\ r = "success" => args.tool = "open_ticket"
        /\ r = "next" =>
              /\ args.tool # "open_ticket" /\ args.required
              /\ args.tool \in Writes => args.reason = "ok"
              /\ args.tool = "apply_k8s_manifest" => Manifest(args) = "next"
    BY <1>t, ExecutorStarts DEF TypeOK
  <1>4. /\ at'[a] \in 0..Requests(args.tool)
        /\ at'[a] >= 1 <=> r = "next"
        /\ at'[a] # 2
    <2>1. args.tool # "open_ticket" => Requests(args.tool) \in Nat /\ Requests(args.tool) >= 1
      BY DEF Requests
    <2>2. Requests(args.tool) \in Nat
      BY DEF Requests
    <2>3. at'[a] = IF r = "next" THEN 1 ELSE 0
      BY <1>1, <1>t DEF TypeOK
    <2>4. QED  BY <1>3, <2>1, <2>2, <2>3
  <1>5. TypeOK'
    <2>1. state'[a] \in States
      BY <1>1, <1>3, <1>t DEF TypeOK, States, Errors
    <2>2. state' \in [Tries -> States]
      BY <1>1, <1>t, <2>1 DEF TypeOK, States
    <2>3. at' \in [Tries -> 0..Requests(args.tool)]
      BY <1>1, <1>4, <1>t DEF TypeOK
    <2>4. loaded' \in [Processes -> BOOLEAN]
      BY <1>1, <1>t DEF TypeOK
    <2>5. wire' \in [Tries -> Wires]
      BY <1>1, <1>t DEF TypeOK, Wires
    <2>6. QED  BY <1>2, <1>t, <2>2, <2>3, <2>4, <2>5 DEF TypeOK, States, Wires
  <1>6. \A b \in Tries : b # a => state'[b] = state[b] /\ at'[b] = at[b] /\ wire'[b] = wire[b]
    BY <1>1, <1>t DEF TypeOK
  <1>7. state'[a] = IF r = "next" THEN "running" ELSE r
    BY <1>1, <1>t DEF TypeOK
  <1>8. Checked'
    BY <1>2, <1>3, <1>4, <1>6, <1>7, <1>t DEF Checked, Running, Manifest, Placement, Errors
  <1>9. args.tool \in Writes /\ r # "next" => at'[a] # Requests(args.tool)
    BY <1>4, <1>5, WritesSend DEF TypeOK
  <1>10. DefiniteErrorNoEffect'
    BY <1>2, <1>3, <1>6, <1>7, <1>9, <1>t DEF DefiniteErrorNoEffect, Writing
  <1>11. SuccessMeansDone'
    BY <1>2, <1>3, <1>6, <1>7, <1>t DEF SuccessMeansDone, Writing, Writes, K8sWrites
  <1>12. StreamOnly'
    BY <1>1, <1>2, <1>6, <1>t DEF StreamOnly, TypeOK
  <1>13. QED  BY <1>5, <1>8, <1>10, <1>11, <1>12 DEF ExecInv

\* An answer, a time-out or a broken connection.  w is what is left downstream.
LEMMA ProceedStep ==
    ASSUME ExecInv, NEW a \in Tries, Running(a), NEW ans \in AnswersTo(args),
           NEW w \in Wires,
           ans \in {"ok", "cut", "unusable"} /\ Writing(a) => w \in Carried(args.tool),
           ans \in {"404", "auth"} => w \notin {"sent", "open", "done"},
           w \in {"open", "unstarted"} => args.tool = "exec_into_pod",
           Proceed(a, ans, w)
    PROVE  ExecInv'
  <1>t. TypeOK /\ Checked /\ StreamOnly /\ DefiniteErrorNoEffect /\ SuccessMeansDone
    BY DEF ExecInv
  <1>u. UNCHANGED <<args, configured, mounted, loaded, host>>
    BY DEF Proceed
  <1>1. PICK r \in Executor(args, host[a], at[a], ans) :
          IF r = "next"
          THEN /\ at' = [at EXCEPT ![a] = @ + 1]
               /\ wire' = [wire EXCEPT ![a] = "sent"]
               /\ UNCHANGED state
          ELSE /\ state' = [state EXCEPT ![a] = r]
               /\ wire' = [wire EXCEPT ![a] = w]
               /\ UNCHANGED at
    BY DEF Proceed
  <1>2. at[a] \in 1..Requests(args.tool) /\ Requests(args.tool) \in Nat
    <2>1. Requests(args.tool) \in Nat
      BY DEF Requests
    <2>2. QED  BY <1>t, <2>1 DEF TypeOK, Checked
  <1>3. /\ r \in Errors \cup {"next", "success"}
        /\ r = "next" => at[a] < Requests(args.tool)
        /\ r = "next" /\ args.tool = "apply_k8s_manifest" /\ args.required
              /\ Manifest(args) = "next" => args.kind = "namespaced"
        /\ r = "success" /\ args.tool \in Writes =>
              at[a] = Requests(args.tool) /\ ans \in {"ok", "cut", "unusable"}
        /\ r \in Definite => ans \in {"404", "auth"} \/ at[a] < Requests(args.tool)
    BY <1>t, <1>2, ExecutorContinues DEF TypeOK
  <1>4. \A b \in Tries : b # a => state'[b] = state[b] /\ at'[b] = at[b] /\ wire'[b] = wire[b]
    BY <1>1, <1>t DEF TypeOK
  <1>5. CASE r = "next"
    <2>1. /\ at'[a] = at[a] + 1 /\ wire'[a] = "sent" /\ state'[a] = "running"
          /\ at'[a] \in 1..Requests(args.tool)
      BY <1>1, <1>2, <1>3, <1>5, <1>t DEF TypeOK, Running
    <2>2. TypeOK'
      <3>1. at' \in [Tries -> 0..Requests(args.tool)]
        BY <1>1, <1>5, <1>t, <2>1 DEF TypeOK
      <3>2. wire' \in [Tries -> Wires]
        BY <1>1, <1>5, <1>t DEF TypeOK, Wires
      <3>3. state' = state
        BY <1>1, <1>5
      <3>4. QED  BY <1>t, <1>u, <3>1, <3>2, <3>3 DEF TypeOK, Wires
    <2>3. Checked'
      BY <1>2, <1>3, <1>4, <1>5, <1>t, <1>u, <2>1
         DEF Checked, Running, Manifest, Placement
    <2>4. DefiniteErrorNoEffect' /\ SuccessMeansDone'
      BY <1>4, <1>t, <1>u, <2>1 DEF DefiniteErrorNoEffect, SuccessMeansDone, Writing
    <2>5. StreamOnly'
      BY <1>4, <1>t, <1>u, <2>1 DEF StreamOnly
    <2>6. QED  BY <2>2, <2>3, <2>4, <2>5 DEF ExecInv
  <1>6. CASE r # "next"
    <2>1. /\ at'[a] = at[a] /\ wire'[a] = w /\ state'[a] = r
          /\ r \in Errors \cup {"success"}
      BY <1>1, <1>3, <1>6, <1>t DEF TypeOK
    <2>2. TypeOK'
      <3>1. state' \in [Tries -> States]
        BY <1>1, <1>6, <1>t, <2>1 DEF TypeOK, States
      <3>2. wire' \in [Tries -> Wires]
        BY <1>1, <1>6, <1>t DEF TypeOK, Wires
      <3>3. at' = at
        BY <1>1, <1>6
      <3>4. QED  BY <1>t, <1>u, <3>1, <3>2, <3>3 DEF TypeOK, Wires, States
    <2>3. Checked'
      BY <1>4, <1>t, <1>u, <2>1 DEF Checked, Running, Manifest, Placement, Errors
    <2>4. DefiniteErrorNoEffect'
      <3>1. r \in Definite => ~ (at[a] = Requests(args.tool) /\ w \in {"sent", "open", "done"})
        BY <1>2, <1>3
      <3>2. QED
        BY <1>4, <1>t, <1>u, <2>1, <3>1 DEF DefiniteErrorNoEffect, Writing, Definite
    <2>5. SuccessMeansDone'
      BY <1>3, <1>4, <1>t, <1>u, <2>1 DEF SuccessMeansDone, Writing
    <2>6. StreamOnly'
      BY <1>4, <1>t, <1>u, <2>1 DEF StreamOnly
    <2>7. QED  BY <2>2, <2>3, <2>4, <2>5, <2>6 DEF ExecInv
  <1>7. QED  BY <1>5, <1>6

LEMMA ExecStep == ExecInv /\ [Next]_vars => ExecInv'
  <1> SUFFICES ASSUME ExecInv, [Next]_vars PROVE ExecInv'
    OBVIOUS
  <1>t. TypeOK /\ Checked /\ StreamOnly /\ DefiniteErrorNoEffect /\ SuccessMeansDone
    BY DEF ExecInv
  <1>w. \A a \in Tries :
          /\ wire[a] \in Wires
          /\ wire[a] \in {"open", "unstarted"} => args.tool = "exec_into_pod"
    BY <1>t DEF TypeOK, Wires, StreamOnly
  <1>1. ASSUME NEW a \in Tries, Begin(a)
        PROVE  ExecInv'
    BY <1>1, BeginStep
  <1>2. ASSUME NEW a \in Tries, Answer(a)
        PROVE  ExecInv'
    <2>1. PICK ans \in Replies(a) : Proceed(a, ans, wire[a])
      BY <1>2 DEF Answer
    <2>2. Running(a) /\ wire[a] \notin {"none", "sent"}
      BY <1>2 DEF Answer
    <2>3. wire[a] \in {"open", "unstarted", "done", "404", "auth", "error"}
      BY <1>w, <2>2 DEF Wires
    <2>4. CASE wire[a] \in {"404", "auth", "error"}
      <3>1. ans = wire[a]
        BY <2>1, <2>4 DEF Replies
      <3>2. QED  BY <1>w, <2>1, <2>2, <2>4, <3>1, ProceedStep DEF AnswersTo
    <2>5. CASE wire[a] \in {"open", "unstarted", "done"}
      <3>1. ans \in {"ok", "error", "unusable"} /\ ans \in AnswersTo(args)
        BY <2>1, <2>5 DEF Replies, AnswersTo, IsK8s
      <3>2. wire[a] \in Carried(args.tool)
        BY <1>t, <2>5 DEF Carried, StreamOnly
      <3>3. QED  BY <1>w, <2>1, <2>2, <3>1, <3>2, ProceedStep
    <2>6. QED  BY <2>3, <2>4, <2>5
  <1>3. ASSUME NEW a \in Tries, FromCache(a)
        PROVE  ExecInv'
    <2>1. Running(a) /\ ~ Writing(a) /\ Proceed(a, "ok", "none")
      BY <1>3 DEF FromCache, Discovering, Writing, Requests
    <2>2. "ok" \in AnswersTo(args) /\ "none" \in Wires
      BY DEF AnswersTo, Wires
    <2>3. QED  BY <2>1, <2>2, ProceedStep
  <1>4. ASSUME NEW a \in Tries, Expire(a)
        PROVE  ExecInv'
    <2>1. CASE args.tool = "exec_into_pod"
      <3>1. /\ Running(a) /\ Proceed(a, "cut", wire[a])
            /\ wire[a] \in {"open", "unstarted", "done"}
        BY <1>4, <2>1 DEF Expire
      <3>2. "cut" \in AnswersTo(args) /\ wire[a] \in Carried(args.tool)
        BY <2>1, <3>1 DEF AnswersTo, K8sWrites, Carried
      <3>3. QED  BY <1>w, <3>1, <3>2, ProceedStep
    <2>2. CASE args.tool # "exec_into_pod"
      <3>1. Running(a) /\ Proceed(a, "timeout", wire[a])
        BY <1>4, <2>2 DEF Expire
      <3>2. "timeout" \in AnswersTo(args)
        BY DEF AnswersTo
      <3>3. QED  BY <1>w, <3>1, <3>2, ProceedStep
    <2>3. QED  BY <2>1, <2>2
  <1>5. ASSUME NEW a \in Tries, Break(a)
        PROVE  ExecInv'
    <2>1. PICK w \in {wire[a], IF wire[a] = "sent" THEN "none" ELSE wire[a]} :
            Proceed(a, "broken", w)
      BY <1>5 DEF Break
    <2>2. w \in Wires /\ (w \in {"open", "unstarted"} => args.tool = "exec_into_pod")
      BY <1>w DEF Wires
    <2>3. Running(a) /\ "broken" \in AnswersTo(args)
      BY <1>5 DEF Break, AnswersTo
    <2>4. QED  BY <2>1, <2>2, <2>3, ProceedStep
  <1>6. ASSUME NEW a \in Tries, Upgrade(a) \/ Perform(a) \/ Refuse(a)
         PROVE  ExecInv'
    <2>1. UNCHANGED <<args, configured, mounted, loaded, state, host, at>>
      BY <1>6 DEF Upgrade, Perform, Refuse
    <2>2. PICK v \in {"open", "unstarted", "done", "404", "auth", "error"} :
            wire' = [wire EXCEPT ![a] = v]
      BY <1>6 DEF Upgrade, Perform, Refuse
    <2>3. /\ wire[a] \in {"sent", "open"}
          /\ v \in {"open", "unstarted"} => args.tool = "exec_into_pod"
          /\ wire[a] = "open" => v \in {"unstarted", "done"}
      BY <1>6, <1>t, <2>2 DEF Upgrade, Perform, Refuse, TypeOK, StreamOnly
    <2>4. TypeOK'
      BY <1>t, <2>1, <2>2 DEF TypeOK
    <2>5. Checked' /\ StreamOnly'
      BY <1>t, <2>1, <2>2, <2>3 DEF Checked, Running, Manifest, Placement, StreamOnly, TypeOK
    <2>6. DefiniteErrorNoEffect' /\ SuccessMeansDone'
      BY <1>t, <2>1, <2>2, <2>3
         DEF TypeOK, DefiniteErrorNoEffect, SuccessMeansDone, Writing, Carried
    <2>7. QED  BY <2>4, <2>5, <2>6 DEF ExecInv
  <1>7. CASE Mount
    BY <1>7, <1>t DEF Mount, attempt, ExecInv, TypeOK, Checked, StreamOnly, Running,
                      Manifest, Placement, DefiniteErrorNoEffect, SuccessMeansDone, Writing
  <1>8. ASSUME NEW p \in Processes, Crash(p)
        PROVE  ExecInv'
    <2>1. UNCHANGED <<args, configured, mounted, host, at, wire>>
      BY <1>8 DEF Crash
    <2>2. \A a \in Tries : state'[a] = state[a] \/ state'[a] = "lost"
      BY <1>8 DEF Crash
    <2>3. TypeOK'
      BY <1>8, <1>t, <2>1 DEF Crash, TypeOK
    <2>4. Checked' /\ StreamOnly' /\ DefiniteErrorNoEffect' /\ SuccessMeansDone'
      BY <1>t, <2>1, <2>2 DEF Checked, StreamOnly, Running, Manifest, Placement,
                              DefiniteErrorNoEffect, SuccessMeansDone, Writing
    <2>5. QED  BY <2>3, <2>4 DEF ExecInv
  <1>9. CASE UNCHANGED vars
    BY <1>9, <1>t DEF vars, attempt, ExecInv, TypeOK, Checked, StreamOnly, Running,
                      Manifest, Placement, DefiniteErrorNoEffect, SuccessMeansDone, Writing
  <1>10. QED  BY <1>1, <1>2, <1>3, <1>4, <1>5, <1>6, <1>7, <1>8, <1>9 DEF Next

LEMMA ExecSpecInv == Spec => []ExecInv
  BY InitExec, ExecStep, PTL DEF Spec

-----------------------------------------------------------------------------
\* Every outcome of an executor is one _execute_tool's callers have a status for.
THEOREM ExecutorsTypeCorrect == Spec => []TypeOK
  <1>1. ExecInv => TypeOK
    BY DEF ExecInv
  <1>2. QED  BY <1>1, ExecSpecInv, PTL

\* Every Kubernetes write of tools_spec.py is the one the policy decided about, in
\* a namespace and with a reason, through any retries, failures and restarts.
THEOREM ExecutorsWritesAreVetted == Spec => []WritesAreVetted
  <1>1. ExecInv => WritesAreVetted
    <2> SUFFICES ASSUME ExecInv, NEW a \in Tries, Writing(a), IsK8s
                 PROVE  /\ Decision([args EXCEPT !.namespace = Placement(args)]) = Decision(args)
                        /\ args.kind \in {"none", "namespaced"}
                        /\ args.reason = "ok"
      BY DEF WritesAreVetted
    <2>1. args \in Arguments /\ at[a] \in 0..Requests(args.tool) /\ Checked
      BY DEF ExecInv, TypeOK
    <2>2. args.tool \in Writes /\ at[a] = Requests(args.tool) /\ at[a] >= 1
      BY WritesSend DEF Writing
    <2>3. args.reason = "ok" /\ args.required
      BY <2>1, <2>2 DEF Checked
    <2>4. args.kind \in {"none", "namespaced"}
      BY <2>1, <2>2, ArgumentFields DEF Checked, Requests
    <2>5. Placement(args) = args.namespace
      <3>1. CASE args.tool = "apply_k8s_manifest"
        <4>1. Manifest(args) = "next"
          BY <2>1, <2>2, <3>1 DEF Checked
        <4>2. QED  BY <4>1 DEF Manifest, Placement
      <3>2. CASE args.tool # "apply_k8s_manifest"
        <4>1. args.inner = "null"
          BY <2>1, <3>2 DEF Arguments
        <4>2. QED  BY <4>1 DEF Placement
      <3>3. QED  BY <3>1, <3>2
    <2>6. [args EXCEPT !.namespace = Placement(args)] = args
      BY <2>1, <2>5 DEF Arguments
    <2>7. QED  BY <2>3, <2>4, <2>6
  <1>2. QED  BY <1>1, ExecSpecInv, PTL

\* validation_error, not_found and permission_denied mean that nothing was changed
\* and nothing will be.
THEOREM ExecutorsDefiniteErrorNoEffect == Spec => []DefiniteErrorNoEffect
  <1>1. ExecInv => DefiniteErrorNoEffect
    BY DEF ExecInv
  <1>2. QED  BY <1>1, ExecSpecInv, PTL

\* A write tool that reports success was carried out downstream; for exec_into_pod
\* it had its stream opened, which is all the executor looks at.
THEOREM ExecutorsSuccessMeansDone == Spec => []SuccessMeansDone
  <1>1. ExecInv => SuccessMeansDone
    BY DEF ExecInv
  <1>2. QED  BY <1>1, ExecSpecInv, PTL

=============================================================================
