--------------------------- MODULE GatewayProofs ----------------------------
(***************************************************************************)
(* For every registry of API keys and every number of requests and         *)
(* callbacks, with all faults: what may reach an executor.  The invariant  *)
(* of the approval gate is not proved again: the gateway's steps are steps *)
(* of the gate or leave it alone.                                          *)
(***************************************************************************)
EXTENDS Gateway, ApprovalGateProofs

\* What the policy's answer says of a call.
LEMMA DecisionMeans ==
    ASSUME NEW r \in Requests, r.key \in Keys
    PROVE  /\ Decision(OpaInput(r)) \in {"allow", "deny", "require_approval"}
           /\ Decision(OpaInput(r)) # "deny" =>
                 /\ r.tool \in AllowedTools(Role[r.key])
                 /\ r.namespace = "prod-payments" => Role[r.key] # "deploy-bot"
                 /\ ~ (r.tool \in kube_system_blocked_tools /\ r.namespace = "kube-system")
           /\ Decision(OpaInput(r)) = "allow" => ~ NeedsHuman(r)
           /\ Decision(OpaInput(r)) = "require_approval" => NeedsHuman(r)
  <1> DEFINE i == OpaInput(r)
  <1>1. i.role = Role[r.key] /\ i.tool = r.tool /\ i.namespace = r.namespace
    BY DEF OpaInput
  <1>2. Decision(i) # "deny" => allow(i)
    BY DEF Decision, require_approval
  <1>3. allow(i) =>
           /\ i.tool \in AllowedTools(i.role)
           /\ ~ (i.tool \in kube_system_blocked_tools /\ i.namespace = "kube-system")
    BY DEF allow, tool_allowed, kube_system_blocked
  <1>4. allow(i) /\ i.namespace = "prod-payments" => i.role # "deploy-bot"
    BY DEF allow, environment_allowed, InferEnvironment, AllowedEnvironments
  <1>5. InferEnvironment(i.namespace) = "prod" <=> i.namespace = "prod-payments"
    BY DEF InferEnvironment
  <1>6. require_approval(i) <=> allow(i) /\ NeedsHuman(r)
    BY <1>1, <1>5 DEF require_approval, NeedsHuman, destructive_tools,
                      always_require_approval_tools
  <1> HIDE DEF i
  <1>7. /\ Decision(i) \in {"allow", "deny", "require_approval"}
        /\ Decision(i) = "allow" => allow(i) /\ ~ require_approval(i)
        /\ Decision(i) = "require_approval" => require_approval(i)
    BY DEF Decision
  <1>8. QED  BY <1>1, <1>2, <1>3, <1>4, <1>6, <1>7 DEF i

-----------------------------------------------------------------------------
\* Seen from the approval gate, the gateway takes steps of the gate.
LEMMA GatewayStepsGate == GatewayNext => [Next]_vars
  <1> SUFFICES ASSUME GatewayNext PROVE [Next]_vars
    OBVIOUS
  <1>1. ASSUME NEW a \in Approvals, NEW r \in Requests, Authenticate(a, r)
        PROVE  UNCHANGED vars
    BY <1>1 DEF Authenticate
  <1>2. ASSUME NEW a \in Approvals, McpStep(a), ~ Hold(a)
        PROVE  UNCHANGED vars
    BY <1>2 DEF McpStep, RateLimit, Evaluate, OpaFails, OpaBreaks, Deny, Execute, McpAudit,
                McpAuditFails
  <1>3. ASSUME NEW a \in Approvals, Hold(a)
        PROVE  Next
    BY <1>3 DEF Hold, Next
  <1>4. CASE GateStep
    BY <1>4 DEF GateStep, Next
  <1>5. CASE GatewayCrash
    BY <1>5 DEF GatewayCrash, Next
  <1>6. QED  BY <1>1, <1>2, <1>3, <1>4, <1>5 DEF GatewayNext

\* The gateway uses the approval gate as it is meant to be used, so all that
\* is proved of the gate holds inside the gateway.
THEOREM GatewayRefinesGate == GatewaySpec => Spec
  <1>1. GatewayInit => Init
    BY DEF GatewayInit
  <1>2. [GatewayNext]_allvars => [Next]_vars
    BY GatewayStepsGate DEF allvars
  <1>3. QED  BY <1>1, <1>2, PTL DEF GatewaySpec, Spec

LEMMA PipelineInit == GatewayInit => PipelineInv
  <1> SUFFICES ASSUME GatewayInit PROVE PipelineInv
    OBVIOUS
  <1>1. NoRequest \in Requests
    BY DEF NoRequest, Requests, Methods, Namespaces
  <1>2. PipelineTypeOK
    BY <1>1 DEF GatewayInit, PipelineTypeOK, Stages, Statuses, Outcomes
  <1>3. PipelineOrder /\ GateSeesHeld /\ RowOrder
    BY DEF GatewayInit, Init, PipelineOrder, GateSeesHeld, RowOrder, Statuses
  <1>4. QED  BY <1>2, <1>3 DEF PipelineInv

\* One step per action; under it one per conjunct the action can disturb.
LEMMA PipelineStep ==
    ASSUME GateInv, PipelineInv, [GatewayNext]_allvars
    PROVE  PipelineInv'
  <1> USE DEF Stages, Statuses
  <1>t. PipelineTypeOK BY DEF PipelineInv
  <1>o. PipelineOrder BY DEF PipelineInv
  <1>g. GateSeesHeld BY DEF PipelineInv
  <1>r. RowOrder BY DEF PipelineInv
  <1>c. call \in [Approvals -> CallActive \cup {"idle", "202", "500", "dead"}]
    BY DEF GateInv, TypeOK
  <1>1. ASSUME UNCHANGED <<mcp, call, pending_row>>
        PROVE  PipelineInv'
    BY <1>t, <1>o, <1>g, <1>r, <1>1
       DEF PipelineInv, PipelineTypeOK, PipelineOrder, GateSeesHeld, RowOrder, mcp
  <1>2. ASSUME NEW a \in Approvals, NEW r \in Requests, Authenticate(a, r)
        PROVE  PipelineInv'
    <2>1. PipelineTypeOK'
      BY <1>t, <1>2 DEF PipelineTypeOK, Authenticate
    <2>2. PipelineOrder'
      BY <1>t, <1>o, <1>2 DEF PipelineTypeOK, PipelineOrder, Authenticate
    <2>3. GateSeesHeld'
      BY <1>t, <1>g, <1>2
         DEF PipelineTypeOK, GateSeesHeld, Authenticate, vars, agent
    <2>4. RowOrder'
      BY <1>t, <1>o, <1>r, <1>2 DEF PipelineTypeOK, PipelineOrder, RowOrder, Authenticate
    <2>5. QED  BY <2>1, <2>2, <2>3, <2>4 DEF PipelineInv
  <1>3. ASSUME NEW a \in Approvals, RateLimit(a)
        PROVE  PipelineInv'
    <2>1. PICK next \in {"429", Dispatch(req[a])} : stage' = [stage EXCEPT ![a] = next]
      BY <1>3 DEF RateLimit
    <2>2. /\ next \in Statuses \cup {"opa"}
          /\ next = "opa" => req[a].tool \in Scope[req[a].key]
      BY <2>1 DEF Dispatch
    <2>3. UNCHANGED <<req, verdict, outcome, mcp_row, ran, call, pending_row>>
      BY <1>3 DEF RateLimit, vars, agent
    <2>4. stage[a] = "limit" /\ verdict[a] = "none" /\ req[a].key \in Keys
      BY <1>o, <1>3 DEF RateLimit, PipelineOrder
    <2> HIDE DEF Statuses
    <2>5. PipelineTypeOK'
      BY <1>t, <2>1, <2>2, <2>3 DEF PipelineTypeOK
    <2>6. PipelineOrder'
      BY <1>t, <1>o, <2>1, <2>2, <2>3, <2>4 DEF PipelineTypeOK, PipelineOrder, Statuses
    <2>7. GateSeesHeld'
      BY <1>t, <1>g, <2>1, <2>3, <2>4 DEF PipelineTypeOK, GateSeesHeld
    <2>8. RowOrder'
      BY <1>t, <1>r, <2>1, <2>3, <2>4 DEF PipelineTypeOK, RowOrder
    <2>9. QED  BY <2>5, <2>6, <2>7, <2>8 DEF PipelineInv
  <1>4. ASSUME NEW a \in Approvals, Evaluate(a) \/ OpaFails(a)
        PROVE  PipelineInv'
    <2>1. /\ stage[a] = "opa"
          /\ stage' = [stage EXCEPT ![a] = "decided"]
          /\ UNCHANGED <<req, outcome, mcp_row, ran, call, pending_row>>
      BY <1>4 DEF Evaluate, OpaFails, vars, agent
    <2>2. req[a] \in Requests /\ req[a].key \in Keys /\ req[a].tool \in Scope[req[a].key]
      BY <1>t, <1>o, <2>1 DEF PipelineTypeOK, PipelineOrder
    <2>3. PICK v \in {"deny", Decision(OpaInput(req[a]))} :
              verdict' = [verdict EXCEPT ![a] = v]
      BY <1>4 DEF Evaluate, OpaFails
    <2>4. v \in {"allow", "deny", "require_approval"}
      BY <2>2, <2>3, DecisionMeans
    <2>5. PipelineTypeOK'
      BY <1>t, <2>1, <2>3, <2>4 DEF PipelineTypeOK
    <2>6. PipelineOrder'
      BY <1>t, <1>o, <2>1, <2>2, <2>3, <2>4 DEF PipelineTypeOK, PipelineOrder
    <2>7. GateSeesHeld'
      BY <1>t, <1>g, <2>1, <2>3 DEF PipelineTypeOK, GateSeesHeld
    <2>8. RowOrder'
      BY <1>t, <1>r, <2>1, <2>3 DEF PipelineTypeOK, RowOrder
    <2>9. QED  BY <2>5, <2>6, <2>7, <2>8 DEF PipelineInv
  <1>b. ASSUME NEW a \in Approvals, OpaBreaks(a)
        PROVE  PipelineInv'
    <2>1. /\ stage[a] = "opa" /\ verdict[a] = "none"
          /\ stage' = [stage EXCEPT ![a] = "500"]
          /\ UNCHANGED <<req, verdict, outcome, mcp_row, ran, call, pending_row>>
      BY <1>o, <1>b DEF OpaBreaks, PipelineOrder, vars, agent
    <2>2. PipelineTypeOK'
      BY <1>t, <2>1 DEF PipelineTypeOK
    <2>3. PipelineOrder'
      BY <1>t, <1>o, <2>1 DEF PipelineTypeOK, PipelineOrder
    <2>4. GateSeesHeld'
      BY <1>t, <1>g, <2>1 DEF PipelineTypeOK, GateSeesHeld
    <2>5. RowOrder'
      BY <1>t, <1>r, <2>1 DEF PipelineTypeOK, RowOrder
    <2>6. QED  BY <2>2, <2>3, <2>4, <2>5 DEF PipelineInv
  <1>5. ASSUME NEW a \in Approvals, Hold(a)
        PROVE  PipelineInv'
    <2>1. PipelineTypeOK'
      BY <1>t, <1>5 DEF PipelineTypeOK, Hold
    <2>2. PipelineOrder'
      BY <1>t, <1>o, <1>5 DEF PipelineTypeOK, PipelineOrder, Hold
    <2>3. GateSeesHeld'
      BY <1>t, <1>c, <1>g, <1>5
         DEF PipelineTypeOK, GateSeesHeld, Hold, RequestApproval
    <2>4. RowOrder'
      BY <1>t, <1>r, <1>5 DEF PipelineTypeOK, RowOrder, Hold
    <2>5. QED  BY <2>1, <2>2, <2>3, <2>4 DEF PipelineInv
  <1>6. ASSUME NEW a \in Approvals, Deny(a)
        PROVE  PipelineInv'
    <2>1. PipelineTypeOK'
      BY <1>t, <1>6 DEF PipelineTypeOK, Deny
    <2>2. PipelineOrder'
      BY <1>t, <1>o, <1>6 DEF PipelineTypeOK, PipelineOrder, Deny
    <2>3. GateSeesHeld'
      BY <1>t, <1>g, <1>6 DEF PipelineTypeOK, GateSeesHeld, Deny, vars, agent
    <2>4. RowOrder'
      BY <1>t, <1>o, <1>r, <1>6 DEF PipelineTypeOK, PipelineOrder, RowOrder, Deny
    <2>5. QED  BY <2>1, <2>2, <2>3, <2>4 DEF PipelineInv
  <1>7. ASSUME NEW a \in Approvals, NEW o \in Outcomes, Execute(a, o)
        PROVE  PipelineInv'
    <2>0. o # "none" /\ o # "denied"
      BY DEF Outcomes
    <2>1. PipelineTypeOK'
      BY <1>t, <1>7 DEF PipelineTypeOK, Execute
    <2>2. PipelineOrder'
      BY <1>t, <1>o, <1>7 DEF PipelineTypeOK, PipelineOrder, Execute
    <2>3. GateSeesHeld'
      BY <1>t, <1>g, <1>7 DEF PipelineTypeOK, GateSeesHeld, Execute, vars, agent
    <2>4. RowOrder'
      BY <1>t, <1>r, <1>7, <2>0 DEF PipelineTypeOK, RowOrder, Execute
    <2>5. QED  BY <2>1, <2>2, <2>3, <2>4 DEF PipelineInv
  <1>8. ASSUME NEW a \in Approvals, McpAudit(a) \/ McpAuditFails(a)
        PROVE  PipelineInv'
    <2>1. /\ stage[a] = "audit"
          /\ UNCHANGED <<req, verdict, outcome, ran, call, pending_row>>
      BY <1>8 DEF McpAudit, McpAuditFails, vars, agent
    <2>2. PICK s \in {"500", StatusOf(outcome[a])} :
              /\ stage' = [stage EXCEPT ![a] = s]
              /\ \/ mcp_row' = [mcp_row EXCEPT ![a] = AuditLabel(outcome[a])]
                 \/ s = "500" /\ mcp_row' = mcp_row
      BY <1>8 DEF McpAudit, McpAuditFails
    <2>3. verdict[a] # "none" /\ outcome[a] \in Outcomes \cup {"denied"}
      BY <1>t, <1>o, <1>r, <2>1 DEF PipelineTypeOK, PipelineOrder, RowOrder
    <2>4. s \in Statuses
      BY <2>2, <2>3 DEF StatusOf, Outcomes
    <2>5. PipelineTypeOK'
      BY <1>t, <2>1, <2>2, <2>4 DEF PipelineTypeOK
    <2>6. PipelineOrder'
      BY <1>t, <1>o, <2>1, <2>2, <2>4 DEF PipelineTypeOK, PipelineOrder
    <2>7. GateSeesHeld'
      BY <1>t, <1>g, <2>1, <2>2 DEF PipelineTypeOK, GateSeesHeld
    <2>8. RowOrder'
      BY <1>t, <1>r, <2>1, <2>2, <2>3 DEF PipelineTypeOK, RowOrder
    <2>9. QED  BY <2>5, <2>6, <2>7, <2>8 DEF PipelineInv
  <1>9. CASE GatewayCrash
    <2>1. /\ \A a \in Approvals : \/ stage'[a] = stage[a]
                                  \/ stage'[a] = "dead" /\ stage[a] # "held"
          /\ stage' = [a \in Approvals |-> stage'[a]]
          /\ UNCHANGED <<req, verdict, outcome, mcp_row, ran>>
      BY <1>9 DEF GatewayCrash
    <2>2. /\ UNCHANGED pending_row
          /\ \A a \in Approvals : \/ call'[a] = call[a]
                                  \/ call'[a] = "dead" /\ call[a] # "idle"
      BY <1>9 DEF GatewayCrash, Crash, CallActive, vars, agent
    <2>3. PipelineTypeOK'
      BY <1>t, <2>1 DEF PipelineTypeOK
    <2>4. PipelineOrder'
      BY <1>o, <2>1 DEF PipelineOrder
    <2>5. GateSeesHeld'
      BY <1>g, <2>1, <2>2 DEF GateSeesHeld
    <2>6. RowOrder'
      BY <1>r, <2>1 DEF RowOrder
    <2>7. QED  BY <2>3, <2>4, <2>5, <2>6 DEF PipelineInv
  <1>10. CASE GateStep
    <2>1. UNCHANGED <<req, stage, verdict, outcome, mcp_row, ran>>
      BY <1>10 DEF GateStep, mcp
    <2>2. ASSUME NEW a \in Approvals, AgentStep(a)
          PROVE  GateSeesHeld'
      BY <1>c, <1>g, <2>1, <2>2
         DEF GateSeesHeld, AgentStep, CreatePending, CreateFails, Notify,
             AuditPending, AuditPendingFails
    <2>3. ASSUME NEW c \in Callbacks, Arrive(c) \/ HandlerStep(c)
          PROVE  UNCHANGED <<call, pending_row>>
      BY <2>3 DEF Arrive, Receive, HandlerStep, Get, Check, Set, RedisFails, Act,
                  Audit, AuditFails, Publish, agent
    <2>4. Tick => UNCHANGED <<call, pending_row>>
      BY DEF Tick, agent
    <2>5. GateSeesHeld'
      BY <1>g, <1>10, <2>1, <2>2, <2>3, <2>4 DEF GateStep, GateSeesHeld
    <2>6. PipelineTypeOK' /\ PipelineOrder' /\ RowOrder'
      BY <1>t, <1>o, <1>r, <2>1 DEF PipelineTypeOK, PipelineOrder, RowOrder
    <2>7. QED  BY <2>5, <2>6 DEF PipelineInv
  <1>11. CASE UNCHANGED allvars
    BY <1>1, <1>11 DEF allvars, vars, agent
  <1>12. QED
    BY <1>2, <1>3, <1>4, <1>b, <1>5, <1>6, <1>7, <1>8, <1>9, <1>10, <1>11
       DEF GatewayNext, McpStep

LEMMA PipelineSpecInv == GatewaySpec => [](GateInv /\ PipelineInv)
  <1>1. GatewaySpec => []GateInv
    BY GatewayRefinesGate, SpecInv, PTL
  <1>2. GateInv /\ PipelineInv /\ [GatewayNext]_allvars => PipelineInv'
    BY PipelineStep
  <1>3. QED  BY <1>1, <1>2, PipelineInit, PTL DEF GatewaySpec

-----------------------------------------------------------------------------
\* Where an executed call has been.
LEMMA ExecutedCame ==
    ASSUME GateInv, PipelineInv, NEW a \in Approvals
    PROVE  /\ a \in ran => Decision(OpaInput(req[a])) = "allow"
           /\ executions[a] # {} => Decision(OpaInput(req[a])) = "require_approval"
           /\ a \in Executed => /\ req[a] \in Requests
                                /\ req[a].key \in Keys
                                /\ req[a].tool \in Scope[req[a].key]
  <1>1. a \in ran => verdict[a] = "allow"
    BY DEF PipelineInv, PipelineOrder
  <1>2. executions[a] # {} => verdict[a] = "require_approval"
    <2>1. executions[a] # {} => Decided(a)
      BY DEF GateInv, ExecutionOrder
    <2>2. Decided(a) => call[a] # "idle"
      BY DEF GateInv, OfferOrder, Issued, Decided
    <2>3. QED  BY <2>1, <2>2 DEF PipelineInv, GateSeesHeld
  <1>3. QED
    BY <1>1, <1>2 DEF PipelineInv, PipelineOrder, PipelineTypeOK, Executed

\* Whatever fails, only authorised calls reach an executor.
THEOREM GatewayAuthorises == GatewaySpec => []ExecutedWasAuthorised
  <1>1. ASSUME GateInv, PipelineInv PROVE ExecutedWasAuthorised
    <2>1. Executed \in SUBSET Approvals
      BY <1>1 DEF Executed, PipelineInv, PipelineTypeOK
    <2>2. QED
      BY <1>1, <2>1, ExecutedCame, DecisionMeans DEF ExecutedWasAuthorised, Executed
  <1>2. QED  BY <1>1, PipelineSpecInv, PTL

\* No tool that needs a human runs without an approving callback.
THEOREM GatewayHumanInTheLoop == GatewaySpec => []HumanInTheLoop
  <1>1. ASSUME GateInv, PipelineInv PROVE HumanInTheLoop
    <2>1. ASSUME NEW a \in Approvals
          PROVE  /\ a \in ran => ~ NeedsHuman(req[a])
                 /\ executions[a] # {} => NeedsHuman(req[a])
      BY <1>1, ExecutedCame, DecisionMeans DEF Executed
    <2>2. \A a \in Approvals : \A c \in executions[a] : target[c] = a /\ decision[c] = "approve"
      BY <1>1 DEF GateInv, ExecutionOrder
    <2>3. QED  BY <2>1, <2>2 DEF HumanInTheLoop
  <1>2. QED  BY <1>1, PipelineSpecInv, PTL

\* What is answered, other than with a 500, is in the audit log.
THEOREM GatewayAnswersAudited == GatewaySpec => []AnswerAudited
  <1>1. ASSUME PipelineInv PROVE AnswerAudited
    <2>1. \A o \in Outcomes : AuditLabel(o) \notin {"none", "denied"}
      BY DEF AuditLabel, Outcomes
    <2>2. AuditLabel("denied") = "denied"
      BY DEF AuditLabel
    <2>3. QED
      BY <1>1, <2>1, <2>2
         DEF PipelineInv, PipelineTypeOK, RowOrder, GateSeesHeld, AnswerAudited, Outcomes
  <1>2. QED  BY <1>1, PipelineSpecInv, PTL

=============================================================================
