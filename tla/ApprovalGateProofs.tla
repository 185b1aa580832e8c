------------------------- MODULE ApprovalGateProofs -------------------------
(***************************************************************************)
(* For every number of approvals, callbacks and overlapping callbacks,     *)
(* every TTL, and all faults: what the approval gate guarantees.           *)
(***************************************************************************)
EXTENDS ApprovalGate, FiniteSetTheorems, TLAPS

USE DEF record, handler, effects, agent, Issued

\* Cardinalities of sets of callbacks.
LEMMA SubsetCard ==
    ASSUME NEW S \in SUBSET Callbacks, NEW T \in SUBSET S
    PROVE  /\ IsFiniteSet(S)
           /\ IsFiniteSet(T)
           /\ Cardinality(S) \in Nat
           /\ Cardinality(T) \in Nat
           /\ Cardinality(T) <= Cardinality(S)
  <1>1. IsFiniteSet(S)
    BY FS_Subset, GateAssumption DEF GateAssumption
  <1>2. IsFiniteSet(T) /\ Cardinality(T) <= Cardinality(S)
    BY <1>1, FS_Subset
  <1>3. QED  BY <1>1, <1>2, FS_CardinalityType

\* What every action that starts no callback comes down to: nobody joins the
\* callbacks in flight, and the candidates of an approval either shrink or
\* are still all in flight.
LEMMA ClosingStep ==
    ASSUME GateInv, TypeOK', InFlight' \in SUBSET InFlight,
           OfferOrder', HandlerOrder', ExecutionOrder', LateOrder',
           \A a \in Approvals : \/ Candidates(a)' \in SUBSET Candidates(a)
                                \/ Candidates(a)' \in SUBSET InFlight'
    PROVE  GateInv'
  <1>1. InFlight \in SUBSET Callbacks
    BY DEF InFlight
  <1>2. Cardinality(InFlight') <= MaxInFlight
    BY <1>1, SubsetCard, GateAssumption DEF GateInv, GateAssumption
  <1>3. ASSUME NEW a \in Approvals
        PROVE  Cardinality(Candidates(a)') <= MaxInFlight
    <2>1. CASE Candidates(a)' \in SUBSET Candidates(a)
      <3>1. Candidates(a) \in SUBSET Callbacks
        BY DEF GateInv, TypeOK, Candidates
      <3>2. QED
        BY <2>1, <3>1, SubsetCard, GateAssumption DEF GateInv, GateAssumption
    <2>2. CASE Candidates(a)' \in SUBSET InFlight'
      <3>1. InFlight' \in SUBSET Callbacks
        BY <1>1
      <3>2. QED  BY <1>2, <2>2, <3>1, SubsetCard, GateAssumption DEF GateAssumption
    <2>3. QED  BY <2>1, <2>2
  <1>4. QED  BY <1>2, <1>3 DEF GateInv

LEMMA InitInv == Init => GateInv
  <1> SUFFICES ASSUME Init PROVE GateInv
    OBVIOUS
  <1>1. TypeOK
    BY GateAssumption DEF Init, TypeOK, GateAssumption, NoTTL
  <1>2. OfferOrder /\ HandlerOrder /\ ExecutionOrder /\ LateOrder
    BY DEF Init, OfferOrder, HandlerOrder, ExecutionOrder, LateOrder, Decided, Active, Issued
  <1>3. InFlight = {} /\ \A a \in Approvals : Candidates(a) = {}
    BY DEF Init, InFlight, Active, Candidates
  <1>4. Cardinality({}) = 0
    BY FS_EmptySet
  <1>5. QED
    BY <1>1, <1>2, <1>3, <1>4, GateAssumption DEF GateInv, GateAssumption

\* A step of the agent's side, or of the clock: it leaves the callbacks and
\* what they did alone, undoes no decision and takes back no id.
LEMMA AgentSide ==
    ASSUME GateInv, TypeOK', OfferOrder', UNCHANGED <<handler, effects>>,
           Issued \in SUBSET Issued',
           \A a \in Approvals : Decided(a) => Decided(a)'
    PROVE  GateInv'
  <1>1. UNCHANGED <<pc, target, decision, seen, label, row, executions, pushed, late, foreign>>
    OBVIOUS
  <1>2. InFlight' = InFlight /\ \A a \in Approvals : Candidates(a)' = Candidates(a)
    BY <1>1 DEF InFlight, Candidates
  <1>3. HandlerOrder'
    BY <1>1 DEF GateInv, TypeOK, HandlerOrder
  <1>4. ExecutionOrder'
    BY <1>1 DEF GateInv, ExecutionOrder
  <1>5. LateOrder'
    BY <1>1 DEF GateInv, LateOrder
  <1>6. QED  BY <1>2, <1>3, <1>4, <1>5, ClosingStep

\* One step per action; under it one per conjunct the action can disturb.
LEMMA StepInv == GateInv /\ [Next]_vars => GateInv'
  <1> SUFFICES ASSUME GateInv, [Next]_vars PROVE GateInv'
    OBVIOUS
  <1> USE GateAssumption
      DEF GateAssumption, NoTTL, Active, Answers, CallActive, Labels, Decided, Issued
  <1>t. TypeOK BY DEF GateInv
  <1>o. OfferOrder BY DEF GateInv
  <1>h. HandlerOrder BY DEF GateInv
  <1>e. ExecutionOrder BY DEF GateInv
  <1>l. LateOrder BY DEF GateInv
  <1>1. CASE UNCHANGED vars
    <2>1. UNCHANGED <<clock, status, expires_at, ttl, call, offered, pending_row, pc,
                      target, decision, seen, label, row, executions, pushed, late, foreign>>
      BY <1>1 DEF vars
    <2>2. QED
      BY <2>1 DEF GateInv, TypeOK, InFlight, OfferOrder, HandlerOrder,
                  ExecutionOrder, LateOrder, Candidates
  <1>2. ASSUME NEW a \in Approvals, RequestApproval(a)
        PROVE  GateInv'
    <2>1. TypeOK'
      BY <1>t, <1>2 DEF TypeOK, RequestApproval
    <2>2. OfferOrder'
      BY <1>t, <1>o, <1>2 DEF TypeOK, OfferOrder, RequestApproval
    <2>3. \A b \in Approvals : Decided(b) => Decided(b)'
      BY <1>t, <1>o, <1>2 DEF TypeOK, OfferOrder, RequestApproval
    <2>4. UNCHANGED <<handler, effects>> /\ Issued \in SUBSET Issued'
      BY <1>2 DEF RequestApproval
    <2>5. QED  BY <2>1, <2>2, <2>3, <2>4, AgentSide
  <1>3. ASSUME NEW a \in Approvals, CreatePending(a)
        PROVE  GateInv'
    <2>1. TypeOK'
      BY <1>t, <1>3 DEF TypeOK, CreatePending, StorePending
    <2>2. OfferOrder'
      BY <1>t, <1>o, <1>3 DEF TypeOK, OfferOrder, CreatePending, StorePending
    <2>3. \A b \in Approvals : Decided(b) => Decided(b)'
      BY <1>t, <1>o, <1>3 DEF TypeOK, OfferOrder, CreatePending, StorePending
    <2>4. UNCHANGED <<handler, effects>> /\ Issued \in SUBSET Issued'
      BY <1>3 DEF CreatePending
    <2>5. QED  BY <2>1, <2>2, <2>3, <2>4, AgentSide
  <1>4. ASSUME NEW a \in Approvals, CreateFails(a)
        PROVE  GateInv'
    <2>1. TypeOK'
      BY <1>t, <1>4 DEF TypeOK, CreateFails, StorePending
    <2>2. OfferOrder'
      BY <1>t, <1>o, <1>4 DEF TypeOK, OfferOrder, CreateFails, StorePending
    <2>3. \A b \in Approvals : Decided(b) => Decided(b)'
      BY <1>t, <1>o, <1>4 DEF TypeOK, OfferOrder, CreateFails, StorePending
    <2>4. UNCHANGED <<handler, effects>> /\ Issued \in SUBSET Issued'
      BY <1>4 DEF CreateFails
    <2>5. QED  BY <2>1, <2>2, <2>3, <2>4, AgentSide
  <1>5. ASSUME NEW a \in Approvals, Notify(a)
        PROVE  GateInv'
    <2>1. TypeOK'
      BY <1>t, <1>5 DEF TypeOK, Notify
    <2>2. OfferOrder'
      BY <1>t, <1>o, <1>5 DEF TypeOK, OfferOrder, Notify
    <2>3. \A b \in Approvals : Decided(b) => Decided(b)'
      BY <1>t, <1>o, <1>5 DEF TypeOK, OfferOrder, Notify
    <2>4. UNCHANGED <<handler, effects>> /\ Issued \in SUBSET Issued'
      BY <1>5 DEF Notify
    <2>5. QED  BY <2>1, <2>2, <2>3, <2>4, AgentSide
  <1>6. ASSUME NEW a \in Approvals, AuditPending(a)
        PROVE  GateInv'
    <2>1. TypeOK'
      BY <1>t, <1>6 DEF TypeOK, AuditPending
    <2>2. OfferOrder'
      BY <1>t, <1>o, <1>6 DEF TypeOK, OfferOrder, AuditPending
    <2>3. \A b \in Approvals : Decided(b) => Decided(b)'
      BY <1>t, <1>o, <1>6 DEF TypeOK, OfferOrder, AuditPending
    <2>4. UNCHANGED <<handler, effects>> /\ Issued \in SUBSET Issued'
      BY <1>6 DEF AuditPending
    <2>5. QED  BY <2>1, <2>2, <2>3, <2>4, AgentSide
  <1>7. ASSUME NEW a \in Approvals, AuditPendingFails(a)
        PROVE  GateInv'
    <2>1. TypeOK'
      BY <1>t, <1>7 DEF TypeOK, AuditPendingFails
    <2>2. OfferOrder'
      BY <1>t, <1>o, <1>7 DEF TypeOK, OfferOrder, AuditPendingFails
    <2>3. \A b \in Approvals : Decided(b) => Decided(b)'
      BY <1>t, <1>o, <1>7 DEF TypeOK, OfferOrder, AuditPendingFails
    <2>4. UNCHANGED <<handler, effects>> /\ Issued \in SUBSET Issued'
      BY <1>7 DEF AuditPendingFails
    <2>5. QED  BY <2>1, <2>2, <2>3, <2>4, AgentSide
  <1>8. ASSUME NEW c \in Callbacks, Arrive(c)
        PROVE  GateInv'
    <2>1. PICK a \in Approvals, d \in {"approve", "deny"}, g \in BOOLEAN,
               w \in BOOLEAN, s \in 0..(MaxTime + ReplayTolerance) : Receive(c, a, d, g, s, w)
      BY <1>8 DEF Arrive
    <2>2. TypeOK'
      BY <1>t, <2>1 DEF TypeOK, Receive
    <2>3. Cardinality(InFlight') <= MaxInFlight
      <3>1. InFlight' \in SUBSET (InFlight \cup {c}) /\ c \notin InFlight
        BY <1>t, <2>1 DEF TypeOK, Receive, InFlight
      <3>2. InFlight \in SUBSET Callbacks /\ InFlight \cup {c} \in SUBSET Callbacks
        BY DEF InFlight
      <3>3. IsFiniteSet(InFlight) /\ Cardinality(InFlight) \in Nat
        BY <3>2, SubsetCard
      <3>4. Cardinality(InFlight \cup {c}) = Cardinality(InFlight) + 1
        BY <3>1, <3>3, FS_AddElement, Zenon
      <3>5. /\ Cardinality(InFlight') \in Nat
            /\ Cardinality(InFlight') <= Cardinality(InFlight \cup {c})
        BY <3>1, <3>2, SubsetCard
      <3>6. QED  BY <3>3, <3>4, <3>5, <2>1 DEF Receive
    <2>4. OfferOrder'
      BY <1>t, <1>o, <2>1 DEF TypeOK, Receive, OfferOrder
    <2>5. c \notin pushed /\ c \notin late /\ \A b \in Approvals : c \notin executions[b]
      BY <1>t, <1>h, <1>e, <1>l, <2>1
         DEF TypeOK, Receive, HandlerOrder, ExecutionOrder, LateOrder
    <2>6. HandlerOrder'
      BY <1>t, <1>h, <2>1, <2>5 DEF TypeOK, Receive, VerifySignature, HandlerOrder
    <2>7. ExecutionOrder'
      BY <1>t, <1>e, <2>1, <2>5 DEF TypeOK, Receive, ExecutionOrder
    <2>8. LateOrder'
      BY <1>t, <1>l, <2>1, <2>5 DEF TypeOK, Receive, LateOrder
    <2>9. ASSUME NEW b \in Approvals PROVE Candidates(b)' = Candidates(b)
      BY <1>t, <2>1 DEF TypeOK, Receive, Candidates
    <2>10. QED
      BY <2>2, <2>3, <2>4, <2>6, <2>7, <2>8, <2>9 DEF GateInv
  <1>9. ASSUME NEW c \in Callbacks, Get(c)
        PROVE  GateInv'
    <2>1. TypeOK'
      BY <1>t, <1>h, <1>9 DEF TypeOK, HandlerOrder, Get
    <2>2. InFlight' \in SUBSET InFlight
      BY <1>t, <1>9 DEF TypeOK, InFlight, Get
    <2>3. OfferOrder'
      BY <1>t, <1>o, <1>h, <1>9 DEF TypeOK, OfferOrder, HandlerOrder, Get
    <2>4. HandlerOrder'
      BY <1>t, <1>h, <1>e, <1>9 DEF TypeOK, HandlerOrder, ExecutionOrder, Get
    <2>5. ExecutionOrder'
      BY <1>t, <1>h, <1>e, <1>9 DEF TypeOK, HandlerOrder, ExecutionOrder, Get
    <2>6. LateOrder'
      BY <1>t, <1>h, <1>l, <1>9 DEF TypeOK, HandlerOrder, LateOrder, Get
    <2>7. ASSUME NEW b \in Approvals
          PROVE  \/ Candidates(b)' \in SUBSET Candidates(b)
                 \/ Candidates(b)' \in SUBSET InFlight'
      <3>1. CASE status[b] = "pending"
        <4>1. executions[b] = {}
          BY <1>t, <1>e, <3>1 DEF TypeOK, ExecutionOrder
        <4>2. executions' = executions
          BY <1>9 DEF Get
        <4>3. Candidates(b)' \in SUBSET InFlight'
          BY <4>1, <4>2 DEF Candidates, InFlight
        <4>4. QED  BY <4>3
      <3>2. CASE status[b] # "pending"
        BY <1>t, <1>h, <1>9, <3>2 DEF TypeOK, HandlerOrder, Get, Candidates
      <3>3. QED  BY <3>1, <3>2
    <2>8. QED  BY <2>1, <2>2, <2>3, <2>4, <2>5, <2>6, <2>7, ClosingStep
  <1>10. ASSUME NEW c \in Callbacks, Check(c)
         PROVE  GateInv'
    <2>1. TypeOK'
      BY <1>t, <1>10 DEF TypeOK, Check
    <2>2. InFlight' \in SUBSET InFlight
      BY <1>t, <1>10 DEF TypeOK, InFlight, Check
    <2>3. OfferOrder'
      BY <1>t, <1>o, <1>h, <1>10 DEF TypeOK, OfferOrder, HandlerOrder, Check
    <2>4. HandlerOrder'
      BY <1>t, <1>h, <1>e, <1>10 DEF TypeOK, HandlerOrder, ExecutionOrder, Check
    <2>5. ExecutionOrder'
      BY <1>t, <1>h, <1>e, <1>10 DEF TypeOK, HandlerOrder, ExecutionOrder, Check
    <2>6. LateOrder'
      BY <1>t, <1>h, <1>l, <1>10 DEF TypeOK, HandlerOrder, LateOrder, Check
    <2>7. ASSUME NEW b \in Approvals PROVE Candidates(b)' \in SUBSET Candidates(b)
      BY <1>t, <1>h, <1>10 DEF TypeOK, HandlerOrder, Candidates, Check
    <2>8. QED  BY <2>1, <2>2, <2>3, <2>4, <2>5, <2>6, <2>7, ClosingStep
  <1>11. ASSUME NEW c \in Callbacks, Set(c)
         PROVE  GateInv'
    <2>1. TypeOK'
      BY <1>t, <1>11 DEF TypeOK, Set, StoreDecision
    <2>2. InFlight' \in SUBSET InFlight
      BY <1>t, <1>11 DEF TypeOK, InFlight, Set, StoreDecision
    <2>3. OfferOrder'
      BY <1>t, <1>o, <1>h, <1>11 DEF TypeOK, OfferOrder, HandlerOrder, Set, StoreDecision
    <2>4. HandlerOrder'
      BY <1>t, <1>h, <1>e, <1>11 DEF TypeOK, HandlerOrder, ExecutionOrder, Set, StoreDecision
    <2>5. ExecutionOrder'
      BY <1>t, <1>h, <1>e, <1>11 DEF TypeOK, HandlerOrder, ExecutionOrder, Set, StoreDecision
    <2>6. LateOrder'
      BY <1>t, <1>h, <1>l, <1>11 DEF TypeOK, HandlerOrder, LateOrder, Set, StoreDecision
    <2>7. ASSUME NEW b \in Approvals PROVE Candidates(b)' \in SUBSET Candidates(b)
      BY <1>t, <1>h, <1>11 DEF TypeOK, HandlerOrder, Candidates, Set, StoreDecision
    <2>8. QED  BY <2>1, <2>2, <2>3, <2>4, <2>5, <2>6, <2>7, ClosingStep
  <1>12. ASSUME NEW c \in Callbacks, RedisFails(c)
         PROVE  GateInv'
    <2>1. TypeOK'
      BY <1>t, <1>12 DEF TypeOK, RedisFails, StoreDecision
    <2>2. InFlight' \in SUBSET InFlight
      BY <1>t, <1>12 DEF TypeOK, InFlight, RedisFails, StoreDecision
    <2>3. OfferOrder'
      BY <1>t, <1>o, <1>h, <1>12 DEF TypeOK, OfferOrder, HandlerOrder, RedisFails, StoreDecision
    <2>4. HandlerOrder'
      BY <1>t, <1>h, <1>e, <1>12 DEF TypeOK, HandlerOrder, ExecutionOrder, RedisFails, StoreDecision
    <2>5. ExecutionOrder'
      BY <1>t, <1>h, <1>e, <1>12 DEF TypeOK, HandlerOrder, ExecutionOrder, RedisFails, StoreDecision
    <2>6. LateOrder'
      BY <1>t, <1>h, <1>l, <1>12 DEF TypeOK, HandlerOrder, LateOrder, RedisFails, StoreDecision
    <2>7. ASSUME NEW b \in Approvals PROVE Candidates(b)' \in SUBSET Candidates(b)
      BY <1>t, <1>h, <1>12 DEF TypeOK, HandlerOrder, Candidates, RedisFails, StoreDecision
    <2>8. QED  BY <2>1, <2>2, <2>3, <2>4, <2>5, <2>6, <2>7, ClosingStep
  <1>13. ASSUME NEW c \in Callbacks,
                NEW result \in {"allowed", "executor_timeout", "error"}, Act(c, result)
         PROVE  GateInv'
    <2>1. TypeOK'
      BY <1>t, <1>13 DEF TypeOK, Act
    <2>2. InFlight' \in SUBSET InFlight
      BY <1>t, <1>13 DEF TypeOK, InFlight, Act
    <2>3. OfferOrder'
      BY <1>t, <1>o, <1>h, <1>13 DEF TypeOK, OfferOrder, HandlerOrder, Act
    <2>4. HandlerOrder'
      BY <1>t, <1>h, <1>e, <1>13 DEF TypeOK, HandlerOrder, ExecutionOrder, Act
    <2>5. ExecutionOrder'
      BY <1>t, <1>h, <1>e, <1>13 DEF TypeOK, HandlerOrder, ExecutionOrder, Act
    <2>6. LateOrder'
      BY <1>t, <1>h, <1>l, <1>13 DEF TypeOK, HandlerOrder, LateOrder, Act
    <2>7. ASSUME NEW b \in Approvals PROVE Candidates(b)' \in SUBSET Candidates(b)
      BY <1>t, <1>h, <1>13 DEF TypeOK, HandlerOrder, Candidates, Act
    <2>8. QED  BY <2>1, <2>2, <2>3, <2>4, <2>5, <2>6, <2>7, ClosingStep
  <1>14. ASSUME NEW c \in Callbacks, Audit(c)
         PROVE  GateInv'
    <2>1. TypeOK'
      BY <1>t, <1>14 DEF TypeOK, Audit
    <2>2. InFlight' \in SUBSET InFlight
      BY <1>t, <1>14 DEF TypeOK, InFlight, Audit
    <2>3. OfferOrder'
      BY <1>t, <1>o, <1>h, <1>14 DEF TypeOK, OfferOrder, HandlerOrder, Audit
    <2>4. HandlerOrder'
      BY <1>t, <1>h, <1>e, <1>14 DEF TypeOK, HandlerOrder, ExecutionOrder, Audit
    <2>5. ExecutionOrder'
      BY <1>t, <1>h, <1>e, <1>14 DEF TypeOK, HandlerOrder, ExecutionOrder, Audit
    <2>6. LateOrder'
      BY <1>t, <1>h, <1>l, <1>14 DEF TypeOK, HandlerOrder, LateOrder, Audit
    <2>7. ASSUME NEW b \in Approvals PROVE Candidates(b)' \in SUBSET Candidates(b)
      BY <1>t, <1>h, <1>14 DEF TypeOK, HandlerOrder, Candidates, Audit
    <2>8. QED  BY <2>1, <2>2, <2>3, <2>4, <2>5, <2>6, <2>7, ClosingStep
  <1>15. ASSUME NEW c \in Callbacks, AuditFails(c)
         PROVE  GateInv'
    <2>1. TypeOK'
      BY <1>t, <1>15 DEF TypeOK, AuditFails
    <2>2. InFlight' \in SUBSET InFlight
      BY <1>t, <1>15 DEF TypeOK, InFlight, AuditFails
    <2>3. OfferOrder'
      BY <1>t, <1>o, <1>h, <1>15 DEF TypeOK, OfferOrder, HandlerOrder, AuditFails
    <2>4. HandlerOrder'
      BY <1>t, <1>h, <1>e, <1>15 DEF TypeOK, HandlerOrder, ExecutionOrder, AuditFails
    <2>5. ExecutionOrder'
      BY <1>t, <1>h, <1>e, <1>15 DEF TypeOK, HandlerOrder, ExecutionOrder, AuditFails
    <2>6. LateOrder'
      BY <1>t, <1>h, <1>l, <1>15 DEF TypeOK, HandlerOrder, LateOrder, AuditFails
    <2>7. ASSUME NEW b \in Approvals PROVE Candidates(b)' \in SUBSET Candidates(b)
      BY <1>t, <1>h, <1>15 DEF TypeOK, HandlerOrder, Candidates, AuditFails
    <2>8. QED  BY <2>1, <2>2, <2>3, <2>4, <2>5, <2>6, <2>7, ClosingStep
  <1>16. ASSUME NEW c \in Callbacks, Publish(c)
         PROVE  GateInv'
    <2>1. TypeOK'
      BY <1>t, <1>16 DEF TypeOK, Publish
    <2>2. InFlight' \in SUBSET InFlight
      BY <1>t, <1>16 DEF TypeOK, InFlight, Publish
    <2>3. OfferOrder'
      BY <1>t, <1>o, <1>h, <1>16 DEF TypeOK, OfferOrder, HandlerOrder, Publish
    <2>4. HandlerOrder'
      BY <1>t, <1>h, <1>e, <1>16 DEF TypeOK, HandlerOrder, ExecutionOrder, Publish
    <2>5. ExecutionOrder'
      BY <1>t, <1>h, <1>e, <1>16 DEF TypeOK, HandlerOrder, ExecutionOrder, Publish
    <2>6. LateOrder'
      BY <1>t, <1>h, <1>l, <1>16 DEF TypeOK, HandlerOrder, LateOrder, Publish
    <2>7. ASSUME NEW b \in Approvals PROVE Candidates(b)' \in SUBSET Candidates(b)
      BY <1>t, <1>h, <1>16 DEF TypeOK, HandlerOrder, Candidates, Publish
    <2>8. QED  BY <2>1, <2>2, <2>3, <2>4, <2>5, <2>6, <2>7, ClosingStep
  <1>17. CASE Crash
    <2>1. TypeOK'
      BY <1>t, <1>17 DEF TypeOK, Crash
    <2>2. InFlight' \in SUBSET InFlight
      BY <1>t, <1>17 DEF TypeOK, InFlight, Crash
    <2>3. OfferOrder'
      BY <1>t, <1>o, <1>h, <1>17 DEF TypeOK, OfferOrder, HandlerOrder, Crash
    <2>4. HandlerOrder'
      <3>1. \A c \in Callbacks :
               \/ pc'[c] = pc[c]
               \/ pc'[c] = "dead" /\ pc[c] \in Active
        BY <1>17 DEF Crash, InFlight
      <3>2. /\ UNCHANGED <<status, offered, target, seen, label, row, executions, pushed>>
            /\ Issued \in SUBSET Issued'
        BY <1>17 DEF Crash
      <3>3. QED
        BY <3>1, <3>2, <1>h DEF HandlerOrder
    <2>5. ExecutionOrder'
      BY <1>t, <1>h, <1>e, <1>17 DEF TypeOK, HandlerOrder, ExecutionOrder, Crash
    <2>6. LateOrder'
      BY <1>t, <1>h, <1>l, <1>17 DEF TypeOK, HandlerOrder, LateOrder, Crash
    <2>7. ASSUME NEW b \in Approvals PROVE Candidates(b)' \in SUBSET Candidates(b)
      BY <1>t, <1>h, <1>17 DEF TypeOK, HandlerOrder, Candidates, Crash
    <2>8. QED  BY <2>1, <2>2, <2>3, <2>4, <2>5, <2>6, <2>7, ClosingStep
  <1>18. CASE Tick
    <2>1. TypeOK'
      BY <1>t, <1>18 DEF TypeOK, Tick
    <2>2. OfferOrder'
      BY <1>o, <1>18 DEF OfferOrder, Tick
    <2>3. UNCHANGED <<handler, effects, call, status>>
      BY <1>18 DEF Tick
    <2>4. QED  BY <2>1, <2>2, <2>3, AgentSide
  <1>19. QED
    BY <1>1, <1>2, <1>3, <1>4, <1>5, <1>6, <1>7, <1>8, <1>9, <1>10, <1>11, <1>12,
       <1>13, <1>14, <1>15, <1>16, <1>17, <1>18
       DEF Next, AgentStep, HandlerStep

LEMMA SpecInv == Spec => []GateInv
  BY InitInv, StepInv, PTL DEF Spec

\* The state of the gate is always well-typed.
THEOREM GateTypeCorrect == Spec => []TypeOK
  <1>1. GateInv => TypeOK
    BY DEF GateInv
  <1>2. QED  BY <1>1, SpecInv, PTL

\* An approved call is executed at most as often as callbacks may overlap.
THEOREM GateExecutionBound == Spec => []ExecutionBound
  <1>1. ASSUME GateInv PROVE ExecutionBound
    <2>1. SUFFICES ASSUME NEW a \in Approvals
                   PROVE  Cardinality(executions[a]) <= MaxInFlight
      BY DEF ExecutionBound
    <2>2. executions[a] \in SUBSET Candidates(a) /\ Candidates(a) \in SUBSET Callbacks
      BY <1>1 DEF GateInv, TypeOK, Candidates
    <2>3. QED
      BY <1>1, <2>2, SubsetCard, GateAssumption DEF GateInv, GateAssumption
  <1>2. QED  BY <1>1, SpecInv, PTL

\* A callback that arrives after the decision never acts on it.
THEOREM GateRefusesLate == Spec => []LateCallbackRefused
  <1>1. GateInv => LateCallbackRefused
    BY DEF GateInv, LateOrder, LateCallbackRefused
  <1>2. QED  BY <1>1, SpecInv, PTL

\* What is answered 200 or pushed is in the audit log, under the right label.
THEOREM GateAnswersAudited == Spec => []AnsweredAudited
  <1>1. GateInv => AnsweredAudited
    BY DEF GateInv, HandlerOrder, AnsweredAudited
  <1>2. QED  BY <1>1, SpecInv, PTL

\* A body signed outside the approval's life, give or take the tolerance, decides
\* nothing and runs nothing.  Fresh when it came in, it can only be one that came
\* in after the expiry; the clock does not go back, so the check that follows the
\* GET refuses it.
THEOREM GateSignedForLifetime == Spec => []SignedForLifetime
  <1> USE GateAssumption DEF GateAssumption, Active
  <1>1. Init => StampOrder
    BY DEF Init, StampOrder, SignedForLifetime
  <1>2. ASSUME GateInv, StampOrder, [Next]_vars
        PROVE  StampOrder'
    <2>t. TypeOK BY <1>2 DEF GateInv
    <2>h. HandlerOrder BY <1>2 DEF GateInv
    <2>e. ExecutionOrder BY <1>2 DEF GateInv
    <2>o. OfferOrder BY <1>2 DEF GateInv
    <2>1. ASSUME NEW a \in Approvals, RequestApproval(a)
          PROVE  StampOrder'
      BY <1>2, <2>t, <2>1 DEF StampOrder, SignedForLifetime, TypeOK, RequestApproval
    <2>2. ASSUME UNCHANGED <<expires_at, handler, executions, foreign>>,
                 clock' \in Nat, clock' >= clock,
                 offered \in SUBSET offered', Issued \in SUBSET Issued',
                 \A a \in Approvals : call'[a] # "idle" => call[a] # "idle"
          PROVE  StampOrder'
      BY <1>2, <2>t, <2>2 DEF StampOrder, SignedForLifetime, TypeOK
    <2>3. ASSUME NEW a \in Approvals, AgentStep(a)
          PROVE  StampOrder'
      BY <2>2, <2>3, <2>t DEF AgentStep, CreatePending, CreateFails, Notify, AuditPending,
                              AuditPendingFails, TypeOK
    <2>4. ASSUME NEW c \in Callbacks, Arrive(c)
          PROVE  StampOrder'
      <3>1. PICK a \in Approvals, d \in {"approve", "deny"}, g \in BOOLEAN,
                 w \in BOOLEAN, s \in 0..(MaxTime + ReplayTolerance) : Receive(c, a, d, g, s, w)
        BY <2>4 DEF Arrive
      <3>2. /\ pc[c] = "idle" /\ c \notin foreign
            /\ \A b \in Approvals : c \notin executions[b]
        BY <1>2, <2>e, <3>1 DEF StampOrder, ExecutionOrder, Receive
      <3>3. /\ UNCHANGED <<clock, expires_at, call, offered, executions>>
            /\ \A e \in Callbacks \ {c} : pc'[e] = pc[e] /\ target'[e] = target[e]
            /\ pc'[c] \in {"get", "400", "401"}
        BY <2>t, <3>1 DEF Receive, TypeOK
      <3>4. pc'[c] = "get" => offered # {}
        BY <2>t, <3>1 DEF Receive, TypeOK, VerifySignature
      <3>5. CASE foreign' = foreign
        BY <1>2, <2>t, <3>2, <3>3, <3>4, <3>5 DEF StampOrder, SignedForLifetime, TypeOK
      <3>6. CASE foreign' # foreign
        <4>1. /\ VerifySignature(g, s) /\ ~ SignedInLife(a, s)
              /\ foreign' = foreign \cup {c} /\ target'[c] = a /\ a \in Issued
              /\ pc'[c] = "get"
          BY <2>t, <3>1, <3>6 DEF Receive, TypeOK
        <4>2. expires_at[a] <= clock + TTL /\ clock \in Nat /\ expires_at[a] \in Nat
          BY <1>2, <2>t, <4>1 DEF StampOrder, TypeOK
        <4>3. expires_at[a] < clock
          BY <4>1, <4>2 DEF VerifySignature, SignedInLife
        <4>4. QED
          BY <1>2, <2>t, <3>2, <3>3, <3>4, <4>1, <4>3
             DEF StampOrder, SignedForLifetime, TypeOK
      <3>7. QED  BY <3>5, <3>6
    <2>5. ASSUME NEW c \in Callbacks, Check(c)
          PROVE  StampOrder'
      BY <1>2, <2>t, <2>5 DEF StampOrder, SignedForLifetime, TypeOK, Check
    <2>6. ASSUME NEW c \in Callbacks,
                 \/ Get(c) \/ Set(c) \/ RedisFails(c) \/ Audit(c) \/ AuditFails(c) \/ Publish(c)
          PROVE  StampOrder'
      BY <1>2, <2>t, <2>6 DEF StampOrder, SignedForLifetime, TypeOK, Get, Set, RedisFails,
                              Audit, AuditFails, Publish
    <2>7. ASSUME NEW c \in Callbacks,
                 NEW result \in {"allowed", "executor_timeout", "error"}, Act(c, result)
          PROVE  StampOrder'
      BY <1>2, <2>t, <2>h, <2>7 DEF StampOrder, SignedForLifetime, TypeOK, HandlerOrder, Act
    <2>8. CASE Crash
      <3>1. /\ UNCHANGED <<clock, expires_at, offered, target, executions, foreign>>
            /\ \A c \in Callbacks : pc'[c] = pc[c] \/ pc'[c] = "dead"
            /\ \A a \in Approvals :
                  call'[a] = call[a] \/ (call'[a] = "dead" /\ call[a] \in CallActive)
        BY <2>8 DEF Crash
      <3>2. QED
        BY <1>2, <2>t, <3>1 DEF StampOrder, SignedForLifetime, TypeOK, CallActive
    <2>9. CASE Tick
      BY <2>2, <2>9, <2>t DEF Tick, TypeOK
    <2>10. CASE UNCHANGED vars
      BY <2>2, <2>10, <2>t DEF vars, TypeOK
    <2>11. QED
      BY <1>2, <2>1, <2>3, <2>4, <2>5, <2>6, <2>7, <2>8, <2>9, <2>10
         DEF Next, HandlerStep
  <1>3. StampOrder => SignedForLifetime
    BY DEF StampOrder
  <1>4. QED  BY <1>1, <1>2, <1>3, SpecInv, PTL DEF Spec

\* A record that Redis will never drop holds a decision: a pending call always
\* expires, even when the key comes back under a handler.
THEOREM GateImmortalIsDecided == Spec => []ImmortalIsDecided
  <1> USE GateAssumption DEF GateAssumption
  <1>1. Init => ImmortalIsDecided
    BY DEF Init, ImmortalIsDecided, NoTTL
  <1>2. ASSUME GateInv, ImmortalIsDecided, [Next]_vars
        PROVE  ImmortalIsDecided'
    <2>t. TypeOK BY <1>2 DEF GateInv
    <2>h. HandlerOrder BY <1>2 DEF GateInv
    <2>1. ASSUME UNCHANGED <<status, ttl>> PROVE ImmortalIsDecided'
      BY <1>2, <2>1 DEF ImmortalIsDecided, Decided
    <2>2. ASSUME NEW a \in Approvals, StorePending(a) PROVE ImmortalIsDecided'
      BY <1>2, <2>t, <2>2 DEF ImmortalIsDecided, Decided, StorePending, TypeOK, NoTTL
    <2>3. ASSUME NEW c \in Callbacks, pc[c] = "set", StoreDecision(c)
          PROVE  ImmortalIsDecided'
      <3>1. target[c] \in Approvals
        BY <2>h, <2>t, <2>3 DEF HandlerOrder, TypeOK, Active
      <3>2. QED
        BY <1>2, <2>t, <2>3, <3>1 DEF ImmortalIsDecided, Decided, StoreDecision, TypeOK
    <2>4. ASSUME NEW a \in Approvals, RequestApproval(a) \/ AgentStep(a)
          PROVE  ImmortalIsDecided'
      <3>1. CASE CreatePending(a) \/ CreateFails(a)
        BY <2>1, <2>2, <3>1 DEF CreatePending, CreateFails
      <3>2. CASE RequestApproval(a) \/ Notify(a) \/ AuditPending(a) \/ AuditPendingFails(a)
        BY <2>1, <3>2 DEF RequestApproval, Notify, AuditPending, AuditPendingFails, record
      <3>3. QED  BY <2>4, <3>1, <3>2 DEF AgentStep
    <2>5. ASSUME NEW c \in Callbacks, Arrive(c) \/ HandlerStep(c)
          PROVE  ImmortalIsDecided'
      <3>1. CASE Set(c) \/ RedisFails(c)
        BY <2>1, <2>3, <3>1 DEF Set, RedisFails
      <3>2. CASE \/ Arrive(c) \/ Get(c) \/ Check(c) \/ Audit(c) \/ AuditFails(c) \/ Publish(c)
                \/ \E result \in {"allowed", "executor_timeout", "error"} : Act(c, result)
        <4>1. UNCHANGED <<status, ttl>>
          BY <3>2 DEF Arrive, Receive, Get, Check, Audit, AuditFails, Publish, Act, record
        <4>2. QED  BY <2>1, <4>1
      <3>3. QED  BY <2>5, <3>1, <3>2 DEF HandlerStep
    <2>6. CASE Crash \/ Tick \/ UNCHANGED vars
      BY <2>1, <2>6 DEF Crash, Tick, vars, record
    <2>7. QED  BY <1>2, <2>4, <2>5, <2>6 DEF Next
  <1>3. QED  BY <1>1, <1>2, SpecInv, PTL DEF Spec

-----------------------------------------------------------------------------
(***************************************************************************)
(* Callbacks that do not overlap.                                          *)
(***************************************************************************)

LEMMA OneInFlight ==
    ASSUME GateInv, MaxInFlight = 1, NEW c \in Callbacks, NEW d \in Callbacks,
           pc[c] \in Active, pc[d] \in Active
    PROVE  c = d
  <1> SUFFICES ASSUME c # d PROVE FALSE
    OBVIOUS
  <1>1. {c} \cup {d} \in SUBSET InFlight /\ InFlight \in SUBSET Callbacks
    BY DEF InFlight
  <1>2. IsFiniteSet({c}) /\ Cardinality({c}) = 1
    BY FS_Singleton
  <1>3. Cardinality({c} \cup {d}) = Cardinality({c}) + 1
    BY <1>2, FS_AddElement
  <1>4. /\ Cardinality(InFlight) \in Nat
        /\ Cardinality({c} \cup {d}) <= Cardinality(InFlight)
    BY <1>1, SubsetCard
  <1>5. Cardinality(InFlight) <= 1
    BY DEF GateInv
  <1>6. QED  BY <1>2, <1>3, <1>4, <1>5

LEMMA SerialInit == Init => SerialInv
  BY DEF Init, SerialInv

\* Only the actions of callbacks can disturb SerialInv, and creation, which
\* concerns an approval no callback has heard of.
LEMMA SerialStep ==
    ASSUME MaxInFlight = 1, GateInv, SerialInv, [Next]_vars
    PROVE  SerialInv'
  <1> USE GateAssumption DEF GateAssumption, NoTTL
  <1>t. TypeOK BY DEF GateInv
  <1>o. OfferOrder BY DEF GateInv
  <1>h. HandlerOrder BY DEF GateInv
  <1>e. ExecutionOrder BY DEF GateInv
  <1>1. ASSUME UNCHANGED <<status, pc, target, decision, seen, executions>>
        PROVE  SerialInv'
    BY <1>1 DEF SerialInv
  <1>2. ASSUME NEW a \in Approvals, CreatePending(a) \/ CreateFails(a)
        PROVE  SerialInv'
    <2>1. UNCHANGED <<pc, target, decision, seen, executions>>
      BY <1>2 DEF CreatePending, CreateFails
    <2>2. /\ status[a] = "absent"
          /\ a \notin Issued
          /\ \A b \in Approvals \ {a} : status'[b] = status[b]
      BY <1>t, <1>o, <1>2 DEF CreatePending, CreateFails, StorePending, OfferOrder, TypeOK
    <2>3. executions[a] = {}
      BY <1>t, <1>e, <2>2 DEF ExecutionOrder, TypeOK, Decided
    <2>4. \A c \in Callbacks : pc[c] \in Active => target[c] \in Approvals \ {a}
      BY <1>t, <1>h, <2>2 DEF HandlerOrder, TypeOK
    <2>5. QED
      BY <2>1, <2>2, <2>3, <2>4 DEF SerialInv, Active
  <1>3. ASSUME NEW c \in Callbacks, Arrive(c)
        PROVE  SerialInv'
    <2>1. PICK a \in Approvals, d \in {"approve", "deny"}, g \in BOOLEAN,
               w \in BOOLEAN, s \in 0..(MaxTime + ReplayTolerance) : Receive(c, a, d, g, s, w)
      BY <1>3 DEF Arrive
    <2>2. QED
      BY <1>t, <2>1 DEF TypeOK, Receive, SerialInv
  <1>4. ASSUME NEW c \in Callbacks, Get(c)
        PROVE  SerialInv'
    BY <1>t, <1>4 DEF TypeOK, Get, SerialInv
  <1>5. ASSUME NEW c \in Callbacks, Check(c)
        PROVE  SerialInv'
    BY <1>t, <1>5 DEF TypeOK, Check, SerialInv
  <1>6. ASSUME NEW c \in Callbacks, pc[c] = "set", StoreDecision(c),
               UNCHANGED <<target, decision, seen, executions>>,
               pc' \in {[pc EXCEPT ![c] = "act"], [pc EXCEPT ![c] = "500"]}
        PROVE  SerialInv'
    <2>1. \A d \in Callbacks \ {c} : pc[d] \notin Active /\ pc'[d] = pc[d]
      BY <1>t, <1>6, OneInFlight DEF TypeOK, Active
    <2>2. target[c] \in Approvals /\ status[target[c]] = "pending"
      BY <1>t, <1>h, <1>6 DEF TypeOK, HandlerOrder, SerialInv, Active
    <2>3. executions[target[c]] = {}
      BY <1>t, <1>e, <2>2 DEF TypeOK, ExecutionOrder, Decided
    <2>4. /\ \A b \in Approvals \ {target[c]} : status'[b] = status[b]
          /\ decision[c] = "approve" => status'[target[c]] = "approved"
      BY <1>t, <1>6, <2>2 DEF TypeOK, StoreDecision
    <2>5. pc'[c] \in {"act", "500"}
      BY <1>t, <1>6 DEF TypeOK
    <2>6. QED
      BY <1>6, <2>1, <2>2, <2>3, <2>4, <2>5 DEF SerialInv, Active
  <1>7. ASSUME NEW c \in Callbacks, Set(c)
        PROVE  SerialInv'
    BY <1>6, <1>7 DEF Set
  <1>8. ASSUME NEW c \in Callbacks, RedisFails(c)
        PROVE  SerialInv'
    <2>1. CASE UNCHANGED <<status, ttl>>
      BY <1>t, <1>8, <2>1 DEF TypeOK, RedisFails, SerialInv
    <2>2. CASE pc[c] = "set" /\ StoreDecision(c)
      BY <1>6, <1>8, <2>2 DEF RedisFails
    <2>3. QED  BY <1>8, <2>1, <2>2 DEF RedisFails
  <1>9. ASSUME NEW c \in Callbacks,
               NEW result \in {"allowed", "executor_timeout", "error"}, Act(c, result)
        PROVE  SerialInv'
    <2>1. \A d \in Callbacks \ {c} : pc[d] \notin Active /\ pc'[d] = pc[d]
      BY <1>t, <1>9, OneInFlight DEF TypeOK, Active, Act
    <2>2. target[c] \in Approvals /\ executions[target[c]] = {}
      BY <1>t, <1>h, <1>9 DEF TypeOK, HandlerOrder, SerialInv, Act
    <2>3. pc'[c] = "audit" /\ UNCHANGED <<status, target, decision, seen>>
      BY <1>t, <1>9 DEF TypeOK, Act
    <2>4. Cardinality({c}) = 1
      BY FS_Singleton
    <2>5. CASE decision[c] = "deny"
      BY <1>9, <2>1, <2>3, <2>5 DEF SerialInv, Act, Active
    <2>6. CASE decision[c] = "approve"
      <3>1. status[target[c]] = "approved"
        BY <1>9, <2>6 DEF SerialInv, Act
      <3>2. /\ executions'[target[c]] = {c}
            /\ \A b \in Approvals \ {target[c]} : executions'[b] = executions[b]
        BY <1>t, <1>9, <2>2, <2>6 DEF TypeOK, Act
      <3>3. \A d \in Callbacks : pc'[d] \notin {"set", "check", "act"}
        BY <2>1, <2>3 DEF Active
      <3>4. ASSUME NEW b \in Approvals, executions'[b] # {}
            PROVE  status'[b] = "approved" /\ Cardinality(executions'[b]) = 1
        <4>1. CASE b = target[c]
          BY <2>3, <2>4, <3>1, <3>2, <4>1
        <4>2. CASE b # target[c]
          <5>1. executions'[b] = executions[b]
            BY <3>2, <4>2
          <5>2. QED  BY <2>3, <3>4, <5>1 DEF SerialInv
        <4>3. QED  BY <4>1, <4>2
      <3>5. QED  BY <3>3, <3>4 DEF SerialInv
    <2>7. QED  BY <1>t, <2>5, <2>6 DEF TypeOK
  <1>10. ASSUME NEW c \in Callbacks, Audit(c) \/ AuditFails(c) \/ Publish(c)
         PROVE  SerialInv'
    BY <1>t, <1>10 DEF TypeOK, Audit, AuditFails, Publish, SerialInv
  <1>11. CASE Crash
    <2>1. \A c \in Callbacks : pc'[c] = pc[c] \/ pc'[c] = "dead"
      BY <1>11 DEF Crash
    <2>2. UNCHANGED <<status, target, decision, seen, executions>>
      BY <1>11 DEF Crash
    <2>3. QED  BY <2>1, <2>2 DEF SerialInv
  <1>12. ASSUME NEW a \in Approvals,
                \/ RequestApproval(a) \/ Notify(a)
                \/ AuditPending(a) \/ AuditPendingFails(a)
         PROVE  SerialInv'
    <2>1. UNCHANGED <<status, pc, target, decision, seen, executions>>
      BY <1>12 DEF RequestApproval, Notify, AuditPending, AuditPendingFails
    <2>2. QED  BY <1>1, <2>1
  <1>13. CASE Tick \/ UNCHANGED vars
    <2>1. UNCHANGED <<status, pc, target, decision, seen, executions>>
      BY <1>13 DEF Tick, vars
    <2>2. QED  BY <1>1, <2>1
  <1>14. QED
    BY <1>2, <1>3, <1>4, <1>5, <1>7, <1>8, <1>9, <1>10, <1>11, <1>12, <1>13
       DEF Next, AgentStep, HandlerStep

LEMMA SerialSpecInv ==
    ASSUME MaxInFlight = 1
    PROVE  Spec => [](GateInv /\ SerialInv)
  <1>1. GateInv /\ SerialInv /\ [Next]_vars => GateInv' /\ SerialInv'
    BY StepInv, SerialStep
  <1>2. QED  BY <1>1, InitInv, SerialInit, PTL DEF Spec

\* While callbacks do not overlap, a denied call never reaches the executor.
THEOREM SerialDeniedNeverExecutes ==
    ASSUME MaxInFlight = 1
    PROVE  Spec => []DeniedNeverExecutes
  <1>1. SerialInv => DeniedNeverExecutes
    BY DEF SerialInv, DeniedNeverExecutes
  <1>2. QED  BY <1>1, SerialSpecInv, PTL

\* While callbacks do not overlap, one approval is executed at most once, whatever
\* Slack redelivers: the general bound, for one callback in flight.
THEOREM SerialAtMostOneExecution ==
    ASSUME MaxInFlight = 1
    PROVE  Spec => []AtMostOneExecution
  <1>1. ExecutionBound => AtMostOneExecution
    BY DEF ExecutionBound, AtMostOneExecution
  <1>2. QED  BY <1>1, GateExecutionBound, PTL

\* No decision is overwritten: a record is created when there is none and decided
\* while it is pending.
LEMMA DecisionKept ==
    ASSUME MaxInFlight = 1, GateInv, SerialInv, [Next]_vars,
           NEW a \in Approvals, Decided(a)
    PROVE  status'[a] = status[a]
  <1>t. TypeOK /\ OfferOrder /\ HandlerOrder BY DEF GateInv
  <1>1. ASSUME NEW b \in Approvals, CreatePending(b) \/ CreateFails(b)
        PROVE  status'[a] = status[a]
    <2>1. a # b
      BY <1>t, <1>1 DEF CreatePending, CreateFails, OfferOrder, Decided
    <2>2. QED
      BY <1>t, <1>1, <2>1 DEF CreatePending, CreateFails, StorePending, TypeOK
  <1>2. ASSUME NEW c \in Callbacks, Set(c) \/ RedisFails(c)
        PROVE  status'[a] = status[a]
    <2>1. pc[c] = "set" => status[target[c]] = "pending" /\ target[c] \in Approvals
      BY <1>t DEF SerialInv, HandlerOrder, TypeOK, Active
    <2>2. QED
      BY <1>t, <1>2, <2>1 DEF Set, RedisFails, StoreDecision, TypeOK, Decided
  <1>3. QED
    BY <1>1, <1>2 DEF Next, vars, record, AgentStep, HandlerStep, RequestApproval, Notify,
           AuditPending, AuditPendingFails, Arrive, Receive, Get, Check, Act, Audit,
           AuditFails, Publish, Crash, Tick

\* A callback becomes a decider by its SET, which found the approval undecided.
LEMMA OutcomeStep ==
    ASSUME MaxInFlight = 1, GateInv, SerialInv, OutcomeInv, [Next]_vars
    PROVE  OutcomeInv'
  <1>t. TypeOK /\ HandlerOrder BY DEF GateInv
  <1>d. \A c \in Deciders : target[c] \in Approvals /\ Decided(target[c])
    BY <1>t DEF HandlerOrder, Deciders
  <1>s. \A c \in Deciders : status'[target[c]] = status[target[c]]
    BY <1>d, DecisionKept
  <1>1. ASSUME UNCHANGED <<target, decision, label>>,
               \A c \in Callbacks : \/ pc'[c] = pc[c]
                                    \/ pc'[c] \notin {"act", "audit", "publish", "200"}
                                    \/ c \in Deciders /\ pc[c] # "act"
        PROVE  OutcomeInv'
    BY <1>1, <1>s DEF OutcomeInv, Deciders
  <1>2. ASSUME NEW c \in Callbacks, Arrive(c)
        PROVE  OutcomeInv'
    <2>1. PICK a \in Approvals, d \in {"approve", "deny"}, g \in BOOLEAN,
               w \in BOOLEAN, s \in 0..(MaxTime + ReplayTolerance) : Receive(c, a, d, g, s, w)
      BY <1>2 DEF Arrive
    <2>2. Deciders' = Deciders /\ c \notin Deciders
      BY <1>t, <2>1 DEF TypeOK, Receive, Deciders
    <2>3. \A d2 \in Deciders : /\ target'[d2] = target[d2] /\ decision'[d2] = decision[d2]
                               /\ label'[d2] = label[d2] /\ pc'[d2] = pc[d2]
      BY <1>t, <2>1, <2>2 DEF TypeOK, Receive, Deciders
    <2>4. QED  BY <1>s, <2>2, <2>3 DEF OutcomeInv
  <1>3. ASSUME NEW c \in Callbacks, Get(c) \/ Check(c) \/ RedisFails(c)
        PROVE  OutcomeInv'
    <2>1. pc'[c] \notin {"act", "audit", "publish", "200"}
      BY <1>t, <1>3 DEF TypeOK, Get, Check, RedisFails
    <2>2. QED  BY <1>1, <1>3, <1>t, <2>1 DEF TypeOK, Get, Check, RedisFails
  <1>4. ASSUME NEW c \in Callbacks, Set(c)
        PROVE  OutcomeInv'
    <2>1. /\ target[c] \in Approvals /\ status[target[c]] = "pending"
          /\ c \notin Deciders
      BY <1>t, <1>4 DEF TypeOK, HandlerOrder, SerialInv, Set, Deciders, Active
    <2>2. /\ Deciders' = Deciders \cup {c} /\ pc'[c] = "act"
          /\ \A d \in Deciders : pc'[d] = pc[d]
          /\ UNCHANGED <<target, decision, label>>
      BY <1>t, <1>4, <2>1 DEF TypeOK, Set, Deciders
    <2>3. \A d \in Deciders : target[d] # target[c]
      BY <1>d, <2>1 DEF Decided
    <2>4. decision[c] = "deny" <=> status'[target[c]] = "denied"
      BY <1>t, <1>4, <2>1 DEF TypeOK, Set, StoreDecision
    <2>5. QED  BY <1>s, <2>2, <2>3, <2>4 DEF OutcomeInv
  <1>5. ASSUME NEW c \in Callbacks,
               NEW result \in {"allowed", "executor_timeout", "error"}, Act(c, result)
        PROVE  OutcomeInv'
    <2>1. /\ Deciders' = Deciders /\ UNCHANGED <<target, decision>>
          /\ label'[c] = "approval_denied" <=> decision[c] = "deny"
          /\ \A d \in Deciders : d # c => pc'[d] = pc[d] /\ label'[d] = label[d]
      BY <1>t, <1>5 DEF TypeOK, Act, Deciders
    <2>2. QED  BY <1>s, <2>1 DEF OutcomeInv
  <1>6. ASSUME NEW c \in Callbacks, Audit(c) \/ AuditFails(c) \/ Publish(c)
        PROVE  OutcomeInv'
    <2>1. UNCHANGED <<target, decision, label>> /\ c \in Deciders /\ pc[c] # "act"
      BY <1>6 DEF Audit, AuditFails, Publish, Deciders
    <2>2. \A d \in Callbacks : d # c => pc'[d] = pc[d]
      BY <1>t, <1>6 DEF TypeOK, Audit, AuditFails, Publish
    <2>3. QED  BY <1>1, <2>1, <2>2
  <1>7. CASE Crash
    BY <1>1, <1>7 DEF Crash
  <1>8. ASSUME NEW a \in Approvals, RequestApproval(a) \/ AgentStep(a)
        PROVE  OutcomeInv'
    BY <1>1, <1>8 DEF AgentStep, RequestApproval, CreatePending, CreateFails, Notify,
                      AuditPending, AuditPendingFails, handler
  <1>9. CASE Tick \/ UNCHANGED vars
    BY <1>1, <1>9 DEF Tick, vars, handler
  <1>10. QED
    BY <1>2, <1>3, <1>4, <1>5, <1>6, <1>7, <1>8, <1>9 DEF Next, HandlerStep

\* While callbacks do not overlap, the agent is told one outcome per approval, and
\* of a denial just when the record shows one, whatever is redelivered, expires or
\* fails.
THEOREM SerialOneOutcomePushed ==
    ASSUME MaxInFlight = 1
    PROVE  Spec => []OneOutcomePushed
  <1>1. Init => OutcomeInv
    BY DEF Init, OutcomeInv, Deciders
  <1>2. GateInv /\ SerialInv /\ OutcomeInv /\ [Next]_vars => OutcomeInv'
    BY OutcomeStep
  <1>3. GateInv /\ OutcomeInv => OneOutcomePushed
    BY DEF GateInv, TypeOK, HandlerOrder, OutcomeInv, Deciders, OneOutcomePushed
  <1>4. QED  BY <1>1, <1>2, <1>3, SerialSpecInv, PTL DEF Spec

\* While callbacks do not overlap, the gate implements the atomic one: each
\* step of the handlers is a step of AtomicGate or changes nothing it sees.
THEOREM SerialImplementsAtomic ==
    ASSUME MaxInFlight = 1
    PROVE  Spec => ImplementsAtomicGate
  <1> DEFINE R == [a \in Approvals |-> Cardinality(executions[a])]
  <1>1. Init => Atomic!Init
    <2>1. Cardinality({}) = 0
      BY FS_EmptySet
    <2>2. QED  BY <2>1 DEF Init, Atomic!Init
  <1>2. ASSUME GateInv, SerialInv, [Next]_vars
        PROVE  [Atomic!Next]_(Atomic!gate)
    <2> USE GateAssumption DEF GateAssumption
    <2>t. TypeOK BY <1>2 DEF GateInv
    <2>o. OfferOrder BY <1>2 DEF GateInv
    <2>h. HandlerOrder BY <1>2 DEF GateInv
    <2>e. ExecutionOrder BY <1>2 DEF GateInv
    <2>1. ASSUME UNCHANGED <<status, executions>>
          PROVE  UNCHANGED Atomic!gate
      BY <2>1 DEF Atomic!gate
    <2>2. ASSUME NEW a \in Approvals, CreatePending(a) \/ CreateFails(a)
          PROVE  [Atomic!Next]_(Atomic!gate)
      <3>1. executions' = executions /\ status[a] = "absent"
        BY <2>o, <2>2 DEF CreatePending, CreateFails, OfferOrder
      <3>2. CASE StorePending(a)
        <4>1. Atomic!Open(a)
          BY <3>1, <3>2 DEF Atomic!Open, StorePending
        <4>2. QED  BY <4>1 DEF Atomic!Next
      <3>3. CASE UNCHANGED <<status, ttl>>
        BY <2>1, <3>1, <3>3
      <3>4. QED  BY <2>2, <3>2, <3>3 DEF CreatePending, CreateFails
    <2>3. ASSUME NEW c \in Callbacks, pc[c] = "set", StoreDecision(c),
                 UNCHANGED executions
          PROVE  [Atomic!Next]_(Atomic!gate)
      <3>1. target[c] \in Approvals /\ status[target[c]] = "pending"
        BY <1>2, <2>t, <2>h, <2>3 DEF TypeOK, HandlerOrder, SerialInv, Active
      <3>2. Atomic!Decide(target[c])
        BY <2>3, <3>1 DEF Atomic!Decide, StoreDecision
      <3>3. QED  BY <3>1, <3>2 DEF Atomic!Next
    <2>4. ASSUME NEW c \in Callbacks, Set(c) \/ RedisFails(c)
          PROVE  [Atomic!Next]_(Atomic!gate)
      <3>1. CASE pc[c] = "set" /\ StoreDecision(c)
        BY <2>3, <2>4, <3>1 DEF Set, RedisFails
      <3>2. CASE UNCHANGED <<status, ttl>>
        BY <2>1, <2>4, <3>2 DEF Set, RedisFails
      <3>3. QED  BY <2>4, <3>1, <3>2 DEF Set, RedisFails
    <2>5. ASSUME NEW c \in Callbacks,
                 NEW result \in {"allowed", "executor_timeout", "error"}, Act(c, result)
          PROVE  [Atomic!Next]_(Atomic!gate)
      <3>1. CASE decision[c] = "deny"
        BY <2>1, <2>5, <3>1 DEF Act
      <3>2. CASE decision[c] = "approve"
        <4>1. /\ target[c] \in Approvals
              /\ executions[target[c]] = {}
              /\ status[target[c]] = "approved"
              /\ UNCHANGED status
          BY <1>2, <2>t, <2>h, <2>5, <3>2 DEF TypeOK, HandlerOrder, SerialInv, Act
        <4>2. Cardinality({}) = 0 /\ Cardinality({c}) = 1
          BY FS_EmptySet, FS_Singleton
        <4>3. executions' = [executions EXCEPT ![target[c]] = {c}]
          BY <2>t, <2>5, <3>2, <4>1 DEF TypeOK, Act
        <4>4. R[target[c]] = 0 /\ R' = [R EXCEPT ![target[c]] = 1]
          BY <2>t, <4>1, <4>2, <4>3 DEF TypeOK
        <4>5. Atomic!Run(target[c])
          BY <4>1, <4>4 DEF Atomic!Run
        <4>6. QED  BY <4>1, <4>5 DEF Atomic!Next
      <3>3. QED  BY <2>t, <3>1, <3>2 DEF TypeOK
    <2>6. ASSUME NEW c \in Callbacks,
                 \/ Arrive(c) \/ Get(c) \/ Check(c)
                 \/ Audit(c) \/ AuditFails(c) \/ Publish(c)
          PROVE  [Atomic!Next]_(Atomic!gate)
      <3>1. UNCHANGED <<status, executions>>
        BY <2>6 DEF Arrive, Receive, Get, Check, Audit, AuditFails, Publish
      <3>2. QED  BY <2>1, <3>1
    <2>7. ASSUME NEW a \in Approvals,
                 \/ RequestApproval(a) \/ Notify(a)
                 \/ AuditPending(a) \/ AuditPendingFails(a)
          PROVE  [Atomic!Next]_(Atomic!gate)
      <3>1. UNCHANGED <<status, executions>>
        BY <2>7 DEF RequestApproval, Notify, AuditPending, AuditPendingFails
      <3>2. QED  BY <2>1, <3>1
    <2>8. CASE Crash \/ Tick \/ UNCHANGED vars
      <3>1. UNCHANGED <<status, executions>>
        BY <2>8 DEF Crash, Tick, vars
      <3>2. QED  BY <2>1, <3>1
    <2>9. QED
      BY <1>2, <2>2, <2>4, <2>5, <2>6, <2>7, <2>8 DEF Next, AgentStep, HandlerStep
  <1>3. QED
    BY <1>1, <1>2, SerialSpecInv, PTL DEF Spec, ImplementsAtomicGate, Atomic!Spec

=============================================================================
