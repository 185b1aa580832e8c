---------------------------- MODULE SseHubProofs ----------------------------
(***************************************************************************)
(* For every number of processes, agents, connections and events: the hub  *)
(* knows exactly the open connections, and each of them gets exactly what  *)
(* was published to its agent.                                             *)
(***************************************************************************)
EXTENDS SseHub, SequenceTheorems, TLAPS

\* What the steps of a connection do to received \o held \o queue.
LEMMA TakingKeepsOrder ==
    ASSUME NEW r \in Seq(Events), NEW q \in Seq(Events), q # <<>>
    PROVE  /\ Head(q) \in Events /\ Tail(q) \in Seq(Events) /\ <<Head(q)>> \in Seq(Events)
           /\ r \o <<Head(q)>> \o Tail(q) = r \o <<>> \o q
  <1>1. Head(q) \in Events /\ Tail(q) \in Seq(Events)
    BY HeadTailProperties
  <1>2. <<Head(q)>> \in Seq(Events)
    BY <1>1
  <1>3. <<Head(q)>> \o Tail(q) = q
    BY <1>1, <1>2
  <1>4. r \o <<Head(q)>> \o Tail(q) = r \o (<<Head(q)>> \o Tail(q))
    BY <1>1, <1>2, ConcatAssociative
  <1>5. r \o <<>> \o q = r \o q
    BY ConcatEmptySeq
  <1>6. QED  BY <1>1, <1>2, <1>3, <1>4, <1>5

LEMMA SendingKeepsOrder ==
    ASSUME NEW r \in Seq(Events), NEW h \in Seq(Events), NEW q \in Seq(Events)
    PROVE  r \o h \in Seq(Events) /\ (r \o h) \o <<>> \o q = r \o h \o q
  <1>1. r \o h \in Seq(Events)
    BY ConcatProperties
  <1>2. QED  BY <1>1, ConcatEmptySeq

LEMMA PublishingKeepsOrder ==
    ASSUME NEW r \in Seq(Events), NEW h \in Seq(Events), NEW q \in Seq(Events), NEW e \in Events
    PROVE  Append(q, e) \in Seq(Events) /\ r \o h \o Append(q, e) = Append(r \o h \o q, e)
  <1>1. Append(q, e) = q \o <<e>> /\ Append(q, e) \in Seq(Events)
    BY AppendIsConcat, AppendProperties
  <1>2. r \o h \in Seq(Events) /\ r \o h \o q \in Seq(Events) /\ <<e>> \in Seq(Events)
    BY ConcatProperties
  <1>3. (r \o h) \o (q \o <<e>>) = ((r \o h) \o q) \o <<e>>
    BY <1>2, ConcatAssociative
  <1>4. Append(r \o h \o q, e) = (r \o h \o q) \o <<e>>
    BY <1>2, AppendIsConcat
  <1>5. QED  BY <1>1, <1>3, <1>4

-----------------------------------------------------------------------------
LEMMA InitHub == Init => HubInv
  <1> SUFFICES ASSUME Init PROVE HubInv
    OBVIOUS
  <1>1. TypeOK
    BY DEF Init, TypeOK, NoSubscribers
  <1>2. SubscribersExact
    BY DEF Init, SubscribersExact, NoSubscribers, Queues, IsOpen, Open
  <1>3. EventsOnceInOrder
    BY DEF Init, EventsOnceInOrder, IsOpen, Open
  <1>4. QED  BY <1>1, <1>2, <1>3 DEF Init, HubInv, HeldOrder

\* While nobody opens or closes, the hub stays exact.
LEMMA OpenKept ==
    ASSUME SubscribersExact, UNCHANGED <<subscribers, place, owner>>,
           \A k \in Conns : IsOpen(k)' <=> IsOpen(k)
    PROVE  SubscribersExact'
  BY DEF SubscribersExact, Queues

LEMMA RegisterStep ==
    ASSUME HubInv, NEW k \in Conns, Subscribe(k)
    PROVE  SubscribersExact'
  <1> DEFINE p == place[k]
             g == owner[k]
  <1>t. TypeOK /\ SubscribersExact /\ p \in Processes /\ g \in Agents
    BY DEF HubInv, TypeOK
  <1>1. /\ UNCHANGED <<place, owner>>
        /\ ~ IsOpen(k) /\ IsOpen(k)'
        /\ \A j \in Conns : j # k => (IsOpen(j)' <=> IsOpen(j))
    BY <1>t DEF Subscribe, IsOpen, Open, TypeOK
  <1>2. /\ DOMAIN subscribers' = Processes
        /\ subscribers'[p] = [h \in DOMAIN subscribers[p] \cup {g} |->
                                 Queues(p, h) \cup IF h = g THEN {k} ELSE {}]
        /\ \A q \in Processes : q # p => subscribers'[q] = subscribers[q]
    BY <1>t DEF Subscribe, Register, TypeOK
  <1> SUFFICES ASSUME NEW q \in Processes
               PROVE  /\ \A h \in DOMAIN subscribers'[q] : subscribers'[q][h] # {}
                      /\ \A h \in Agents : Queues(q, h)' =
                            {j \in Conns : IsOpen(j)' /\ place'[j] = q /\ owner'[j] = h}
    BY DEF SubscribersExact
  <1>3. CASE q # p
    BY <1>t, <1>1, <1>2, <1>3 DEF SubscribersExact, Queues
  <1>4. CASE q = p
    <2>1. \A h \in Agents : Queues(p, h)' = Queues(p, h) \cup IF h = g THEN {k} ELSE {}
      BY <1>1, <1>2 DEF Queues
    <2>2. \A h \in Agents : Queues(p, h) =
             {j \in Conns : IsOpen(j) /\ place[j] = p /\ owner[j] = h}
      BY <1>t DEF SubscribersExact
    <2>3. \A h \in DOMAIN subscribers'[p] : subscribers'[p][h] # {}
      <3>1. \A h \in DOMAIN subscribers[p] : Queues(p, h) # {}
        BY <1>t DEF SubscribersExact, Queues
      <3>2. QED  BY <1>2, <3>1
    <2>4. QED  BY <1>4, <1>1, <2>1, <2>2, <2>3
  <1>5. QED  BY <1>3, <1>4

LEMMA RemoveStep ==
    ASSUME HubInv, NEW k \in Conns, IsOpen(k), Unsubscribe(k)
    PROVE  SubscribersExact'
  <1> DEFINE p == place[k]
             g == owner[k]
             left == [subscribers[p] EXCEPT ![g] = @ \ {k}]
             kept == {h \in DOMAIN left : left[h] # {}}
  <1>t. TypeOK /\ SubscribersExact /\ p \in Processes /\ g \in Agents
    BY DEF HubInv, TypeOK
  <1>1. /\ UNCHANGED <<place, owner>>
        /\ ~ IsOpen(k)'
        /\ \A j \in Conns : j # k => (IsOpen(j)' <=> IsOpen(j))
    BY <1>t DEF Unsubscribe, IsOpen, Open, TypeOK
  <1>2. /\ DOMAIN subscribers' = Processes
        /\ subscribers'[p] = [h \in kept |-> left[h]]
        /\ \A q \in Processes : q # p => subscribers'[q] = subscribers[q]
    BY <1>t DEF Unsubscribe, Remove, TypeOK
  <1>3. k \in Queues(p, g)
    BY <1>t DEF SubscribersExact
  <1>4. g \in DOMAIN subscribers[p]
    BY <1>3 DEF Queues
  <1> SUFFICES ASSUME NEW q \in Processes
               PROVE  /\ \A h \in DOMAIN subscribers'[q] : subscribers'[q][h] # {}
                      /\ \A h \in Agents : Queues(q, h)' =
                            {j \in Conns : IsOpen(j)' /\ place'[j] = q /\ owner'[j] = h}
    BY DEF SubscribersExact
  <1>5. CASE q # p
    BY <1>t, <1>1, <1>2, <1>5 DEF SubscribersExact, Queues
  <1>6. CASE q = p
    <2>1. \A h \in DOMAIN subscribers'[p] : subscribers'[p][h] # {}
      BY <1>2
    <2>2. \A h \in Agents : Queues(p, h)' = Queues(p, h) \ IF h = g THEN {k} ELSE {}
      BY <1>1, <1>2, <1>4 DEF Queues
    <2>3. \A h \in Agents : Queues(p, h) =
             {j \in Conns : IsOpen(j) /\ place[j] = p /\ owner[j] = h}
      BY <1>t DEF SubscribersExact
    <2>4. QED  BY <1>1, <1>6, <2>1, <2>2, <2>3
  <1>7. QED  BY <1>5, <1>6

\* The hub after a step is exact: only Subscribe, Unsubscribe and Crash touch it.
LEMMA ExactStep ==
    ASSUME HubInv, [Next]_vars
    PROVE  SubscribersExact'
  <1>t. TypeOK /\ SubscribersExact
    BY DEF HubInv
  <1>1. ASSUME NEW k \in Conns, UNCHANGED <<subscribers, place, owner>>, ~ IsOpen(k),
               \E l \in {"accepted", "closed"} : cpc' = [cpc EXCEPT ![k] = l]
        PROVE  SubscribersExact'
    <2>1. \A j \in Conns : IsOpen(j)' <=> IsOpen(j)
      BY <1>t, <1>1 DEF IsOpen, Open, TypeOK
    <2>2. QED  BY <1>t, <1>1, <2>1, OpenKept
  <1>2. ASSUME NEW k \in Conns, IsOpen(k), Unsubscribe(k)
        PROVE  SubscribersExact'
    BY <1>2, RemoveStep
  <1>3. ASSUME NEW k \in Conns, ConnStep(k)
        PROVE  SubscribersExact'
    <2>1. \/ IsOpen(k) /\ Unsubscribe(k)
          \/ Subscribe(k)
          \/ /\ UNCHANGED <<subscribers, place, owner>> /\ ~ IsOpen(k)
             /\ cpc' = [cpc EXCEPT ![k] = "closed"]
          \/ /\ UNCHANGED <<subscribers, place, owner>> /\ IsOpen(k)
             /\ \E l \in Open : cpc' = [cpc EXCEPT ![k] = l]
      BY <1>3 DEF ConnStep, NextEvent, Wake, TakeHead, Heartbeat, Send, Cancel, IsOpen, Open
    <2>2. CASE UNCHANGED <<subscribers, place, owner>> /\ IsOpen(k)
                /\ \E l \in Open : cpc' = [cpc EXCEPT ![k] = l]
      <3>1. \A j \in Conns : IsOpen(j)' <=> IsOpen(j)
        BY <1>t, <2>2 DEF IsOpen, TypeOK
      <3>2. QED  BY <1>t, <2>2, <3>1, OpenKept
    <2>3. QED  BY <1>1, <1>2, <2>1, <2>2, RegisterStep
  <1>4. ASSUME UNCHANGED <<subscribers, cpc, place, owner>>
        PROVE  SubscribersExact'
    BY <1>t, <1>4, OpenKept DEF IsOpen
  <1>5. ASSUME NEW p \in Processes, Crash(p)
        PROVE  SubscribersExact'
    <2>1. /\ UNCHANGED <<place, owner>>
          /\ \A k \in Conns : IsOpen(k)' <=> IsOpen(k) /\ place[k] # p
      BY <1>t, <1>5 DEF Crash, IsOpen, Open, TypeOK
    <2>2. /\ subscribers'[p] = NoSubscribers
          /\ \A q \in Processes : q # p => subscribers'[q] = subscribers[q]
      BY <1>t, <1>5 DEF Crash, TypeOK
    <2>3. QED  BY <1>t, <2>1, <2>2 DEF SubscribersExact, Queues, NoSubscribers
  <1>6. QED
    BY <1>1, <1>3, <1>4, <1>5
       DEF Next, vars, conn, Connect, Disconnect, Publish, IsOpen, Open

\* Every variable keeps its type.
LEMMA HubTypeStep ==
    ASSUME HubInv, [Next]_vars
    PROVE  TypeOK'
  <1>t. TypeOK /\ SubscribersExact
    BY DEF HubInv
  <1>0. ASSUME NEW k \in Conns, Connect(k)
        PROVE  TypeOK'
    BY <1>t, <1>0 DEF Connect, TypeOK
  <1>1. ASSUME NEW k \in Conns, Subscribe(k)
        PROVE  TypeOK'
    BY <1>t, <1>1 DEF Subscribe, Register, Queues, TypeOK, Open
  <1>2. ASSUME NEW k \in Conns, IsOpen(k), Unsubscribe(k)
        PROVE  TypeOK'
    <2>1. owner[k] \in DOMAIN subscribers[place[k]]
      BY <1>t, <1>2 DEF SubscribersExact, Queues, TypeOK
    <2>2. /\ DOMAIN subscribers' = Processes
          /\ \A p \in Processes :
                /\ DOMAIN subscribers'[p] \subseteq Agents
                /\ \A g \in DOMAIN subscribers'[p] : subscribers'[p][g] \subseteq Conns
      BY <1>t, <1>2, <2>1 DEF Unsubscribe, Remove, TypeOK
    <2>3. QED  BY <1>t, <1>2, <2>2 DEF Unsubscribe, TypeOK
  <1>3. ASSUME NEW k \in Conns, queue[k] # <<>>, TakeHead(k)
        PROVE  TypeOK'
    <2>1. Tail(queue[k]) \in Seq(Events) /\ <<Head(queue[k])>> \in Seq(Events)
      BY <1>t, <1>3, HeadTailProperties DEF TypeOK
    <2>2. QED  BY <1>t, <1>3, <2>1 DEF TakeHead, TypeOK, Open
  <1>4. ASSUME NEW k \in Conns, Send(k)
        PROVE  TypeOK'
    <2>1. received[k] \o held[k] \in Seq(Events)
      BY <1>t, ConcatProperties DEF TypeOK
    <2>2. QED  BY <1>t, <1>4, <2>1 DEF Send, TypeOK, Open
  <1>5. ASSUME NEW k \in Conns, ConnStep(k)
        PROVE  TypeOK'
    <2>1. ASSUME UNCHANGED <<subscribers, queue, place, owner, held, client, received,
                             published, due>>,
                 \E l \in Open \cup {"closed"} : cpc' = [cpc EXCEPT ![k] = l]
          PROVE  TypeOK'
      BY <1>t, <2>1 DEF TypeOK
    <2>2. QED
      BY <1>1, <1>2, <1>3, <1>4, <1>5, <2>1
         DEF ConnStep, NextEvent, Wake, Heartbeat, Cancel, IsOpen, Open
  <1>6. ASSUME NEW k \in Conns, Disconnect(k)
        PROVE  TypeOK'
    BY <1>t, <1>6 DEF Disconnect, TypeOK
  <1>7. ASSUME NEW p \in Processes, NEW g \in Agents, NEW e \in Events, Publish(p, g, e)
        PROVE  TypeOK'
    <2>1. \A q \in Seq(Events) : Append(q, e) \in Seq(Events)
      BY AppendProperties
    <2>2. queue' \in [Conns -> Seq(Events)] /\ due' \in [Conns -> Seq(Events)]
      BY <1>t, <1>7, <2>1 DEF Publish, TypeOK
    <2>3. QED  BY <1>t, <1>7, <2>2 DEF Publish, conn, TypeOK
  <1>8. ASSUME NEW p \in Processes, Crash(p)
        PROVE  TypeOK'
    BY <1>t, <1>8 DEF Crash, NoSubscribers, TypeOK, Open
  <1>9. CASE UNCHANGED vars
    BY <1>t, <1>9 DEF vars, conn, TypeOK
  <1>10. QED  BY <1>0, <1>5, <1>6, <1>7, <1>8, <1>9 DEF Next

\* Received, held and queued stay what is due: one step per action, for one
\* connection at a time.
LEMMA OrderStep ==
    ASSUME HubInv, [Next]_vars
    PROVE  EventsOnceInOrder' /\ HeldOrder'
  <1>t. TypeOK /\ SubscribersExact /\ EventsOnceInOrder /\ HeldOrder
    BY DEF HubInv
  <1> SUFFICES ASSUME NEW k \in Conns
               PROVE  /\ IsOpen(k)' /\ client'[k] =>
                             received'[k] \o held'[k] \o queue'[k] = due'[k]
                      /\ cpc'[k] \in {"idle", "accepted"} =>
                             /\ received'[k] = <<>> /\ held'[k] = <<>>
                             /\ queue'[k] = <<>> /\ due'[k] = <<>>
                      /\ cpc'[k] \in {"check", "wait"} => held'[k] = <<>>
    BY DEF EventsOnceInOrder, HeldOrder
  <1> DEFINE Kept == /\ received'[k] = received[k] /\ held'[k] = held[k]
                     /\ queue'[k] = queue[k] /\ due'[k] = due[k]
                     /\ cpc'[k] = cpc[k] /\ client'[k] = client[k]
             Safe == /\ IsOpen(k)' /\ client'[k] =>
                             received'[k] \o held'[k] \o queue'[k] = due'[k]
                     /\ cpc'[k] \in {"idle", "accepted"} =>
                             /\ received'[k] = <<>> /\ held'[k] = <<>>
                             /\ queue'[k] = <<>> /\ due'[k] = <<>>
                     /\ cpc'[k] \in {"check", "wait"} => held'[k] = <<>>
  <1>k. Kept => Safe
    BY <1>t DEF EventsOnceInOrder, HeldOrder, IsOpen
  <1>s. /\ queue[k] \in Seq(Events) /\ held[k] \in Seq(Events)
        /\ received[k] \in Seq(Events) /\ due[k] \in Seq(Events)
    BY <1>t DEF TypeOK
  <1>0. ASSUME NEW j \in Conns, UNCHANGED <<queue, held, received, due>>,
               \/ Connect(j)
               \/ /\ cpc[j] = "accepted" /\ cpc' = [cpc EXCEPT ![j] = "closed"]
                  /\ UNCHANGED client
        PROVE  Safe
    <2>1. CASE j # k
      BY <1>0, <1>k, <1>t, <2>1 DEF Connect, TypeOK
    <2>2. CASE j = k
      BY <1>0, <1>t, <2>2 DEF Connect, TypeOK, HeldOrder, IsOpen, Open
    <2>3. QED  BY <2>1, <2>2
  <1>1. ASSUME NEW j \in Conns, Subscribe(j)
        PROVE  Safe
    <2>1. CASE j # k
      BY <1>1, <1>k, <1>t, <2>1 DEF Subscribe, TypeOK
    <2>2. CASE j = k
      <3>1. /\ received'[k] = <<>> /\ held'[k] = <<>> /\ queue'[k] = <<>>
            /\ due'[k] = <<>> /\ cpc'[k] = "check"
        BY <1>1, <1>t, <2>2 DEF Subscribe, TypeOK, HeldOrder
      <3>2. QED  BY <3>1
    <2>3. QED  BY <2>1, <2>2
  <1>2. ASSUME NEW j \in Conns, IsOpen(j), Unsubscribe(j)
        PROVE  Safe
    <2>1. CASE j # k
      BY <1>2, <1>k, <1>t, <2>1 DEF Unsubscribe, TypeOK
    <2>2. CASE j = k
      BY <1>2, <1>t, <2>2 DEF Unsubscribe, TypeOK, IsOpen, Open
    <2>3. QED  BY <2>1, <2>2
  <1>3. ASSUME NEW j \in Conns, cpc[j] \in {"check", "wait"}, queue[j] # <<>>, TakeHead(j)
        PROVE  Safe
    <2>1. CASE j # k
      BY <1>3, <1>k, <1>t, <2>1 DEF TakeHead, TypeOK
    <2>2. CASE j = k
      <3>1. /\ held'[k] = <<Head(queue[k])>> /\ queue'[k] = Tail(queue[k])
            /\ received'[k] = received[k] /\ due'[k] = due[k]
            /\ cpc'[k] = "send" /\ client'[k] = client[k]
        BY <1>3, <1>t, <2>2 DEF TakeHead, TypeOK
      <3>2. held[k] = <<>> /\ IsOpen(k)
        BY <1>3, <1>t, <2>2 DEF HeldOrder, IsOpen, Open
      <3>3. received[k] \o <<Head(queue[k])>> \o Tail(queue[k]) = received[k] \o held[k] \o queue[k]
        <4>1. received[k] \o <<Head(queue[k])>> \o Tail(queue[k]) = received[k] \o <<>> \o queue[k]
          BY <1>3, <1>s, <2>2, TakingKeepsOrder
        <4>2. QED  BY <3>2, <4>1
      <3>4. QED  BY <1>t, <3>1, <3>2, <3>3 DEF EventsOnceInOrder
    <2>3. QED  BY <2>1, <2>2
  <1>4. ASSUME NEW j \in Conns, Send(j)
        PROVE  Safe
    <2>1. CASE j # k
      BY <1>4, <1>k, <1>t, <2>1 DEF Send, TypeOK
    <2>2. CASE j = k
      <3>1. /\ received'[k] = IF client[k] THEN received[k] \o held[k] ELSE received[k]
            /\ held'[k] = <<>> /\ queue'[k] = queue[k] /\ due'[k] = due[k]
            /\ cpc'[k] = "check" /\ client'[k] = client[k] /\ IsOpen(k)
        BY <1>4, <1>t, <2>2 DEF Send, TypeOK, IsOpen, Open
      <3>2. client[k] => (received[k] \o held[k]) \o <<>> \o queue[k] = due[k]
        <4>1. (received[k] \o held[k]) \o <<>> \o queue[k] = received[k] \o held[k] \o queue[k]
          BY <1>s, SendingKeepsOrder
        <4>2. client[k] => received[k] \o held[k] \o queue[k] = due[k]
          BY <1>t, <3>1 DEF EventsOnceInOrder
        <4>3. QED  BY <4>1, <4>2
      <3>3. QED  BY <3>1, <3>2
    <2>3. QED  BY <2>1, <2>2
  <1>5. ASSUME NEW j \in Conns, cpc[j] \in {"check", "wait"},
               cpc' = [cpc EXCEPT ![j] = "wait"] \/ cpc' = [cpc EXCEPT ![j] = "send"],
               UNCHANGED <<queue, held, client, received, due>>
        PROVE  Safe
    BY <1>5, <1>t DEF EventsOnceInOrder, HeldOrder, IsOpen, Open, TypeOK
  <1>6. ASSUME NEW j \in Conns, Disconnect(j)
        PROVE  Safe
    BY <1>6, <1>t DEF Disconnect, EventsOnceInOrder, HeldOrder, IsOpen, Open, TypeOK
  <1>7. ASSUME NEW p \in Processes, NEW g \in Agents, NEW e \in Events, Publish(p, g, e)
        PROVE  Safe
    <2>1. k \in Queues(p, g) <=> IsOpen(k) /\ place[k] = p /\ owner[k] = g
      BY <1>t DEF SubscribersExact
    <2>2. /\ received'[k] = received[k] /\ held'[k] = held[k]
          /\ cpc'[k] = cpc[k] /\ client'[k] = client[k]
      BY <1>7 DEF Publish, conn
    <2>3. CASE k \notin Queues(p, g)
      BY <1>7, <1>k, <2>1, <2>2, <2>3 DEF Publish
    <2>4. CASE k \in Queues(p, g)
      <3>1. queue'[k] = Append(queue[k], e) /\ due'[k] = Append(due[k], e)
        BY <1>7, <2>1, <2>4 DEF Publish
      <3>2. client[k] => received[k] \o held[k] \o Append(queue[k], e) = Append(due[k], e)
        <4>1. received[k] \o held[k] \o Append(queue[k], e) = Append(received[k] \o held[k] \o queue[k], e)
          BY <1>s, PublishingKeepsOrder
        <4>2. client[k] => received[k] \o held[k] \o queue[k] = due[k]
          BY <1>t, <2>1, <2>4 DEF EventsOnceInOrder
        <4>3. QED  BY <4>1, <4>2
      <3>3. cpc[k] \notin {"idle", "accepted"} /\ (cpc[k] \in {"check", "wait"} => held[k] = <<>>)
        BY <1>t, <2>1, <2>4 DEF HeldOrder, IsOpen, Open
      <3>4. QED  BY <2>2, <3>1, <3>2, <3>3
    <2>5. QED  BY <2>3, <2>4
  <1>8. ASSUME NEW p \in Processes, Crash(p)
        PROVE  Safe
    <2>1. CASE place[k] # p
      BY <1>8, <1>k, <1>t, <2>1 DEF Crash, TypeOK
    <2>2. CASE place[k] = p
      BY <1>8, <1>t, <2>2 DEF Crash, TypeOK, HeldOrder, IsOpen, Open
    <2>3. QED  BY <2>1, <2>2
  <1>9. CASE UNCHANGED vars
    BY <1>9, <1>k DEF vars, conn
  <1>10. ASSUME NEW j \in Conns, ConnStep(j)
         PROVE  Safe
    BY <1>0, <1>1, <1>2, <1>3, <1>4, <1>5, <1>10
       DEF ConnStep, NextEvent, Wake, Heartbeat, Cancel, IsOpen, Open
  <1>11. QED  BY <1>0, <1>6, <1>7, <1>8, <1>9, <1>10 DEF Next, Connect

LEMMA HubSpecInv == Spec => []HubInv
  <1>1. HubInv /\ [Next]_vars => HubInv'
    BY HubTypeStep, ExactStep, OrderStep DEF HubInv
  <1>2. QED  BY <1>1, InitHub, PTL DEF Spec

-----------------------------------------------------------------------------
\* The hub of every process holds the queues of its open connections and no
\* others, under their own agents: GET /mcp/sse leaks nothing, however
\* connections, cancellations and crashes interleave.
THEOREM HubSubscribersExact == Spec => []SubscribersExact
  <1>1. HubInv => SubscribersExact
    BY DEF HubInv
  <1>2. QED  BY <1>1, HubSpecInv, PTL

\* What sse_hub.publish puts on a queue reaches the agent once and in order, or
\* is still on its way, from the registration of the queue on and as long as the
\* agent stays connected.
THEOREM HubEventsOnceInOrder == Spec => []EventsOnceInOrder
  <1>1. HubInv => EventsOnceInOrder
    BY DEF HubInv
  <1>2. QED  BY <1>1, HubSpecInv, PTL

=============================================================================
