------------------------------- MODULE SseHub -------------------------------
(***************************************************************************)
(* The in-process publish/subscribe of app/sse_hub.py and the generator of *)
(* GET /mcp/sse (app/main.py) that reads from it.                          *)
(*                                                                         *)
(* Every gateway process has a hub of its own.  A connection is one GET    *)
(* /mcp/sse and has one queue, so the connection stands for the queue.  A  *)
(* step runs from one await that suspends to the next: put on an unbounded *)
(* queue never does, nor does get on one that holds something.             *)
(***************************************************************************)
EXTENDS Naturals, Sequences, FiniteSets

CONSTANTS
    Processes,  \* gateway processes
    Agents,     \* agent ids
    Conns,      \* GET /mcp/sse requests
    Events      \* what is published, each event once

VARIABLES
    subscribers, \* _subscribers of each process: agent_id -> its queues
    queue,       \* the queue of each connection
    cpc,         \* where its generator is
    place,       \* the process that serves it
    owner,       \* the agent that authenticated
    held,        \* what it is about to yield: <<event>>, <<>> for a heartbeat
    client,      \* whether the agent is still at the other end
    received,    \* history: the events that reached the agent, in order
    published,   \* the events published so far
    due          \* history: those published to its agent, on its process, since
                 \* its queue was registered

conn == <<cpc, place, owner, held, client, received>>
vars == <<subscribers, queue, conn, published, due>>

\* The generator runs, so its queue is registered.  Before that the connection is
\* "accepted": the response has started, the generator has not.
Open == {"check", "wait", "send"}

IsOpen(k) == cpc[k] \in Open

TypeOK ==
    /\ DOMAIN subscribers = Processes
    /\ \A p \in Processes :
          /\ DOMAIN subscribers[p] \subseteq Agents
          /\ \A g \in DOMAIN subscribers[p] : subscribers[p][g] \subseteq Conns
    /\ queue \in [Conns -> Seq(Events)]
    /\ cpc \in [Conns -> Open \cup {"idle", "accepted", "closed"}]
    /\ place \in [Conns -> Processes]
    /\ owner \in [Conns -> Agents]
    /\ held \in [Conns -> Seq(Events)]
    /\ client \in [Conns -> BOOLEAN]
    /\ received \in [Conns -> Seq(Events)]
    /\ published \subseteq Events
    /\ due \in [Conns -> Seq(Events)]

NoSubscribers == [g \in {} |-> {}]

Init ==
    /\ subscribers = [p \in Processes |-> NoSubscribers]
    /\ queue = [k \in Conns |-> <<>>]
    /\ cpc = [k \in Conns |-> "idle"]
    /\ place \in [Conns -> Processes]
    /\ owner \in [Conns -> Agents]
    /\ held = [k \in Conns |-> <<>>]
    /\ client = [k \in Conns |-> FALSE]
    /\ received = [k \in Conns |-> <<>>]
    /\ published = {}
    /\ due = [k \in Conns |-> <<>>]

-----------------------------------------------------------------------------
\* _subscribers.get(agent_id, [])
Queues(p, g) == IF g \in DOMAIN subscribers[p] THEN subscribers[p][g] ELSE {}

\* setdefault(agent_id, []).append(queue)
Register(p, g, k) ==
    subscribers' = [subscribers EXCEPT ![p] =
        [h \in DOMAIN @ \cup {g} |-> Queues(p, h) \cup IF h = g THEN {k} ELSE {}]]

\* Seeded bug: the agent's entry goes with the first of its connections.
RemoveAll(p, g, k) ==
    subscribers' = [subscribers EXCEPT ![p] = [h \in DOMAIN @ \ {g} |-> @[h]]]

\* The finally block: remove the queue, and the entry once it is empty.
Remove(p, g, k) ==
    LET left == [subscribers[p] EXCEPT ![g] = @ \ {k}]
        kept == {h \in DOMAIN left : left[h] # {}}
    IN  subscribers' = [subscribers EXCEPT ![p] = [h \in kept |-> left[h]]]

\* GET /mcp/sse: EventSourceResponse sends the status and the headers first.
Connect(k) ==
    /\ cpc[k] = "idle"
    /\ cpc' = [cpc EXCEPT ![k] = "accepted"]
    /\ client' = [client EXCEPT ![k] = TRUE]
    /\ UNCHANGED <<subscribers, queue, place, owner, held, received, published, due>>

\* The generator starts, with an empty queue of its own.  What was published since
\* the agent saw its connection accepted is not for this queue.
Subscribe(k) ==
    /\ cpc[k] = "accepted"
    /\ Register(place[k], owner[k], k)
    /\ cpc' = [cpc EXCEPT ![k] = "check"]
    /\ UNCHANGED <<queue, place, owner, held, client, received, published, due>>

\* Seeded bug: the generator is left only once its queue is drained.
UnsubscribeDrained(k) ==
    /\ queue[k] = <<>>
    /\ Remove(place[k], owner[k], k)
    /\ cpc' = [cpc EXCEPT ![k] = "closed"]
    /\ held' = [held EXCEPT ![k] = <<>>]
    /\ UNCHANGED <<queue, place, owner, client, received, published, due>>

\* Leaving the generator, whether by its loop or by cancellation.
Unsubscribe(k) ==
    /\ Remove(place[k], owner[k], k)
    /\ cpc' = [cpc EXCEPT ![k] = "closed"]
    /\ queue' = [queue EXCEPT ![k] = <<>>]
    /\ held' = [held EXCEPT ![k] = <<>>]
    /\ UNCHANGED <<place, owner, client, received, published, due>>

TakeHead(k) ==
    /\ held' = [held EXCEPT ![k] = <<Head(queue[k])>>]
    /\ queue' = [queue EXCEPT ![k] = Tail(@)]
    /\ cpc' = [cpc EXCEPT ![k] = "send"]
    /\ UNCHANGED <<subscribers, place, owner, client, received, published, due>>

\* Seeded bug: a time-out of zero, so that every turn ends in a heartbeat.
NextEventImpatient(k) ==
    /\ cpc[k] = "check"
    /\ \/ ~ client[k] /\ Unsubscribe(k)
       \/ /\ client[k]
          /\ cpc' = [cpc EXCEPT ![k] = "send"]
          /\ UNCHANGED <<subscribers, queue, place, owner, held, client, received,
                         published, due>>

\* The loop's test.  A client that is there is served the head of the queue at
\* once; for an empty queue the generator waits.
NextEvent(k) ==
    /\ cpc[k] = "check"
    /\ \/ ~ client[k] /\ Unsubscribe(k)
       \/ client[k] /\ queue[k] # <<>> /\ TakeHead(k)
       \/ /\ client[k] /\ queue[k] = <<>>
          /\ cpc' = [cpc EXCEPT ![k] = "wait"]
          /\ UNCHANGED <<subscribers, queue, place, owner, held, client, received, published, due>>

Wake(k) == cpc[k] = "wait" /\ queue[k] # <<>> /\ TakeHead(k)

\* Seeded bug: the time-out drops what was put on the queue meanwhile.
HeartbeatDrops(k) ==
    /\ cpc[k] = "wait"
    /\ cpc' = [cpc EXCEPT ![k] = "send"]
    /\ queue' = [queue EXCEPT ![k] = <<>>]
    /\ UNCHANGED <<subscribers, place, owner, held, client, received, published, due>>

\* Five seconds without an event: a heartbeat.  An event put just before the
\* get is cancelled stays on the queue.
Heartbeat(k) ==
    /\ cpc[k] = "wait"
    /\ cpc' = [cpc EXCEPT ![k] = "send"]
    /\ UNCHANGED <<subscribers, queue, place, owner, held, client, received, published, due>>

\* The yield: what is sent to a client that has gone is lost.
Send(k) ==
    /\ cpc[k] = "send"
    /\ received' = [received EXCEPT ![k] = IF client[k] THEN @ \o held[k] ELSE @]
    /\ held' = [held EXCEPT ![k] = <<>>]
    /\ cpc' = [cpc EXCEPT ![k] = "check"]
    /\ UNCHANGED <<subscribers, queue, place, owner, client, published, due>>

\* EventSourceResponse notices the disconnection and cancels the generator, which
\* has nothing to give up if it has not started.
Cancel(k) ==
    /\ ~ client[k]
    /\ \/ IsOpen(k) /\ Unsubscribe(k)
       \/ /\ cpc[k] = "accepted"
          /\ cpc' = [cpc EXCEPT ![k] = "closed"]
          /\ UNCHANGED <<subscribers, queue, place, owner, held, client, received,
                         published, due>>

\* The agent goes away.
Disconnect(k) ==
    /\ cpc[k] = "accepted" \/ IsOpen(k)
    /\ client[k]
    /\ client' = [client EXCEPT ![k] = FALSE]
    /\ UNCHANGED <<subscribers, queue, cpc, place, owner, held, received, published, due>>

\* publish on process p, at the end of a decide_approval there: every queue of
\* the agent, in one step.
Publish(p, g, e) ==
    /\ e \notin published
    /\ published' = published \cup {e}
    /\ queue' = [k \in Conns |-> IF k \in Queues(p, g) THEN Append(queue[k], e) ELSE queue[k]]
    /\ due' = [k \in Conns |-> IF IsOpen(k) /\ place[k] = p /\ owner[k] = g
                               THEN Append(due[k], e) ELSE due[k]]
    /\ UNCHANGED <<subscribers, conn>>

\* The process dies, and with it its hub and its connections.
Crash(p) ==
    /\ subscribers' = [subscribers EXCEPT ![p] = NoSubscribers]
    /\ cpc' = [k \in Conns |-> IF place[k] = p /\ cpc[k] # "idle" THEN "closed" ELSE cpc[k]]
    /\ client' = [k \in Conns |-> client[k] /\ place[k] # p]
    /\ queue' = [k \in Conns |-> IF place[k] = p THEN <<>> ELSE queue[k]]
    /\ held' = [k \in Conns |-> IF place[k] = p THEN <<>> ELSE held[k]]
    /\ UNCHANGED <<place, owner, received, published, due>>

\* What the gateway does with a connection by itself.
ConnStep(k) ==
    Subscribe(k) \/ NextEvent(k) \/ Wake(k) \/ Heartbeat(k) \/ Send(k) \/ Cancel(k)

Next ==
    \/ \E k \in Conns : Connect(k) \/ ConnStep(k) \/ Disconnect(k)
    \/ \E p \in Processes, g \in Agents, e \in Events : Publish(p, g, e)
    \/ \E p \in Processes : Crash(p)

Spec == Init /\ [][Next]_vars

\* asyncio resumes a generator whose await is over, and a get that is not
\* answered times out.  An agent may leave at any time, but one that stays reads:
\* the yield waits for a full socket.  Nothing is assumed of publishers or crashes.
FairSpec == Spec /\ \A k \in Conns : WF_vars(ConnStep(k))

-----------------------------------------------------------------------------
\* The hub knows the open connections and no others, each under its own agent,
\* and no agent without one: nothing leaks when connections come and go, and
\* the removal in the finally block never misses its entry.
SubscribersExact ==
    \A p \in Processes :
        /\ \A g \in DOMAIN subscribers[p] : subscribers[p][g] # {}
        /\ \A g \in Agents : Queues(p, g) = {k \in Conns : IsOpen(k) /\ place[k] = p /\ owner[k] = g}

\* While the agent stays, what it has received, what is on its way and what is
\* queued are exactly the events published to it on its process since its queue
\* was registered: none lost, doubled, reordered or meant for another agent, with
\* heartbeats, time-outs and other connections in between.
EventsOnceInOrder ==
    \A k \in Conns : IsOpen(k) /\ client[k] =>
        received[k] \o held[k] \o queue[k] = due[k]

\* An event on its way to an agent that reads reaches it, unless the connection
\* ends: no run of heartbeats and time-outs keeps it on the queue for ever.
EventDelivered ==
    \A k \in Conns : due[k] # <<>> ~> received[k] = due[k] \/ ~ client[k]

\* The queue of an agent that went away is given up.
QueueReclaimed ==
    \A k \in Conns : IsOpen(k) /\ ~ client[k] ~> cpc[k] = "closed"

\* The inductive invariant behind the first two: a connection that has not
\* started has seen nothing, and a generator holds an event only between taking
\* it off the queue and yielding it.
HeldOrder ==
    \A k \in Conns :
        /\ cpc[k] \in {"idle", "accepted"} =>
               received[k] = <<>> /\ held[k] = <<>> /\ queue[k] = <<>> /\ due[k] = <<>>
        /\ cpc[k] \in {"check", "wait"} => held[k] = <<>>

HubInv ==
    /\ TypeOK
    /\ SubscribersExact
    /\ EventsOnceInOrder
    /\ HeldOrder

=============================================================================
