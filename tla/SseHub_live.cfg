SPECIFICATION FairSpec
CONSTANTS
    Processes = {p1, p2}
    p1 = p1
    p2 = p2
    Agents = {g1, g2}
    g1 = g1
    g2 = g2
    Conns = {k1, k2}
    k1 = k1
    k2 = k2
    Events = {e1, e2, e3}
    e1 = e1
    e2 = e2
    e3 = e3
INVARIANTS
    SubscribersExact
    EventsOnceInOrder
PROPERTIES
    EventDelivered
    QueueReclaimed
CHECK_DEADLOCK FALSE
