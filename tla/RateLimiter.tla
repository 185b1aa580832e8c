----------------------------- MODULE RateLimiter ----------------------------
(***************************************************************************)
(* The sliding-window rate limiter of app/middleware/rate_limit.py, over   *)
(* one Redis sorted set per agent.  Agents use different keys and the same *)
(* code, so one agent is modelled.                                         *)
(*                                                                         *)
(* SlidingWindowRateLimiter.check is four round trips to Redis.  A step is *)
(* one of them, executed by Redis; other requests and the clock move in    *)
(* between.  The processes' clocks may run up to Skew ahead of "clock".    *)
(***************************************************************************)
EXTENDS Integers, FiniteSets

CONSTANTS
    Requests,     \* the agent's POST /mcp requests
    Limit,        \* agent.rate_limit_rpm
    Window,       \* RATE_LIMIT_WINDOW_SECONDS, in ticks of the clock
    Second,       \* ticks in a second: time.time() has fractions, Retry-After not
    Skew,         \* how far the clocks of the processes differ
    MaxInFlight,  \* how many checks may be in progress at once
    MaxTime,      \* bound: the clock stops here
    RedisFaults   \* whether a command may raise RedisError

ASSUME LimiterAssumption ==
    /\ IsFiniteSet(Requests)
    /\ Limit \in Nat \ {0}
    /\ Second \in Nat \ {0}
    /\ Window \in Nat /\ Window >= Second
    /\ Skew \in Nat
    /\ MaxInFlight \in Nat \ {0}
    /\ MaxTime \in Nat
    /\ RedisFaults \in BOOLEAN

VARIABLES
    clock,
    zset,         \* the members of ratelimit:<agent>
    ttl,          \* when EXPIRE drops the key
    pc,           \* where each check is, or its result
    now,          \* time.time() as it read it; the score of its member
    retry,        \* the retry_after of its refusal, in seconds
    reset,        \* the reset_at of its refusal
    refused       \* when it was refused: the agent counts Retry-After from here

refusal == <<retry, reset, refused>>
vars == <<clock, zset, ttl, pc, now, refusal>>

Active == {"trim", "count", "oldest", "add"}
InFlight == {r \in Requests : pc[r] \in Active}

\* What the commands find: nothing once the key's TTL has elapsed.
Members == IF clock < ttl THEN zset ELSE {}

TypeOK ==
    /\ clock \in 0..MaxTime
    /\ zset \subseteq Requests
    /\ ttl \in 0..(clock + Window)
    /\ pc \in [Requests -> Active \cup {"idle", "allowed", "open", "429"}]
    /\ now \in [Requests -> 0..(MaxTime + Skew)]
    /\ retry \in [Requests -> Nat]
    /\ reset \in [Requests -> 0..(MaxTime + Skew + Window)]
    /\ refused \in [Requests -> 0..clock]

Init ==
    /\ clock = 0
    /\ zset = {}
    /\ ttl = 0
    /\ pc = [r \in Requests |-> "idle"]
    /\ now = [r \in Requests |-> 0]
    /\ retry = [r \in Requests |-> 0]
    /\ reset = [r \in Requests |-> 0]
    /\ refused = [r \in Requests |-> 0]

-----------------------------------------------------------------------------
Start(r, skew) ==
    /\ pc[r] = "idle"
    /\ Cardinality(InFlight) < MaxInFlight
    /\ now' = [now EXCEPT ![r] = clock + skew]
    /\ pc' = [pc EXCEPT ![r] = "trim"]
    /\ UNCHANGED <<clock, zset, ttl, refusal>>

\* ZREMRANGEBYSCORE key 0 window_start, both ends included.
Trim(r) ==
    /\ pc[r] = "trim"
    /\ zset' = {m \in Members : now[m] > now[r] - Window}
    /\ pc' = [pc EXCEPT ![r] = "count"]
    /\ UNCHANGED <<clock, ttl, now, refusal>>

\* Seeded bug: the limit is compared with > instead of >=.
CountOffByOne(r) ==
    /\ pc[r] = "count"
    /\ pc' = [pc EXCEPT ![r] = IF Cardinality(Members) > Limit
                               THEN "oldest" ELSE "add"]
    /\ UNCHANGED <<clock, zset, ttl, now, refusal>>

\* ZCARD, and the branch on its answer.
Count(r) ==
    /\ pc[r] = "count"
    /\ pc' = [pc EXCEPT ![r] = IF Cardinality(Members) >= Limit
                               THEN "oldest" ELSE "add"]
    /\ UNCHANGED <<clock, zset, ttl, now, refusal>>

\* ZRANGE key 0 0 WITHSCORES finds the smallest score, or no key any more.
ResetAt(r) ==
    IF Members = {} THEN {now[r] + Window}
    ELSE {now[m] + Window : m \in {x \in Members : \A y \in Members : now[x] <= now[y]}}

\* Seeded bug: the wait is not kept above zero.
TruncatedWait(ticks) == ticks \div Second

\* max(1, int(reset_at - now))
RetryAfter(ticks) == IF ticks \div Second > 1 THEN ticks \div Second ELSE 1

\* The refusal, with a Retry-After computed from the now of the check's start.
Oldest(r) ==
    /\ pc[r] = "oldest"
    /\ \E reset_at \in ResetAt(r) :
          /\ reset' = [reset EXCEPT ![r] = reset_at]
          /\ retry' = [retry EXCEPT ![r] = RetryAfter(reset_at - now[r])]
    /\ refused' = [refused EXCEPT ![r] = clock]
    /\ pc' = [pc EXCEPT ![r] = "429"]
    /\ UNCHANGED <<clock, zset, ttl, now>>

\* Seeded bug: EXPIRE ... NX, which does not renew a TTL that is running.
AddWithoutRenewal(r) ==
    /\ zset' = Members \cup {r}
    /\ ttl' = IF clock < ttl THEN ttl ELSE clock + Window

\* The MULTI/EXEC pipeline: ZADD and EXPIRE take effect together.
AddMember(r) ==
    /\ zset' = Members \cup {r}
    /\ ttl' = clock + Window

Add(r) ==
    /\ pc[r] = "add"
    /\ AddMember(r)
    /\ pc' = [pc EXCEPT ![r] = "allowed"]
    /\ UNCHANGED <<clock, now, refusal>>

\* RedisError anywhere: the check fails open.  A pipeline whose reply was lost
\* has been executed.
FailOpen(r) ==
    /\ RedisFaults
    /\ pc[r] \in Active
    /\ \/ UNCHANGED <<zset, ttl>>
       \/ pc[r] = "add" /\ AddMember(r)
    /\ pc' = [pc EXCEPT ![r] = "open"]
    /\ UNCHANGED <<clock, now, refusal>>

Tick ==
    /\ clock < MaxTime
    /\ clock' = clock + 1
    /\ UNCHANGED <<zset, ttl, pc, now, refusal>>

Next ==
    \/ \E r \in Requests :
          \/ \E skew \in 0..Skew : Start(r, skew)
          \/ Trim(r)
          \/ Count(r)
          \/ Oldest(r)
          \/ Add(r)
          \/ FailOpen(r)
    \/ Tick

Spec == Init /\ [][Next]_vars

-----------------------------------------------------------------------------
\* The admitted requests of the current window, on the fastest clock.
Recent == {r \in Requests : pc[r] = "allowed" /\ now[r] > clock + Skew - Window}

\* No admitted request is forgotten while it is in the window: neither the
\* trims of other requests, with their own idea of now, nor the expiry of the
\* whole key, renewed only by an admission, ever drop it.
RecentTracked == Recent \subseteq Members

\* ZCARD and ZADD are separate commands, so overlapping checks can all pass on
\* the same count; the overshoot is at most the checks in flight but one, and
\* it does not build up from window to window.
WindowBound == Cardinality(Recent) <= Limit - 1 + MaxInFlight

\* How long a refused agent waits that does as Retry-After says, from the refusal
\* on.  At least a second, and long enough: what it was refused for leaves the
\* window less than a second and the skew after the wait ends.  At most a window,
\* the skew and the time the check took, because the wait is computed from a clock
\* read before the round trips and the members come from later checks and other
\* clocks.
RetryAfterBound ==
    \A r \in Requests : pc[r] = "429" =>
        /\ retry[r] >= 1
        /\ reset[r] < refused[r] + retry[r] * Second + Second + Skew
        /\ retry[r] * Second <= Window + Skew + (refused[r] - now[r])

\* The checks that have passed the count and not yet added their member.
Passed == {r \in Requests : pc[r] = "add"}

\* The strengthening that makes the two inductive: who has passed the count is
\* charged as if already a member, and the key outlives every member that is
\* still in the window.
LimiterInv ==
    /\ TypeOK
    /\ Cardinality(InFlight) <= MaxInFlight
    /\ \A r \in Requests : now[r] <= clock + Skew
    /\ \A r \in Requests : pc[r] = "allowed" => now[r] + Window - Skew <= ttl
    /\ Recent \subseteq zset
    /\ RetryAfterBound
    /\ Cardinality(Members \cup Passed) <= Limit - 1 + MaxInFlight

=============================================================================
