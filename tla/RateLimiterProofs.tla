------------------------- MODULE RateLimiterProofs --------------------------
(***************************************************************************)
(* For every limit, window, clock skew, number of requests and number of   *)
(* overlapping checks: the rate limiter forgets no admitted request of the *)
(* window and overshoots by at most the overlapping checks but one.        *)
(***************************************************************************)
EXTENDS RateLimiter, FiniteSetTheorems, TLAPS

\* Cardinalities of the sets of requests the proof compares.
LEMMA SubsetCard ==
    ASSUME NEW S \in SUBSET Requests, NEW T \in SUBSET S
    PROVE  /\ IsFiniteSet(S)
           /\ IsFiniteSet(T)
           /\ Cardinality(S) \in Nat
           /\ Cardinality(T) \in Nat
           /\ Cardinality(T) <= Cardinality(S)
  <1>1. IsFiniteSet(S)
    BY FS_Subset, LimiterAssumption DEF LimiterAssumption
  <1>2. IsFiniteSet(T) /\ Cardinality(T) <= Cardinality(S)
    BY <1>1, FS_Subset
  <1>3. QED  BY <1>1, <1>2, FS_CardinalityType

LEMMA UnionCard ==
    ASSUME NEW S \in SUBSET Requests, NEW T \in SUBSET Requests
    PROVE  Cardinality(S \cup T) <= Cardinality(S) + Cardinality(T)
  <1>1. IsFiniteSet(S) /\ IsFiniteSet(T) /\ IsFiniteSet(S \cap T)
    BY SubsetCard
  <1>2. Cardinality(S \cup T) = Cardinality(S) + Cardinality(T) - Cardinality(S \cap T)
    BY <1>1, FS_Union
  <1>3. /\ Cardinality(S) \in Nat
        /\ Cardinality(T) \in Nat
        /\ Cardinality(S \cap T) \in Nat
    BY <1>1, FS_CardinalityType
  <1>4. QED  BY <1>2, <1>3

\* A wait rounded down to seconds, but at least one, ends no later than the time
\* it was computed for, or a second from now, and less than a second before it.
LEMMA WaitBound ==
    ASSUME NEW x \in Int
    PROVE  /\ RetryAfter(x) \in Nat
           /\ RetryAfter(x) >= 1
           /\ RetryAfter(x) * Second \in Nat
           /\ RetryAfter(x) * Second <= x \/ RetryAfter(x) * Second = Second
           /\ x < RetryAfter(x) * Second + Second
  <1> USE LimiterAssumption DEF LimiterAssumption
  <1>1. /\ x \div Second \in Int
        /\ (x \div Second) * Second <= x
        /\ x < (x \div Second) * Second + Second
        /\ (x \div Second) * Second \in Int
    OBVIOUS
  <1>2. CASE x \div Second > 1
    BY <1>1, <1>2 DEF RetryAfter
  <1>3. CASE ~ (x \div Second > 1)
    <2>1. (x \div Second) * Second <= Second
      BY <1>1, <1>3
    <2>2. RetryAfter(x) = 1 /\ 1 * Second = Second
      BY <1>3 DEF RetryAfter
    <2>3. QED  BY <1>1, <2>1, <2>2
  <1>4. QED  BY <1>2, <1>3

LEMMA InitInv == Init => LimiterInv
  <1> SUFFICES ASSUME Init PROVE LimiterInv
    OBVIOUS
  <1>1. TypeOK
    BY LimiterAssumption DEF Init, TypeOK, LimiterAssumption, Active
  <1>2. InFlight = {} /\ Recent = {} /\ Members \cup Passed = {}
    BY DEF Init, InFlight, Active, Recent, Members, Passed
  <1>3. Cardinality({}) = 0
    BY FS_EmptySet
  <1>4. RetryAfterBound
    BY DEF Init, RetryAfterBound
  <1>5. QED
    BY <1>1, <1>2, <1>3, <1>4, LimiterAssumption DEF Init, LimiterInv, LimiterAssumption

\* One step per action; under it one per conjunct the action can disturb.
LEMMA StepInv == LimiterInv /\ [Next]_vars => LimiterInv'
  <1> SUFFICES ASSUME LimiterInv, [Next]_vars PROVE LimiterInv'
    OBVIOUS
  <1> USE LimiterAssumption DEF LimiterAssumption, refusal
  <1>t. TypeOK BY DEF LimiterInv
  <1>m. /\ Members \in SUBSET Requests
        /\ Passed \in SUBSET InFlight
        /\ InFlight \in SUBSET Requests
        /\ Passed \in SUBSET Requests
    BY <1>t DEF TypeOK, Members, Passed, InFlight, Active
  <1>1. CASE UNCHANGED vars
    <2>1. UNCHANGED <<clock, zset, ttl, pc, now, retry, reset, refused>>
      BY <1>1 DEF vars, refusal
    <2>2. QED
      BY <2>1 DEF LimiterInv, TypeOK, InFlight, Recent, Members, Passed, RetryAfterBound
  <1>2. ASSUME NEW r \in Requests, NEW skew \in 0..Skew, Start(r, skew)
        PROVE  LimiterInv'
    <2>1. TypeOK'
      BY <1>t, <1>2 DEF TypeOK, Start, Active
    <2>2. Cardinality(InFlight') <= MaxInFlight
      <3>1. InFlight' = InFlight \cup {r} /\ r \notin InFlight
        BY <1>t, <1>2 DEF Start, InFlight, TypeOK, Active
      <3>2. IsFiniteSet(InFlight) /\ Cardinality(InFlight) \in Nat
        BY <1>m, SubsetCard
      <3>3. Cardinality(InFlight \cup {r}) = Cardinality(InFlight) + 1
        BY <3>1, <3>2, FS_AddElement, Zenon
      <3>4. QED  BY <3>1, <3>2, <3>3, <1>2 DEF Start
    <2>3. \A q \in Requests : now'[q] <= clock' + Skew
      BY <1>t, <1>2 DEF LimiterInv, Start, TypeOK
    <2>4. /\ ttl' <= clock' + Window
          /\ \A q \in Requests : pc'[q] = "allowed" => now'[q] + Window - Skew <= ttl'
          /\ Recent' \subseteq zset'
      BY <1>t, <1>2 DEF LimiterInv, Start, TypeOK, Recent
    <2>5. (Members \cup Passed)' = Members \cup Passed
      BY <1>t, <1>2 DEF Start, TypeOK, Members, Passed
    <2>r. RetryAfterBound'
      BY <1>t, <1>2 DEF LimiterInv, RetryAfterBound, Start, TypeOK
    <2>6. QED  BY <2>1, <2>2, <2>3, <2>4, <2>5, <2>r DEF LimiterInv
  <1>3. ASSUME NEW r \in Requests, Trim(r)
        PROVE  LimiterInv'
    <2>1. TypeOK'
      BY <1>t, <1>m, <1>3 DEF TypeOK, Trim, Active
    <2>2. InFlight' = InFlight
      BY <1>t, <1>3 DEF Trim, InFlight, TypeOK, Active
    <2>3. Recent' = Recent
      BY <1>t, <1>3 DEF Trim, Recent, TypeOK
    <2>4. Recent' \subseteq zset'
      <3>1. SUFFICES ASSUME NEW q \in Recent PROVE q \in zset'
        BY <2>3
      <3>2. q \in Members
        BY <1>t DEF LimiterInv, Recent, Members, TypeOK
      <3>3. now[q] > now[r] - Window
        BY <1>t DEF LimiterInv, Recent, TypeOK
      <3>4. QED  BY <3>2, <3>3, <1>3 DEF Trim
    <2>5. Cardinality((Members \cup Passed)') <= Limit - 1 + MaxInFlight
      <3>1. (Members \cup Passed)' \in SUBSET (Members \cup Passed)
        BY <1>t, <1>3 DEF Trim, Members, Passed, TypeOK
      <3>2. Members \cup Passed \in SUBSET Requests
        BY <1>m
      <3>3. /\ Cardinality((Members \cup Passed)') \in Nat
            /\ Cardinality(Members \cup Passed) \in Nat
            /\ Cardinality((Members \cup Passed)') <= Cardinality(Members \cup Passed)
        BY <3>1, <3>2, SubsetCard
      <3>4. QED  BY <3>3 DEF LimiterInv
    <2>r. RetryAfterBound'
      BY <1>t, <1>3 DEF LimiterInv, RetryAfterBound, Trim, TypeOK
    <2>6. QED
      BY <1>t, <1>3, <2>1, <2>2, <2>4, <2>5, <2>r DEF LimiterInv, Trim, TypeOK
  <1>4. ASSUME NEW r \in Requests, Count(r)
        PROVE  LimiterInv'
    <2>1. TypeOK'
      BY <1>t, <1>4 DEF TypeOK, Count, Active
    <2>2. InFlight' = InFlight
      BY <1>t, <1>4 DEF Count, InFlight, TypeOK, Active
    <2>3. Members' = Members /\ Recent' = Recent
      BY <1>t, <1>4 DEF Count, Recent, TypeOK, Members
    <2>4. Cardinality((Members \cup Passed)') <= Limit - 1 + MaxInFlight
      <3>1. CASE Cardinality(Members) >= Limit
        <4>1. Passed' = Passed
          BY <1>t, <1>4, <3>1 DEF Count, Passed, TypeOK
        <4>2. QED  BY <4>1, <2>3 DEF LimiterInv
      <3>2. CASE ~ (Cardinality(Members) >= Limit)
        <4>1. Passed' \in SUBSET InFlight'
          BY DEF Passed, InFlight, Active
        <4>2. /\ Cardinality(InFlight') \in Nat
              /\ Cardinality(Passed') \in Nat
              /\ Cardinality(Passed') <= Cardinality(InFlight')
          BY <4>1, <1>m, <2>2, SubsetCard
        <4>3. Cardinality(Passed') <= MaxInFlight
          BY <4>2, <2>2 DEF LimiterInv
        <4>4. Cardinality(Members) \in Nat /\ Cardinality(Members) <= Limit - 1
          BY <3>2, <1>m, SubsetCard
        <4>5. Cardinality(Members \cup Passed') <= Cardinality(Members) + Cardinality(Passed')
          BY <4>1, <1>m, <2>2, UnionCard
        <4>6. Cardinality(Members \cup Passed') \in Nat
          <5>1. Members \cup Passed' \in SUBSET Requests
            BY <1>m, <4>1, <2>2
          <5>2. QED  BY <5>1, SubsetCard
        <4>7. QED  BY <4>2, <4>3, <4>4, <4>5, <4>6, <2>3
      <3>3. QED  BY <3>1, <3>2
    <2>r. RetryAfterBound'
      BY <1>t, <1>4 DEF LimiterInv, RetryAfterBound, Count, TypeOK
    <2>5. QED
      BY <1>t, <1>4, <2>1, <2>2, <2>3, <2>4, <2>r DEF LimiterInv, Count, TypeOK
  <1>5. ASSUME NEW r \in Requests, Oldest(r)
        PROVE  LimiterInv'
    <2>0. PICK reset_at \in ResetAt(r) :
              /\ reset' = [reset EXCEPT ![r] = reset_at]
              /\ retry' = [retry EXCEPT ![r] = RetryAfter(reset_at - now[r])]
      BY <1>5 DEF Oldest
    <2>a. reset_at \in Nat /\ reset_at <= clock + Skew + Window
      <3>1. CASE Members = {}
        BY <3>1, <2>0, <1>t DEF ResetAt, LimiterInv, TypeOK
      <3>2. CASE Members # {}
        <4>1. PICK m \in Members : reset_at = now[m] + Window
          BY <3>2, <2>0 DEF ResetAt
        <4>2. QED  BY <4>1, <1>t, <1>m DEF LimiterInv, TypeOK
      <3>3. QED  BY <3>1, <3>2
    <2> DEFINE wait == RetryAfter(reset_at - now[r])
    <2>b. /\ wait \in Nat
          /\ wait >= 1
          /\ reset_at < clock + wait * Second + Second + Skew
          /\ wait * Second <= Window + Skew + (clock - now[r])
      <3>1. /\ reset_at - now[r] \in Int /\ now[r] \in Nat
            /\ now[r] <= clock + Skew /\ clock \in Nat
        BY <2>a, <1>t DEF LimiterInv, TypeOK
      <3>2. /\ wait \in Nat
            /\ wait >= 1
            /\ wait * Second \in Nat
            /\ wait * Second <= reset_at - now[r] \/ wait * Second = Second
            /\ reset_at - now[r] < wait * Second + Second
        BY <3>1, WaitBound
      <3> HIDE DEF wait
      <3>3. QED  BY <3>1, <3>2, <2>a
    <2>c. /\ retry'[r] = wait /\ reset'[r] = reset_at /\ refused'[r] = clock
          /\ \A q \in Requests : q # r =>
                /\ pc'[q] = pc[q] /\ retry'[q] = retry[q]
                /\ reset'[q] = reset[q] /\ refused'[q] = refused[q]
          /\ UNCHANGED <<clock, now>>
      BY <1>t, <1>5, <2>0 DEF Oldest, TypeOK
    <2>d. reset_at \in 0..(MaxTime + Skew + Window)
      BY <2>a, <1>t DEF TypeOK
    <2> HIDE DEF wait
    <2>r. RetryAfterBound'
      <3>1. SUFFICES ASSUME NEW q \in Requests, pc'[q] = "429"
                     PROVE  /\ retry'[q] >= 1
                            /\ reset'[q] < refused'[q] + retry'[q] * Second + Second + Skew
                            /\ retry'[q] * Second <= Window + Skew + (refused'[q] - now'[q])
        BY DEF RetryAfterBound
      <3>2. CASE q = r
        BY <2>b, <2>c, <3>2
      <3>3. CASE q # r
        BY <2>c, <3>1, <3>3 DEF LimiterInv, RetryAfterBound
      <3>4. QED  BY <3>2, <3>3
    <2>1. TypeOK'
      <3>1. /\ retry' \in [Requests -> Nat]
            /\ reset' \in [Requests -> 0..(MaxTime + Skew + Window)]
            /\ refused' \in [Requests -> 0..clock']
        BY <1>t, <1>5, <2>0, <2>b, <2>d DEF TypeOK, Oldest, wait
      <3>2. QED  BY <1>t, <1>5, <3>1 DEF TypeOK, Oldest, Active
    <2>2. Cardinality(InFlight') <= MaxInFlight
      <3>1. InFlight' \in SUBSET InFlight
        BY <1>t, <1>5 DEF Oldest, InFlight, TypeOK, Active
      <3>2. QED  BY <3>1, <1>m, SubsetCard DEF LimiterInv
    <2>3. Members' = Members /\ Recent' = Recent /\ Passed' = Passed
      BY <1>t, <1>5 DEF Oldest, Recent, TypeOK, Members, Passed
    <2>4. QED
      BY <1>t, <1>5, <2>1, <2>2, <2>3, <2>r DEF LimiterInv, Oldest, TypeOK
  <1>6. ASSUME NEW r \in Requests, Passed' = Passed \ {r}, r \in Passed,
               AddMember(r), UNCHANGED <<clock, now>>
        PROVE  Cardinality((Members \cup Passed)') <= Limit - 1 + MaxInFlight
    <2>1. clock' < ttl'
      BY <1>t, <1>6 DEF AddMember, TypeOK
    <2>2. (Members \cup Passed)' = Members \cup Passed
      BY <2>1, <1>6 DEF AddMember, Members
    <2>3. QED  BY <2>2 DEF LimiterInv
  <1>7. ASSUME NEW r \in Requests, Add(r)
        PROVE  LimiterInv'
    <2>1. TypeOK'
      BY <1>t, <1>m, <1>7 DEF TypeOK, Add, AddMember, Active
    <2>2. Cardinality(InFlight') <= MaxInFlight
      <3>1. InFlight' \in SUBSET InFlight
        BY <1>t, <1>7 DEF Add, InFlight, TypeOK, Active
      <3>2. QED  BY <3>1, <1>m, SubsetCard DEF LimiterInv
    <2>3. \A q \in Requests : pc'[q] = "allowed" => now'[q] + Window - Skew <= ttl'
      BY <1>t, <1>7 DEF LimiterInv, Add, AddMember, TypeOK
    <2>4. Recent' \subseteq zset'
      <3>1. SUFFICES ASSUME NEW q \in Recent' PROVE q \in zset'
        OBVIOUS
      <3>2. q = r \/ q \in Recent
        BY <1>t, <1>7 DEF Add, Recent, TypeOK
      <3>3. q \in Recent => q \in Members
        BY <1>t DEF LimiterInv, Recent, Members, TypeOK
      <3>4. QED  BY <3>2, <3>3, <1>7 DEF Add, AddMember
    <2>5. Passed' = Passed \ {r} /\ r \in Passed
      BY <1>t, <1>7 DEF Add, Passed, TypeOK
    <2>6. Cardinality((Members \cup Passed)') <= Limit - 1 + MaxInFlight
      BY <1>6, <1>7, <2>5 DEF Add
    <2>r. RetryAfterBound'
      BY <1>t, <1>7 DEF LimiterInv, RetryAfterBound, Add, TypeOK
    <2>7. QED
      BY <1>t, <1>7, <2>1, <2>2, <2>3, <2>4, <2>6, <2>r
         DEF LimiterInv, Add, AddMember, TypeOK
  <1>8. ASSUME NEW r \in Requests, FailOpen(r)
        PROVE  LimiterInv'
    <2>1. TypeOK'
      BY <1>t, <1>m, <1>8 DEF TypeOK, FailOpen, AddMember, Active
    <2>2. Cardinality(InFlight') <= MaxInFlight
      <3>1. InFlight' \in SUBSET InFlight
        BY <1>t, <1>8 DEF FailOpen, InFlight, TypeOK, Active
      <3>2. QED  BY <3>1, <1>m, SubsetCard DEF LimiterInv
    <2>3. Recent' = Recent /\ Recent \subseteq Members
      <3>1. Recent' = Recent
        BY <1>t, <1>8 DEF FailOpen, Recent, TypeOK, Active
      <3>2. Recent \subseteq Members
        BY <1>t DEF LimiterInv, Recent, Members, TypeOK
      <3>3. QED  BY <3>1, <3>2
    <2>r. RetryAfterBound'
      BY <1>t, <1>8 DEF LimiterInv, RetryAfterBound, FailOpen, TypeOK, Active
    <2>4. CASE UNCHANGED <<zset, ttl>>
      <3>1. (Members \cup Passed)' \in SUBSET (Members \cup Passed)
        BY <1>t, <1>8, <2>4 DEF FailOpen, Members, Passed, TypeOK, Active
      <3>2. Members \cup Passed \in SUBSET Requests
        BY <1>m
      <3>3. Cardinality((Members \cup Passed)') <= Limit - 1 + MaxInFlight
        BY <3>1, <3>2, SubsetCard DEF LimiterInv
      <3>4. QED
        BY <1>t, <1>8, <2>1, <2>2, <2>3, <2>4, <2>r, <3>3
           DEF LimiterInv, FailOpen, TypeOK, Active
    <2>5. CASE pc[r] = "add" /\ AddMember(r)
      <3>1. Passed' = Passed \ {r} /\ r \in Passed
        BY <1>t, <1>8, <2>5 DEF FailOpen, Passed, TypeOK
      <3>2. Cardinality((Members \cup Passed)') <= Limit - 1 + MaxInFlight
        BY <1>6, <1>8, <2>5, <3>1 DEF FailOpen
      <3>3. ttl' >= ttl /\ ttl' = clock' + Window
        BY <1>t, <1>8, <2>5 DEF LimiterInv, FailOpen, AddMember, TypeOK
      <3>4. \A q \in Requests : pc'[q] = "allowed" => now'[q] + Window - Skew <= ttl'
        BY <1>t, <2>1, <1>8, <3>3 DEF LimiterInv, FailOpen, TypeOK
      <3>5. Recent' \subseteq zset'
        BY <2>3, <2>5 DEF AddMember
      <3>6. QED
        BY <1>t, <1>8, <2>1, <2>2, <2>r, <3>2, <3>3, <3>4, <3>5 DEF LimiterInv, FailOpen, TypeOK
    <2>6. QED  BY <1>8, <2>4, <2>5 DEF FailOpen
  <1>9. CASE Tick
    <2>1. TypeOK'
      BY <1>t, <1>9 DEF TypeOK, Tick
    <2>2. InFlight' = InFlight
      BY <1>9 DEF Tick, InFlight
    <2>3. Recent' \subseteq zset'
      BY <1>t, <1>9 DEF LimiterInv, Tick, Recent, TypeOK
    <2>4. Cardinality((Members \cup Passed)') <= Limit - 1 + MaxInFlight
      <3>1. (Members \cup Passed)' \in SUBSET (Members \cup Passed)
        BY <1>t, <1>9 DEF Tick, Members, Passed, TypeOK
      <3>2. Members \cup Passed \in SUBSET Requests
        BY <1>m
      <3>3. QED  BY <3>1, <3>2, SubsetCard DEF LimiterInv
    <2>r. RetryAfterBound'
      BY <1>t, <1>9 DEF LimiterInv, RetryAfterBound, Tick, TypeOK
    <2>5. QED
      BY <1>t, <1>9, <2>1, <2>2, <2>3, <2>4, <2>r DEF LimiterInv, Tick, TypeOK
  <1>10. QED
    BY <1>1, <1>2, <1>3, <1>4, <1>5, <1>7, <1>8, <1>9 DEF Next

LEMMA SpecInv == Spec => []LimiterInv
  BY InitInv, StepInv, PTL DEF Spec

\* The state of the limiter is always well-typed: in particular the key never
\* outlives the clock by more than a window.
THEOREM LimiterTypeCorrect == Spec => []TypeOK
  <1>1. LimiterInv => TypeOK
    BY DEF LimiterInv
  <1>2. QED  BY <1>1, SpecInv, PTL

\* The trims of other requests and the key's expiry never drop an admitted
\* request that is still in the window.
THEOREM LimiterTracksRecent == Spec => []RecentTracked
  <1>1. LimiterInv => RecentTracked
    BY LimiterAssumption
       DEF LimiterInv, RecentTracked, Recent, Members, TypeOK, LimiterAssumption
  <1>2. QED  BY <1>1, SpecInv, PTL

\* Counted from the refusal, Retry-After is at least a second, at most a window plus
\* the skew plus the time the check took, and ends less than a second and the skew
\* before what the agent was refused for leaves the window.
THEOREM LimiterRetryAfterBound == Spec => []RetryAfterBound
  <1>1. LimiterInv => RetryAfterBound
    BY DEF LimiterInv
  <1>2. QED  BY <1>1, SpecInv, PTL

\* However the check-then-add of overlapping requests interleaves, a window
\* never holds more than Limit - 1 + MaxInFlight admitted requests; with one
\* check at a time that is Limit itself.
THEOREM LimiterWindowBound == Spec => []WindowBound
  <1>1. ASSUME LimiterInv PROVE WindowBound
    <2>1. Recent \in SUBSET (Members \cup Passed)
      BY <1>1, LimiterAssumption
         DEF LimiterInv, Recent, Members, TypeOK, LimiterAssumption
    <2>2. Members \cup Passed \in SUBSET Requests
      BY <1>1 DEF LimiterInv, TypeOK, Members, Passed
    <2>3. /\ Cardinality(Recent) \in Nat
          /\ Cardinality(Members \cup Passed) \in Nat
          /\ Cardinality(Recent) <= Cardinality(Members \cup Passed)
      BY <2>1, <2>2, SubsetCard
    <2>4. QED
      BY <1>1, <2>3, LimiterAssumption DEF LimiterInv, WindowBound, LimiterAssumption
  <1>2. QED  BY <1>1, SpecInv, PTL

=============================================================================
