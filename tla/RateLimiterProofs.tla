-------------------------- MODULE RateLimiterProofs --------------------------
(***************************************************************************)
(* Proofs about RateLimiter.  The bound on the table is counted.  The rate *)
(* is proved by refinement: the limiter implements TokenBuckets, because a *)
(* bucket that is dropped is full (SweptAreFull), and TokenBuckets admits  *)
(* no more than flows into a bucket (BucketsConserve).                     *)
(***************************************************************************)
EXTENDS RateLimiter, FiniteSetTheorems, TLAPS

LEMMA Amounts == Full \in Nat /\ Full >= Cost /\ Cost \in Nat \ {0} /\ Rate \in Nat \ {0}
<1>1. \A b, c \in Nat \ {0} : b * c \in Nat /\ b * c >= c
  OBVIOUS
<1> QED BY <1>1, RateAssumption DEF Full

\* Multiplication by the rate, which the solver is told about once.
LEMMA RateGrows ==
  ASSUME NEW m \in Nat, NEW n \in Nat, m <= n
  PROVE  Rate * m \in Nat /\ Rate * m <= Rate * n
<1>1. \A r, x, y \in Nat : x <= y => r * x \in Nat /\ r * x <= r * y
  OBVIOUS
<1> QED BY <1>1, Amounts

LEMMA RateSteps ==
  ASSUME NEW n \in Nat
  PROVE  Rate * n \in Nat /\ Rate * (n + 1) = Rate * n + Rate
<1>1. \A r, x \in Nat : r * x \in Nat /\ r * (x + 1) = r * x + r
  OBVIOUS
<1> QED BY <1>1, Amounts

LEMMA CostSteps ==
  ASSUME NEW n \in Nat
  PROVE  Cost * n \in Nat /\ Cost * (n + 1) = Cost * n + Cost /\ Cost * 0 = 0
<1>1. \A r, x \in Nat : r * x \in Nat /\ r * (x + 1) = r * x + r /\ r * 0 = 0
  OBVIOUS
<1> QED BY <1>1, Amounts

-----------------------------------------------------------------------------
(* Types *)

LEMMA LevelInteger ==
  ASSUME NEW b, b.tokens \in 0..Full, b.last \in Nat, clock \in Nat
  PROVE  Level(b) \in Int /\ Level(b) <= Full
<1>1. Rate * (clock - b.last) \in Int
  <2>1. \A r, n \in Int : r * n \in Int
    OBVIOUS
  <2> QED BY <2>1, Amounts
<1> QED BY <1>1, Amounts DEF Level

LEMMA SpentEntry ==
  ASSUME NEW e \in Entry, clock \in Nat, Level(e) >= Cost
  PROVE  Spent(e) \in Entry /\ Spent(e).seen = e.seen /\ Spent(e).last = clock
                            /\ Spent(e).tokens = Level(e) - Cost
<1>1. Level(e) - Cost \in 0..Full
  BY LevelInteger, Amounts DEF Entry
<1> QED BY <1>1 DEF Spent, Entry

LEMMA SpentBucket ==
  ASSUME NEW b \in Bucket, clock \in Nat, Level(b) >= Cost
  PROVE  Spent(b) \in Bucket /\ Spent(b).last = clock /\ Spent(b).tokens = Level(b) - Cost
<1>1. Level(b) - Cost \in 0..Full
  BY LevelInteger, Amounts DEF Bucket
<1> QED BY <1>1 DEF Spent, Bucket

\* What GetLimiter makes of the table: an entry is as it was, was seen, is new,
\* or was stale and is gone.
LEMMA TableAfter ==
  ASSUME TypeOK, NEW q \in Requests, NEW ip \in Ips, GetLimiter(q, ip), NEW i \in Ips
  PROVE  \/ ips'[i] = ips[i]
         \/ i = ip /\ ips[i] # None /\ ips'[i] = Seen(ips[i])
         \/ i = ip /\ Swept[i] = None /\ ips'[i] = Fresh
         \/ ips[i] # None /\ Stale(ips[i]) /\ ips'[i] = None
<1>1. Swept[i] = ips[i] \/ (ips[i] # None /\ Stale(ips[i]) /\ Swept[i] = None)
  BY DEF Swept
<1>2. Swept \in [Ips -> Entry \cup {None}]
  BY DEF Swept, TypeOK
<1> QED BY <1>1, <1>2 DEF GetLimiter

-----------------------------------------------------------------------------
(* The inductive invariant: a request that was given an address's bucket    *)
(* finds it in the table, since it was seen no earlier than the request, and *)
(* a bucket is not used later than Stall after it was last seen.             *)

EntriesTimely ==
    \A ip \in Ips : ips[ip] # None =>
        /\ ips[ip].last <= clock /\ ips[ip].seen <= clock
        /\ ips[ip].last <= ips[ip].seen + Stall

RequestsTimely ==
    \A q \in Requests : reqs[q] # None =>
        /\ reqs[q].since <= clock /\ clock <= reqs[q].since + Stall
        /\ reqs[q].from # Overflow => /\ ips[reqs[q].from] # None
                                      /\ reqs[q].since <= ips[reqs[q].from].seen

IInv == TypeOK /\ EntriesTimely /\ RequestsTimely /\ overflow.last <= clock

LEMMA InitInv == Init => IInv
<1> SUFFICES ASSUME Init PROVE IInv
  OBVIOUS
<1>1. overflow \in Bucket /\ overflow.last <= clock
  BY Amounts DEF Init, Bucket
<1>2. TypeOK
  BY <1>1 DEF Init, TypeOK
<1> QED BY <1>1, <1>2 DEF Init, IInv, EntriesTimely, RequestsTimely

\* The bucket of a request under way was not idle long enough to be swept.
LEMMA HeldIsKept ==
  ASSUME IInv, NEW q \in Requests, reqs[q] # None, reqs[q].from # Overflow
  PROVE  /\ reqs[q].from \in Ips /\ ips[reqs[q].from] \in Entry
         /\ ~Stale(ips[reqs[q].from])
         /\ clock <= ips[reqs[q].from].seen + Stall
<1>1. reqs[q] \in Request
  BY DEF IInv, TypeOK
<1>2. reqs[q].from \in Ips /\ reqs[q].since \in Nat
  BY <1>1 DEF Request
<1>3. ips[reqs[q].from] \in Entry
  BY <1>2 DEF IInv, TypeOK, RequestsTimely
<1>4. clock <= ips[reqs[q].from].seen + Stall /\ ips[reqs[q].from].seen \in Nat
  BY <1>2, <1>3, TimesAssumption DEF IInv, TypeOK, RequestsTimely, Entry
<1> QED BY <1>2, <1>3, <1>4, TimesAssumption DEF Stale, IInv, TypeOK

LEMMA FreshEntry ==
  ASSUME clock \in Nat
  PROVE  Fresh \in Entry /\ Fresh # None /\ Fresh.seen = clock /\ Fresh.last = clock
                         /\ Fresh.tokens = Full
BY Amounts, TableAssumption DEF Fresh, Entry

LEMMA SeenEntry ==
  ASSUME NEW e \in Entry, clock \in Nat
  PROVE  Seen(e) \in Entry /\ Seen(e) # None /\ Seen(e).seen = clock
         /\ Seen(e).last = e.last /\ Seen(e).tokens = e.tokens
BY TableAssumption DEF Seen, Entry

LEMMA GetLimiterInv ==
  ASSUME IInv, NEW q \in Requests, NEW ip \in Ips, GetLimiter(q, ip)
  PROVE  IInv'
<1> USE DEF IInv
<1>1. clock \in Nat /\ clock' = clock /\ overflow' = overflow /\ UNCHANGED <<start, admitted, shared>>
  BY DEF GetLimiter, TypeOK
<1>2. ASSUME NEW i \in Ips
      PROVE  /\ ips'[i] \in Entry \cup {None}
             /\ ips'[i] # None => /\ ips'[i].last <= clock /\ ips'[i].seen <= clock
                                  /\ ips'[i].last <= ips'[i].seen + Stall
             /\ ips'[i] # None /\ ips[i] # None => ips'[i].seen >= ips[i].seen
             /\ ips[i] # None /\ ~Stale(ips[i]) => ips'[i] # None
  <2>0. ips[i] \in Entry \cup {None}
    BY DEF TypeOK
  <2>1. CASE ips'[i] = ips[i]
    BY <2>0, <2>1 DEF EntriesTimely, Entry
  <2>2. CASE ips[i] # None /\ ips'[i] = Seen(ips[i])
    BY <1>1, <2>0, <2>2, SeenEntry, TimesAssumption DEF EntriesTimely, Entry
  <2>3. CASE Swept[i] = None /\ ips'[i] = Fresh
    BY <1>1, <2>0, <2>3, FreshEntry, TimesAssumption DEF EntriesTimely, Entry
  <2>4. CASE ips[i] # None /\ Stale(ips[i]) /\ ips'[i] = None
    BY <2>4
  <2> QED BY <2>1, <2>2, <2>3, <2>4, TableAfter
<1>3. ips' \in [Ips -> Entry \cup {None}]
  <2>1. ips' \in [Ips -> {ips'[i] : i \in Ips}]
    BY DEF GetLimiter, Swept
  <2> QED BY <1>2, <2>1
<1>4. \E s \in {ip, Overflow} : /\ Given(q, ip, s)
                                /\ s = ip => ips'[ip] # None /\ ips'[ip].seen = clock
  <2>1. Swept \in [Ips -> Entry \cup {None}]
    BY DEF Swept, TypeOK
  <2>2. CASE Swept[ip] # None /\ ips' = [Swept EXCEPT ![ip] = Seen(Swept[ip])] /\ Given(q, ip, ip)
    BY <1>1, <2>1, <2>2, SeenEntry
  <2>3. CASE ips' = [Swept EXCEPT ![ip] = Fresh] /\ Given(q, ip, ip)
    BY <1>1, <2>1, <2>3, FreshEntry
  <2>4. CASE Given(q, ip, Overflow)
    BY <2>4, TableAssumption
  <2> QED BY <2>2, <2>3, <2>4 DEF GetLimiter
<1>5. PICK s \in {ip, Overflow} : /\ Given(q, ip, s)
                                  /\ s = ip => ips'[ip] # None /\ ips'[ip].seen = clock
  BY <1>4
<1>6. [ip |-> ip, from |-> s, since |-> clock] \in Request
  BY <1>1 DEF Request
<1>7. reqs' \in [Requests -> Request \cup {None}]
  BY <1>5, <1>6 DEF Given, TypeOK
<1>8. RequestsTimely'
  <2> SUFFICES ASSUME NEW p \in Requests, reqs'[p] # None
               PROVE  /\ reqs'[p].since <= clock /\ clock <= reqs'[p].since + Stall
                      /\ reqs'[p].from # Overflow => /\ ips'[reqs'[p].from] # None
                                                     /\ reqs'[p].since <= ips'[reqs'[p].from].seen
    BY <1>1 DEF RequestsTimely
  <2>1. CASE p = q
    <3>1. reqs'[p] = [ip |-> ip, from |-> s, since |-> clock]
      BY <1>5, <2>1 DEF Given, TypeOK
    <3> QED BY <1>1, <1>5, <3>1, TimesAssumption
  <2>2. CASE p # q
    <3>1. reqs'[p] = reqs[p] /\ reqs[p] \in Request
      BY <1>5, <2>2 DEF Given, TypeOK
    <3>2. reqs[p].since <= clock /\ clock <= reqs[p].since + Stall
      BY <3>1 DEF RequestsTimely
    <3>3. ASSUME reqs[p].from # Overflow
          PROVE  ips'[reqs[p].from] # None /\ reqs[p].since <= ips'[reqs[p].from].seen
      <4>1. reqs[p].from \in Ips /\ ips[reqs[p].from] \in Entry /\ ~Stale(ips[reqs[p].from])
        BY <3>1, <3>3, HeldIsKept
      <4>2. ips[reqs[p].from] # None /\ reqs[p].since <= ips[reqs[p].from].seen
        BY <3>1, <3>3 DEF RequestsTimely
      <4>3. ips'[reqs[p].from] # None /\ ips'[reqs[p].from].seen >= ips[reqs[p].from].seen
        BY <1>2, <4>1, <4>2
      <4>4. ips'[reqs[p].from] \in Entry
        BY <1>3, <4>1, <4>3
      <4> QED BY <3>1, <4>1, <4>2, <4>3, <4>4 DEF Entry, Request
    <3> QED BY <3>1, <3>2, <3>3
  <2> QED BY <2>1, <2>2
<1>9. nextCleanup' \in Nat
  BY <1>1, TimesAssumption DEF GetLimiter, TypeOK
<1>10. TypeOK'
  BY <1>1, <1>3, <1>7, <1>9 DEF TypeOK
<1> QED BY <1>1, <1>2, <1>8, <1>10 DEF EntriesTimely

\* What Allow does to the buckets.
LEMMA AllowFacts ==
  ASSUME IInv, NEW q \in Requests, Allow(q), NEW s, s = reqs[q].from
  PROVE  /\ s \in Sources /\ reqs[q] \in Request
         /\ s = Overflow => /\ overflow' \in Bucket /\ overflow'.last = clock
                            /\ overflow'.tokens = Level(overflow) - Cost
                            /\ Level(overflow) >= Cost
                            /\ ips' = ips
         /\ s # Overflow => /\ s \in Ips /\ overflow' = overflow
                            /\ ips[s] \in Entry /\ Level(ips[s]) >= Cost
                            /\ ips' = [ips EXCEPT ![s] = Spent(ips[s])]
                            /\ Spent(ips[s]) \in Entry /\ Spent(ips[s]).last = clock
                            /\ Spent(ips[s]).seen = ips[s].seen
                            /\ Spent(ips[s]).tokens = Level(ips[s]) - Cost
                            /\ clock <= ips[s].seen + Stall
<1>1. reqs[q] # None /\ reqs[q] \in Request /\ clock \in Nat
  BY DEF IInv, TypeOK, Allow
<1>2. s \in Sources
  BY <1>1 DEF Request, Sources
<1>3. CASE s = Overflow
  <2>1. Level(overflow) >= Cost /\ overflow' = Spent(overflow) /\ ips' = ips
    BY <1>3 DEF Allow, BucketOf
  <2> QED BY <1>1, <1>2, <1>3, <2>1, SpentBucket DEF IInv, TypeOK
<1>4. CASE s # Overflow
  <2>1. s \in Ips /\ ips[s] \in Entry /\ clock <= ips[s].seen + Stall
    BY <1>1, <1>4, HeldIsKept
  <2>2. /\ Level(ips[s]) >= Cost /\ overflow' = overflow
        /\ ips' = [ips EXCEPT ![s] = Spent(ips[s])]
    BY <1>4 DEF Allow, BucketOf
  <2> QED BY <1>1, <1>2, <1>4, <2>1, <2>2, SpentEntry
<1> QED BY <1>3, <1>4

LEMMA AllowInv ==
  ASSUME IInv, NEW q \in Requests, Allow(q)
  PROVE  IInv'
<1> DEFINE s == reqs[q].from
<1>1. UNCHANGED <<clock, nextCleanup, start>> /\ reqs' = [reqs EXCEPT ![q] = None] /\ clock \in Nat
  BY DEF Allow, IInv, TypeOK
<1>2. s \in Sources /\ reqs[q].ip \in Ips
  BY AllowFacts DEF Request
<1>3. admitted' \in [Sources -> Nat] /\ shared' \in [Ips -> Nat]
  BY <1>2 DEF Allow, IInv, TypeOK
<1>4. reqs' \in [Requests -> Request \cup {None}]
  BY <1>1 DEF IInv, TypeOK
<1>5. overflow' \in Bucket /\ overflow'.last <= clock
  BY <1>1, AllowFacts DEF IInv, TypeOK
<1>6. ASSUME NEW i \in Ips
      PROVE  /\ ips'[i] \in Entry \cup {None}
             /\ ips'[i] = None <=> ips[i] = None
             /\ ips'[i] # None => /\ ips'[i].seen = ips[i].seen
                                  /\ ips'[i].last <= clock /\ ips'[i].seen <= clock
                                  /\ ips'[i].last <= ips'[i].seen + Stall
  <2>1. CASE s # Overflow /\ i = s
    <3>1. /\ ips[s] \in Entry /\ Spent(ips[s]) \in Entry /\ Spent(ips[s]).last = clock
          /\ Spent(ips[s]).seen = ips[s].seen /\ clock <= ips[s].seen + Stall
          /\ ips' = [ips EXCEPT ![s] = Spent(ips[s])]
      BY <2>1, AllowFacts
    <3>2. ips'[i] = Spent(ips[s])
      BY <2>1, <3>1 DEF IInv, TypeOK
    <3>3. ips[s].seen <= clock
      BY <2>1, <3>1, TableAssumption DEF IInv, EntriesTimely
    <3> QED BY <1>1, <2>1, <3>1, <3>2, <3>3, TableAssumption
  <2>2. CASE ~(s # Overflow /\ i = s)
    <3>1. ips'[i] = ips[i]
      BY <2>2, AllowFacts DEF IInv, TypeOK
    <3> QED BY <3>1 DEF IInv, TypeOK, EntriesTimely
  <2> QED BY <2>1, <2>2
<1>7. ips' \in [Ips -> Entry \cup {None}]
  <2>1. DOMAIN ips' = Ips /\ ips' = [i \in Ips |-> ips'[i]]
    BY AllowFacts DEF IInv, TypeOK
  <2> QED BY <1>6, <2>1
<1>8. TypeOK'
  BY <1>1, <1>3, <1>4, <1>5, <1>7 DEF IInv, TypeOK
<1>9. EntriesTimely'
  BY <1>1, <1>6 DEF EntriesTimely
<1>10. RequestsTimely'
  <2> SUFFICES ASSUME NEW p \in Requests, reqs'[p] # None
               PROVE  /\ reqs'[p].since <= clock /\ clock <= reqs'[p].since + Stall
                      /\ reqs'[p].from # Overflow => /\ ips'[reqs'[p].from] # None
                                                     /\ reqs'[p].since <= ips'[reqs'[p].from].seen
    BY <1>1 DEF RequestsTimely
  <2>1. reqs'[p] = reqs[p] /\ reqs[p] # None
    BY <1>1 DEF IInv, TypeOK
  <2>2. reqs[p].from # Overflow => reqs[p].from \in Ips
    BY <2>1, HeldIsKept
  <2> QED BY <1>6, <2>1, <2>2 DEF IInv, RequestsTimely
<1> QED BY <1>1, <1>5, <1>8, <1>9, <1>10 DEF IInv

LEMMA TickInv == IInv /\ Tick => IInv'
<1> SUFFICES ASSUME IInv, Tick PROVE IInv'
  OBVIOUS
<1> USE DEF IInv, Tick
<1>1. TypeOK'
  BY DEF TypeOK
<1>2. EntriesTimely' /\ overflow'.last <= clock'
  BY DEF EntriesTimely, TypeOK, Entry, Bucket
<1>3. RequestsTimely'
  BY TimesAssumption DEF RequestsTimely, TypeOK, Request
<1> QED BY <1>1, <1>2, <1>3

LEMMA NextInv == IInv /\ [Next]_vars => IInv'
<1> SUFFICES ASSUME IInv, [Next]_vars PROVE IInv'
  OBVIOUS
<1>1. ASSUME NEW q \in Requests, TooManyRequests(q) PROVE IInv'
  BY <1>1 DEF TooManyRequests, IInv, TypeOK, EntriesTimely, RequestsTimely
<1>2. CASE Observe
  BY <1>2 DEF Observe, IInv, TypeOK, EntriesTimely, RequestsTimely
<1>3. CASE UNCHANGED vars
  BY <1>3 DEF vars, IInv, TypeOK, EntriesTimely, RequestsTimely
<1> QED BY <1>1, <1>2, <1>3, GetLimiterInv, AllowInv, TickInv DEF Next

LEMMA Invariance == Spec => []IInv
BY InitInv, NextInv, PTL DEF Spec

\* Every reachable state is well typed.
THEOREM TypeCorrect == Spec => []TypeOK
<1>1. IInv => TypeOK
  BY DEF IInv
<1> QED BY <1>1, Invariance, PTL

-----------------------------------------------------------------------------
(* The size of the table *)

LEMMA NextBounded == IInv /\ TableBounded /\ [Next]_vars => TableBounded'
<1> SUFFICES ASSUME IInv, TableBounded, [Next]_vars PROVE TableBounded'
  OBVIOUS
<1>1. ASSUME NEW q \in Requests, NEW ip \in Ips, GetLimiter(q, ip) PROVE TableBounded'
  <2>1. /\ IsFiniteSet(Tracked(Swept)) /\ Cardinality(Tracked(Swept)) \in Nat
        /\ Cardinality(Tracked(Swept)) <= MaxTracked
    <3>1. Tracked(Swept) \subseteq Tracked(ips)
      BY DEF Tracked, Swept
    <3>2. /\ IsFiniteSet(Tracked(Swept)) /\ Cardinality(Tracked(Swept)) \in Nat
          /\ Cardinality(Tracked(ips)) \in Nat
          /\ Cardinality(Tracked(Swept)) <= Cardinality(Tracked(ips))
      BY <3>1, FS_Subset, FS_CardinalityType DEF TableBounded
    <3> QED BY <3>2, TableAssumption DEF TableBounded
  <2>2. Swept \in [Ips -> Entry \cup {None}]
    BY DEF Swept, IInv, TypeOK
  <2>3. CASE Swept[ip] # None /\ ips' = [Swept EXCEPT ![ip] = Seen(Swept[ip])]
    <3>1. Tracked(ips') \subseteq Tracked(Swept)
      BY <2>2, <2>3 DEF Tracked
    <3>2. /\ IsFiniteSet(Tracked(ips')) /\ Cardinality(Tracked(ips')) \in Nat
          /\ Cardinality(Tracked(ips')) <= Cardinality(Tracked(Swept))
      BY <2>1, <3>1, FS_Subset, FS_CardinalityType
    <3> QED BY <2>1, <3>2, TableAssumption DEF TableBounded, Tracked
  <2>4. CASE Swept[ip] = None /\ HasRoom(Swept) /\ ips' = [Swept EXCEPT ![ip] = Fresh]
    <3>1. Tracked(ips') \subseteq Tracked(Swept) \cup {ip}
      BY <2>2, <2>4 DEF Tracked
    <3>2. /\ IsFiniteSet(Tracked(Swept) \cup {ip})
          /\ Cardinality(Tracked(Swept) \cup {ip}) \in Nat
          /\ Cardinality(Tracked(Swept) \cup {ip}) <= MaxTracked
      <4>1. /\ IsFiniteSet(Tracked(Swept) \cup {ip})
            /\ Cardinality(Tracked(Swept) \cup {ip}) \in
                 {Cardinality(Tracked(Swept)), Cardinality(Tracked(Swept)) + 1}
        BY <2>1, FS_AddElement
      <4>2. Cardinality(Tracked(Swept)) < MaxTracked
        BY <2>4 DEF HasRoom
      <4> QED BY <2>1, <4>1, <4>2, TableAssumption
    <3>3. /\ IsFiniteSet(Tracked(ips')) /\ Cardinality(Tracked(ips')) \in Nat
          /\ Cardinality(Tracked(ips')) <= Cardinality(Tracked(Swept) \cup {ip})
      BY <3>1, <3>2, FS_Subset, FS_CardinalityType
    <3> QED BY <3>2, <3>3, TableAssumption DEF TableBounded, Tracked
  <2>5. CASE ips' = Swept
    BY <2>1, <2>5 DEF TableBounded, Tracked
  <2> QED BY <1>1, <2>3, <2>4, <2>5 DEF GetLimiter
<1>2. ASSUME NEW q \in Requests, Allow(q) PROVE TableBounded'
  <2>1. Tracked(ips') = Tracked(ips)
    <3> DEFINE s == reqs[q].from
    <3>1. CASE s = Overflow
      BY <1>2, <3>1, AllowFacts
    <3>2. CASE s # Overflow
      <4>1. /\ ips' = [ips EXCEPT ![s] = Spent(ips[s])]
            /\ ips[s] \in Entry /\ Spent(ips[s]) \in Entry
        BY <1>2, <3>2, AllowFacts
      <4>2. ips[s] # None /\ Spent(ips[s]) # None
        BY <4>1, TableAssumption
      <4> QED BY <4>1, <4>2 DEF Tracked, IInv, TypeOK
    <3> QED BY <3>1, <3>2
  <2> QED BY <2>1 DEF TableBounded, Tracked
<1>3. ASSUME ips' = ips PROVE TableBounded'
  BY <1>3 DEF TableBounded, Tracked
<1> QED BY <1>1, <1>2, <1>3 DEF Next, vars, TooManyRequests, Tick, Observe

\* The table never holds more than MaxTracked addresses.
THEOREM TableStaysBounded == Spec => []TableBounded
<1>1. Init => TableBounded
  <2> SUFFICES ASSUME Init PROVE TableBounded
    OBVIOUS
  <2>1. Tracked(ips) = {}
    BY DEF Init, Tracked
  <2> QED BY <2>1, FS_EmptySet, TableAssumption DEF TableBounded
<1> QED BY <1>1, NextBounded, Invariance, PTL DEF Spec

-----------------------------------------------------------------------------
(* The refinement *)

\* The sweep drops full buckets only: they filled since they were last used,
\* which was at most Stall after they were last seen.
LEMMA SweptAreFull ==
  ASSUME IInv, FillsWhileIdle, NEW ip \in Ips, ips[ip] # None, Stale(ips[ip])
  PROVE  Level(ips[ip]) = Full
<1> DEFINE e == ips[ip]
<1>1. e \in Entry /\ e.tokens \in Nat /\ e.last \in Nat /\ e.seen \in Nat /\ clock \in Nat
  BY Amounts DEF IInv, TypeOK, Entry
<1>2. Idle - Stall \in Nat /\ clock - e.last \in Nat /\ Idle - Stall <= clock - e.last
  BY <1>1, TimesAssumption DEF IInv, EntriesTimely, Stale
<1>3. Full <= Rate * (clock - e.last) /\ Rate * (clock - e.last) \in Nat
  <2>1. /\ Rate * (Idle - Stall) \in Nat /\ Rate * (clock - e.last) \in Nat
        /\ Rate * (Idle - Stall) <= Rate * (clock - e.last)
    BY <1>2, RateGrows
  <2> QED BY <2>1, Amounts DEF FillsWhileIdle
<1> QED BY <1>1, <1>3, Amounts DEF Level

LEMMA LevelNow ==
  ASSUME NEW b, b.tokens \in 0..Full, b.last = clock, clock \in Nat
  PROVE  Level(b) = b.tokens
<1>1. Rate * (clock - b.last) = 0
  <2>1. \A r \in Nat : r * 0 = 0
    OBVIOUS
  <2> QED BY <2>1, Amounts
<1> QED BY <1>1, Amounts DEF Level

\* A bucket of t tokens at time l, at time c and one unit later.
LEMMA FillsByRate ==
  ASSUME NEW t \in 0..Full, NEW l \in Nat, NEW c \in Nat, l <= c
  PROVE  Buckets!Capped(t + Rate * ((c + 1) - l))
           = Buckets!Capped(Buckets!Capped(t + Rate * (c - l)) + Rate)
<1>1. c - l \in Nat /\ (c + 1) - l = (c - l) + 1
  OBVIOUS
<1>2. Rate * (c - l) \in Nat /\ Rate * ((c + 1) - l) = Rate * (c - l) + Rate
  BY <1>1, RateSteps
<1> QED BY <1>2, Amounts DEF Buckets!Capped

\* The parts of a step that leave every level alone.
LEMMA GetLimiterIsInvisible ==
  ASSUME IInv, FillsWhileIdle, NEW q \in Requests, NEW ip \in Ips, GetLimiter(q, ip),
         NEW s \in Sources
  PROVE  LevelOf(s)' = LevelOf(s)
<1>1. clock \in Nat /\ clock' = clock /\ overflow' = overflow
  BY DEF GetLimiter, IInv, TypeOK
<1>2. CASE s = Overflow
  BY <1>1, <1>2 DEF LevelOf, BucketOf, Level
<1>3. CASE s # Overflow
  <2>1. s \in Ips /\ ips[s] \in Entry \cup {None}
    BY <1>3 DEF Sources, IInv, TypeOK
  <2>2. CASE ips'[s] = ips[s]
    BY <1>1, <1>3, <2>2 DEF LevelOf, BucketOf, Level
  <2>3. CASE ips[s] # None /\ ips'[s] = Seen(ips[s])
    <3>1. ips'[s] # None /\ ips'[s].tokens = ips[s].tokens /\ ips'[s].last = ips[s].last
      BY <1>1, <2>1, <2>3, SeenEntry
    <3> QED BY <1>1, <1>3, <2>3, <3>1 DEF LevelOf, BucketOf, Level
  <2>4. CASE Swept[s] = None /\ ips'[s] = Fresh
    <3>1. LevelOf(s) = Full
      BY <1>3, <2>1, <2>4, SweptAreFull DEF LevelOf, BucketOf, Swept
    <3>2. LevelOf(s)' = Full
      <4>1. ips'[s] # None /\ ips'[s].tokens = Full /\ ips'[s].last = clock
        BY <1>1, <2>4, FreshEntry
      <4>2. Level(ips'[s]) = Full
        BY <1>1, <4>1, LevelNow, Amounts
      <4> QED BY <1>1, <1>3, <4>1, <4>2 DEF LevelOf, BucketOf, Level
    <3> QED BY <3>1, <3>2
  <2>5. CASE ips[s] # None /\ Stale(ips[s]) /\ ips'[s] = None
    BY <1>3, <2>1, <2>5, SweptAreFull DEF LevelOf, BucketOf
  <2> QED BY <2>1, <2>2, <2>3, <2>4, <2>5, TableAfter DEF IInv
<1> QED BY <1>2, <1>3

LEMMA AllowIsAdmit ==
  ASSUME IInv, NEW q \in Requests, Allow(q)
  PROVE  \E s \in Sources : Buckets!Admit(s)
<1> PICK s : s = reqs[q].from
  OBVIOUS
<1>1. s \in Sources /\ clock \in Nat /\ UNCHANGED <<clock, start>>
  BY AllowFacts DEF Allow, IInv, TypeOK
<1>2. LevelOf(s) >= Cost /\ LevelOf(s)' = LevelOf(s) - Cost
  <2>1. CASE s = Overflow
    <3>1. /\ overflow' \in Bucket /\ overflow'.last = clock
          /\ overflow'.tokens = Level(overflow) - Cost /\ Level(overflow) >= Cost
      BY <2>1, AllowFacts
    <3>2. Level(overflow') = overflow'.tokens
      BY <1>1, <3>1, LevelNow DEF Bucket
    <3> QED BY <1>1, <2>1, <3>1, <3>2 DEF LevelOf, BucketOf, Level
  <2>2. CASE s # Overflow
    <3>1. /\ s \in Ips /\ ips[s] \in Entry /\ Level(ips[s]) >= Cost
          /\ ips' = [ips EXCEPT ![s] = Spent(ips[s])]
          /\ Spent(ips[s]) \in Entry /\ Spent(ips[s]).last = clock
          /\ Spent(ips[s]).tokens = Level(ips[s]) - Cost
      BY <2>2, AllowFacts
    <3>2. ips'[s] = Spent(ips[s]) /\ ips[s] # None /\ ips'[s] # None
      BY <3>1, TableAssumption DEF IInv, TypeOK
    <3>3. Level(ips'[s]) = Level(ips[s]) - Cost
      BY <1>1, <3>1, <3>2, LevelNow DEF Entry
    <3> QED BY <1>1, <2>2, <3>1, <3>2, <3>3 DEF LevelOf, BucketOf, Level
  <2> QED BY <2>1, <2>2
<1>3. ASSUME NEW r \in Sources \ {s} PROVE LevelOf(r)' = LevelOf(r)
  <2>1. CASE r = Overflow
    <3>1. overflow' = overflow
      BY <1>3, <2>1, AllowFacts
    <3> QED BY <1>1, <2>1, <3>1 DEF LevelOf, BucketOf, Level
  <2>2. CASE r # Overflow
    <3>1. r \in Ips
      BY <1>3, <2>2 DEF Sources
    <3>2. ips'[r] = ips[r]
      BY <1>3, <3>1, AllowFacts DEF IInv, TypeOK
    <3> QED BY <1>1, <2>2, <3>2 DEF LevelOf, BucketOf, Level
  <2> QED BY <2>1, <2>2
<1>4. [r \in Sources |-> LevelOf(r)'] =
        [[r \in Sources |-> LevelOf(r)] EXCEPT ![s] = LevelOf(s) - Cost]
  BY <1>1, <1>2, <1>3
<1>5. Buckets!Admit(s)
  BY <1>1, <1>2, <1>4 DEF Buckets!Admit, Allow
<1> QED BY <1>1, <1>5

LEMMA TickIsFill ==
  ASSUME IInv, Tick
  PROVE  Buckets!Fill
<1>1. clock \in Nat /\ clock' = clock + 1 /\ UNCHANGED <<ips, overflow, start, admitted>>
  BY DEF Tick, IInv, TypeOK
<1>2. ASSUME NEW s \in Sources PROVE LevelOf(s)' = Buckets!Capped(LevelOf(s) + Rate)
  <2>1. CASE s = Overflow
    <3>1. overflow.tokens \in 0..Full /\ overflow.last \in Nat /\ overflow.last <= clock
      BY DEF IInv, TypeOK, Bucket
    <3>2. Level(overflow)' = Buckets!Capped(Level(overflow) + Rate)
      BY <1>1, <3>1, FillsByRate DEF Level, Buckets!Capped
    <3> QED BY <2>1, <3>2 DEF LevelOf, BucketOf
  <2>2. CASE s # Overflow /\ ips[s] = None
    <3>1. Buckets!Capped(Full + Rate) = Full
      BY Amounts DEF Buckets!Capped
    <3> QED BY <1>1, <2>2, <3>1 DEF LevelOf
  <2>3. CASE s # Overflow /\ ips[s] # None
    <3>1. s \in Ips
      BY <2>3 DEF Sources
    <3>2. ips[s].tokens \in 0..Full /\ ips[s].last \in Nat /\ ips[s].last <= clock
      BY <2>3, <3>1 DEF IInv, TypeOK, EntriesTimely, Entry
    <3>3. Level(ips[s])' = Buckets!Capped(Level(ips[s]) + Rate)
      BY <1>1, <3>2, FillsByRate DEF Level, Buckets!Capped
    <3> QED BY <1>1, <2>3, <3>3 DEF LevelOf, BucketOf
  <2> QED BY <2>1, <2>2, <2>3
<1> QED BY <1>1, <1>2 DEF Buckets!Fill

LEMMA StepSimulation ==
  ASSUME IInv, FillsWhileIdle, [Next]_vars
  PROVE  [Buckets!Next]_(Buckets!vars)
<1>1. ASSUME NEW q \in Requests, NEW ip \in Ips, GetLimiter(q, ip)
      PROVE  UNCHANGED Buckets!vars
  BY <1>1, GetLimiterIsInvisible DEF Buckets!vars, GetLimiter
<1>2. ASSUME NEW q \in Requests, Allow(q) PROVE Buckets!Next
  BY <1>2, AllowIsAdmit DEF Buckets!Next
<1>3. ASSUME NEW q \in Requests, TooManyRequests(q) PROVE UNCHANGED Buckets!vars
  BY <1>3 DEF TooManyRequests, Buckets!vars, LevelOf, BucketOf, Level
<1>4. CASE Tick
  BY <1>4, TickIsFill DEF Buckets!Next
<1>5. CASE Observe
  BY <1>5 DEF Observe, Buckets!Next, Buckets!Observe, LevelOf, BucketOf, Level
<1>6. CASE UNCHANGED vars
  BY <1>6 DEF vars, Buckets!vars, LevelOf, BucketOf, Level
<1> QED BY <1>1, <1>2, <1>3, <1>4, <1>5, <1>6 DEF Next

\* With settings by which an idle bucket fills, nobody can tell the limiter
\* from one that keeps a bucket for every address for ever.
THEOREM Refinement ==
  ASSUME FillsWhileIdle
  PROVE  Spec => ImplementsTokenBuckets
<1>1. Init => Buckets!Init
  <2> SUFFICES ASSUME Init PROVE Buckets!Init
    OBVIOUS
  <2>1. Level(overflow) = Full
    BY LevelNow, Amounts DEF Init
  <2> QED BY <2>1 DEF Init, Buckets!Init, LevelOf, BucketOf, Sources
<1>2. IInv /\ [Next]_vars => [Buckets!Next]_(Buckets!vars)
  BY StepSimulation
<1> QED BY <1>1, <1>2, Invariance, PTL DEF Spec, Buckets!Spec, ImplementsTokenBuckets

-----------------------------------------------------------------------------
(* What the buckets promise, the limiter keeps *)

LEMMA BucketsTyped == Buckets!TypeOK /\ [Buckets!Next]_(Buckets!vars) => Buckets!TypeOK'
<1> DEFINE level == [s \in Sources |-> LevelOf(s)]
<1> SUFFICES ASSUME Buckets!TypeOK, [Buckets!Next]_(Buckets!vars) PROVE Buckets!TypeOK'
  OBVIOUS
<1>1. /\ clock \in Nat /\ start \in 0..clock
      /\ level \in [Sources -> 0..Full] /\ admitted \in [Sources -> Nat]
  BY DEF Buckets!TypeOK
<1>2. CASE Buckets!Fill
  <2>1. \A s \in Sources : Buckets!Capped(level[s] + Rate) \in 0..Full
    BY <1>1, Amounts DEF Buckets!Capped
  <2>2. level' \in [Sources -> 0..Full] /\ clock' = clock + 1 /\ UNCHANGED <<start, admitted>>
    BY <1>2, <2>1 DEF Buckets!Fill
  <2> QED BY <1>1, <2>2 DEF Buckets!TypeOK
<1>3. ASSUME NEW s \in Sources, Buckets!Admit(s) PROVE Buckets!TypeOK'
  <2>1. /\ level' = [level EXCEPT ![s] = @ - Cost] /\ level[s] >= Cost
        /\ admitted' = [admitted EXCEPT ![s] = @ + 1] /\ UNCHANGED <<clock, start>>
    BY <1>3 DEF Buckets!Admit
  <2>2. level[s] - Cost \in 0..Full
    BY <1>1, <2>1, Amounts
  <2>3. level' \in [Sources -> 0..Full] /\ admitted' \in [Sources -> Nat]
    <3>1. \A f, n : f \in [Sources -> 0..Full] /\ n \in 0..Full
                      => [f EXCEPT ![s] = n] \in [Sources -> 0..Full]
      OBVIOUS
    <3>2. admitted' \in [Sources -> Nat]
      BY <1>1, <2>1
    <3> HIDE DEF level
    <3> QED BY <1>1, <2>1, <2>2, <3>1, <3>2
  <2> QED BY <1>1, <2>1, <2>3 DEF Buckets!TypeOK
<1>4. CASE Buckets!Observe
  <2>1. level' = level /\ start' = clock /\ clock' = clock /\ admitted' = [s \in Sources |-> 0]
    BY <1>4 DEF Buckets!Observe
  <2> QED BY <1>1, <2>1 DEF Buckets!TypeOK
<1>5. CASE UNCHANGED Buckets!vars
  <2>1. level' = level /\ UNCHANGED <<clock, start, admitted>>
    BY <1>5 DEF Buckets!vars
  <2> QED BY <1>1, <2>1 DEF Buckets!TypeOK
<1> QED BY <1>2, <1>3, <1>4, <1>5 DEF Buckets!Next

LEMMA BucketsConserve ==
  Buckets!TypeOK /\ Buckets!Conserved /\ [Buckets!Next]_(Buckets!vars) => Buckets!Conserved'
<1> DEFINE level == [s \in Sources |-> LevelOf(s)]
<1> SUFFICES ASSUME Buckets!TypeOK, Buckets!Conserved, [Buckets!Next]_(Buckets!vars),
                    NEW s \in Sources
             PROVE  Cost * admitted'[s] + level'[s] <= Full + Rate * (clock' - start')
  BY DEF Buckets!Conserved
<1>1. /\ clock \in Nat /\ start \in Nat /\ clock - start \in Nat
      /\ level \in [Sources -> 0..Full] /\ admitted \in [Sources -> Nat]
  BY DEF Buckets!TypeOK
<1>2. Cost * admitted[s] + level[s] <= Full + Rate * (clock - start)
  BY DEF Buckets!Conserved
<1>3. /\ Cost * admitted[s] \in Nat /\ Rate * (clock - start) \in Nat
      /\ level[s] \in Int /\ level[s] <= Full
  BY <1>1, CostSteps, RateSteps, Amounts
<1>4. CASE Buckets!Fill
  <2>1. level'[s] = Buckets!Capped(level[s] + Rate) /\ clock' = clock + 1 /\ UNCHANGED <<start, admitted>>
    BY <1>4 DEF Buckets!Fill
  <2>2. level'[s] \in Int /\ level'[s] <= level[s] + Rate
    BY <1>3, <2>1, Amounts DEF Buckets!Capped
  <2>3. Rate * (clock' - start') = Rate * (clock - start) + Rate
    <3>1. clock' - start' = (clock - start) + 1
      BY <1>1, <2>1
    <3> QED BY <1>1, <3>1, RateSteps
  <2> QED BY <1>2, <1>3, <2>1, <2>2, <2>3, Amounts
<1>5. ASSUME NEW r \in Sources, Buckets!Admit(r)
      PROVE  Cost * admitted'[s] + level'[s] <= Full + Rate * (clock' - start')
  <2>1. /\ level' = [level EXCEPT ![r] = @ - Cost]
        /\ admitted' = [admitted EXCEPT ![r] = @ + 1] /\ UNCHANGED <<clock, start>>
    BY <1>5 DEF Buckets!Admit
  <2>2. CASE r = s
    <3>1. level'[s] = level[s] - Cost /\ admitted'[s] = admitted[s] + 1
      BY <1>1, <2>1, <2>2
    <3>2. Cost * admitted'[s] = Cost * admitted[s] + Cost
      BY <1>1, <3>1, CostSteps
    <3> QED BY <1>2, <1>3, <2>1, <3>1, <3>2, Amounts
  <2>3. CASE r # s
    BY <1>1, <1>2, <2>1, <2>3
  <2> QED BY <2>2, <2>3
<1>6. CASE Buckets!Observe
  <2>1. level' = level /\ start' = clock /\ clock' = clock /\ admitted'[s] = 0
    BY <1>6 DEF Buckets!Observe
  <2>2. Cost * admitted'[s] = 0 /\ Rate * (clock' - start') = 0
    <3>1. clock' - start' = 0 /\ \A n \in Nat : n * 0 = 0
      BY <1>1, <2>1
    <3> QED BY <2>1, <3>1, Amounts
  <2> QED BY <1>3, <2>1, <2>2, Amounts
<1>7. CASE UNCHANGED Buckets!vars
  BY <1>2, <1>7 DEF Buckets!vars
<1> QED BY <1>4, <1>5, <1>6, <1>7 DEF Buckets!Next

\* In no window is a source admitted for more than a burst and what the rate
\* brings, although its bucket comes and goes with the sweeps.
THEOREM RateHolds ==
  ASSUME FillsWhileIdle
  PROVE  Spec => []WithinRate
<1>1. Buckets!Spec => []Buckets!Conserved
  <2>1. Buckets!Init => Buckets!TypeOK /\ Buckets!Conserved
    <3> SUFFICES ASSUME Buckets!Init PROVE Buckets!TypeOK /\ Buckets!Conserved
      OBVIOUS
    <3>1. Cost * 0 = 0 /\ Rate * 0 = 0
      BY CostSteps, Amounts
    <3> QED BY <3>1, Amounts DEF Buckets!Init, Buckets!TypeOK, Buckets!Conserved
  <2> QED BY <2>1, BucketsTyped, BucketsConserve, PTL DEF Buckets!Spec
<1>2. Buckets!Spec => []Buckets!TypeOK
  <2>1. Buckets!Init => Buckets!TypeOK
    BY Amounts DEF Buckets!Init, Buckets!TypeOK
  <2> QED BY <2>1, BucketsTyped, PTL DEF Buckets!Spec
<1>3. Buckets!TypeOK /\ Buckets!Conserved => WithinRate
  <2> SUFFICES ASSUME Buckets!TypeOK, Buckets!Conserved, NEW s \in Sources
               PROVE  Cost * admitted[s] <= Full + Rate * (clock - start)
    BY DEF WithinRate
  <2> DEFINE level == [r \in Sources |-> LevelOf(r)]
  <2>1. /\ level[s] \in 0..Full /\ admitted[s] \in Nat /\ clock - start \in Nat
        /\ Cost * admitted[s] + level[s] <= Full + Rate * (clock - start)
    BY DEF Buckets!TypeOK, Buckets!Conserved
  <2>2. Cost * admitted[s] \in Nat /\ Rate * (clock - start) \in Nat
    BY <2>1, CostSteps, RateSteps
  <2> QED BY <2>1, <2>2, Amounts
<1> QED BY <1>1, <1>2, <1>3, Refinement, PTL DEF ImplementsTokenBuckets

-----------------------------------------------------------------------------
(* What an address gets from two buckets *)

SharedCounted == \A ip \in Ips : shared[ip] <= admitted[Overflow]

LEMMA NextShared == IInv /\ SharedCounted /\ [Next]_vars => SharedCounted'
<1> SUFFICES ASSUME IInv, SharedCounted, [Next]_vars PROVE SharedCounted'
  OBVIOUS
<1> USE DEF SharedCounted
<1>0. Overflow \in Sources /\ admitted \in [Sources -> Nat] /\ shared \in [Ips -> Nat]
  BY DEF IInv, TypeOK, Sources
<1>1. ASSUME NEW q \in Requests, Allow(q) PROVE SharedCounted'
  <2> PICK s : s = reqs[q].from
    OBVIOUS
  <2>1. s \in Sources /\ reqs[q].ip \in Ips /\ admitted' = [admitted EXCEPT ![s] = @ + 1]
    BY <1>1, AllowFacts DEF Allow, Request
  <2>2. CASE s = Overflow
    <3>1. shared' = [shared EXCEPT ![reqs[q].ip] = @ + 1]
      BY <1>1, <2>2 DEF Allow
    <3>2. admitted'[Overflow] = admitted[Overflow] + 1
      BY <1>0, <2>1, <2>2
    <3>3. \A ip \in Ips : shared'[ip] <= shared[ip] + 1
      BY <1>0, <2>1, <3>1
    <3>4. \A ip \in Ips : shared'[ip] \in Nat
      BY <1>0, <2>1, <3>1
    <3> QED BY <1>0, <3>2, <3>3, <3>4
  <2>3. CASE s # Overflow
    BY <1>0, <1>1, <2>1, <2>3 DEF Allow
  <2> QED BY <2>2, <2>3
<1>2. CASE Observe
  BY <1>0, <1>2 DEF Observe
<1>3. CASE UNCHANGED <<shared, admitted>>
  BY <1>3
<1> QED BY <1>1, <1>2, <1>3 DEF Next, vars, GetLimiter, TooManyRequests, Tick

\* config.example.yaml:52-53 states the settings per IP.  An address that the
\* overflow bucket answers first and its own bucket later may get more, but in
\* no window more than twice as much.
THEOREM AtMostTwice ==
  ASSUME FillsWhileIdle
  PROVE  Spec => [](\A ip \in Ips :
           Cost * (admitted[ip] + shared[ip]) <= 2 * (Full + Rate * (clock - start)))
<1>1. Init => SharedCounted
  BY DEF Init, SharedCounted, Sources
<1>2. ASSUME IInv, SharedCounted, WithinRate, NEW ip \in Ips
      PROVE  Cost * (admitted[ip] + shared[ip]) <= 2 * (Full + Rate * (clock - start))
  <2>1. /\ admitted[ip] \in Nat /\ admitted[Overflow] \in Nat /\ shared[ip] \in Nat
        /\ shared[ip] <= admitted[Overflow] /\ clock - start \in Nat
    BY <1>2 DEF IInv, TypeOK, SharedCounted, Sources
  <2>2. /\ Cost * admitted[ip] <= Full + Rate * (clock - start)
        /\ Cost * admitted[Overflow] <= Full + Rate * (clock - start)
    BY <1>2 DEF WithinRate, Sources
  <2>3. \A c, a, b, n \in Nat : b <= n => c * (a + b) <= c * a + c * n
    OBVIOUS
  <2>4. Cost * (admitted[ip] + shared[ip]) <= Cost * admitted[ip] + Cost * admitted[Overflow]
    BY <2>1, <2>3, Amounts
  <2>5. /\ Cost * (admitted[ip] + shared[ip]) \in Nat /\ Cost * admitted[ip] \in Nat
        /\ Cost * admitted[Overflow] \in Nat /\ Rate * (clock - start) \in Nat
    BY <2>1, CostSteps, RateSteps
  <2> QED BY <2>2, <2>4, <2>5, Amounts
<1>3. IInv /\ SharedCounted /\ WithinRate
        => \A ip \in Ips : Cost * (admitted[ip] + shared[ip]) <= 2 * (Full + Rate * (clock - start))
  BY <1>2
<1> QED BY <1>1, <1>3, NextShared, Invariance, RateHolds, PTL DEF Spec
=============================================================================
