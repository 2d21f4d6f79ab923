------------------------------ MODULE RateLimiter ------------------------------
(***************************************************************************)
(* IPRateLimiter of internal/api/server.go: a token bucket per address in  *)
(* a table of bounded size, which drops what has been idle, and one bucket *)
(* for all addresses that found the table full.                            *)
(*                                                                         *)
(* A request is two steps: GetLimiter under i.mu, then Allow on the bucket *)
(* it was given, under that bucket's own lock; others run in between.      *)
(*                                                                         *)
(* Abstractions.  The bucket is golang.org/x/time/rate (external), as a    *)
(* count of tokens at an instant.  Its floating-point numbers are integers *)
(* here: a unit of time brings Rate, a request costs Cost, so any rational *)
(* rate can be stated.  Addresses are what limitMiddleware made of the     *)
(* peer and its proxies.  The limiter is in memory: one process.           *)
(***************************************************************************)
EXTENDS Integers, FiniteSets

CONSTANTS
    Ips, Requests,
    Burst, Rate, Cost,  \* b, and r = Rate/Cost requests per unit of time
    MaxTracked,         \* maxTrackedIPs, 10000
    Idle,               \* 10 minutes
    Period,             \* a minute between two sweeps of the table
    Stall,              \* bound on the time between GetLimiter and Allow
    MaxTime,            \* bound on the clock
    Overflow,           \* the bucket of those who found the table full
    None                \* not in the table, no request

Full == Burst * Cost

Bucket == [tokens : 0..Full, last : Nat]

Entry == [tokens : 0..Full, last : Nat, seen : Nat]

Request == [ip : Ips, from : Ips \cup {Overflow}, since : Nat]

ASSUME RateAssumption ==
    /\ Burst \in Nat \ {0} /\ Rate \in Nat \ {0} /\ Cost \in Nat \ {0}

\* No request lies between its two statements while its bucket goes idle.
ASSUME TimesAssumption ==
    /\ Idle \in Nat /\ Period \in Nat /\ Stall \in Nat /\ MaxTime \in Nat
    /\ Stall <= Idle

ASSUME TableAssumption ==
    /\ MaxTracked \in Nat
    /\ Overflow \notin Ips
    /\ None \notin Entry \cup Request

VARIABLES
    clock,
    ips,          \* the maps ips and lastSeen, which have the same keys
    nextCleanup,
    overflow,
    reqs,         \* requests between GetLimiter and Allow
    start,        \* history: beginning of a window of observation
    admitted,     \* history: requests each bucket admitted in the window
    shared        \* history: those of them Overflow admitted for each address

vars == <<clock, ips, nextCleanup, overflow, reqs, start, admitted, shared>>

Sources == Ips \cup {Overflow}

-----------------------------------------------------------------------------
(* The buckets *)

\* The tokens of a bucket now.
Level(b) ==
    LET n == b.tokens + Rate * (clock - b.last) IN IF n <= Full THEN n ELSE Full

Spent(b) == [b EXCEPT !.tokens = Level(b) - Cost, !.last = clock]

Init ==
    /\ clock = 0 /\ nextCleanup = 0 /\ start = 0
    /\ ips = [ip \in Ips |-> None]
    /\ overflow = [tokens |-> Full, last |-> 0]
    /\ reqs = [q \in Requests |-> None]
    /\ admitted = [s \in Sources |-> 0]
    /\ shared = [ip \in Ips |-> 0]

-----------------------------------------------------------------------------
(* GetLimiter *)

\* Variant: an entry goes when it was not seen since the last sweep.
StaleSinceSweep(e) == clock - e.seen >= Period

Stale(e) == clock - e.seen > Idle

\* What the sweep, when one is due, leaves of the table.
Swept ==
    [ip \in Ips |->
        IF clock >= nextCleanup /\ ips[ip] # None /\ Stale(ips[ip]) THEN None ELSE ips[ip]]

Tracked(table) == {ip \in Ips : table[ip] # None}

\* Variant: one entry too many.
HasRoomForOneMore(table) == Cardinality(Tracked(table)) <= MaxTracked

HasRoom(table) == Cardinality(Tracked(table)) < MaxTracked

Seen(e) == [e EXCEPT !.seen = clock]

Fresh == [tokens |-> Full, last |-> clock, seen |-> clock]

Given(q, ip, s) ==
    reqs' = [reqs EXCEPT ![q] = [ip |-> ip, from |-> s, since |-> clock]]

GetLimiter(q, ip) ==
    /\ reqs[q] = None
    /\ nextCleanup' = IF clock >= nextCleanup THEN clock + Period ELSE nextCleanup
    /\ \/ /\ Swept[ip] # None
          /\ ips' = [Swept EXCEPT ![ip] = Seen(Swept[ip])]
          /\ Given(q, ip, ip)
       \/ /\ Swept[ip] = None /\ HasRoom(Swept)
          /\ ips' = [Swept EXCEPT ![ip] = Fresh]
          /\ Given(q, ip, ip)
       \/ /\ Swept[ip] = None /\ ~HasRoom(Swept)
          /\ ips' = Swept
          /\ Given(q, ip, Overflow)
    /\ UNCHANGED <<clock, overflow, start, admitted, shared>>

-----------------------------------------------------------------------------
(* Allow *)

BucketOf(s) == IF s = Overflow THEN overflow ELSE ips[s]

Allow(q) ==
    /\ reqs[q] # None
    /\ LET s == reqs[q].from
           ip == reqs[q].ip
       IN  /\ Level(BucketOf(s)) >= Cost
           /\ IF s = Overflow
              THEN /\ overflow' = Spent(overflow)
                   /\ shared' = [shared EXCEPT ![ip] = @ + 1]
                   /\ UNCHANGED ips
              ELSE /\ ips' = [ips EXCEPT ![s] = Spent(ips[s])]
                   /\ UNCHANGED <<overflow, shared>>
           /\ admitted' = [admitted EXCEPT ![s] = @ + 1]
    /\ reqs' = [reqs EXCEPT ![q] = None]
    /\ UNCHANGED <<clock, nextCleanup, start>>

TooManyRequests(q) ==
    /\ reqs[q] # None
    /\ Level(BucketOf(reqs[q].from)) < Cost
    /\ reqs' = [reqs EXCEPT ![q] = None]
    /\ UNCHANGED <<clock, ips, nextCleanup, overflow, start, admitted, shared>>

-----------------------------------------------------------------------------
Tick ==
    /\ clock < MaxTime
    /\ \A q \in Requests : reqs[q] # None => clock < reqs[q].since + Stall
    /\ clock' = clock + 1
    /\ UNCHANGED <<ips, nextCleanup, overflow, reqs, start, admitted, shared>>

\* History: a window opens, at any time.
Observe ==
    /\ start' = clock
    /\ admitted' = [s \in Sources |-> 0]
    /\ shared' = [ip \in Ips |-> 0]
    /\ UNCHANGED <<clock, ips, nextCleanup, overflow, reqs>>

Next ==
    \/ \E q \in Requests :
         Allow(q) \/ TooManyRequests(q) \/ \E ip \in Ips : GetLimiter(q, ip)
    \/ Tick \/ Observe

Spec == Init /\ [][Next]_vars

-----------------------------------------------------------------------------
(* Properties *)

\* The types; no bucket exceeds the burst.
TypeOK ==
    /\ clock \in Nat /\ nextCleanup \in Nat /\ start \in 0..clock
    /\ ips \in [Ips -> Entry \cup {None}]
    /\ overflow \in Bucket
    /\ reqs \in [Requests -> Request \cup {None}]
    /\ admitted \in [Sources -> Nat]
    /\ shared \in [Ips -> Nat]

\* docs/guides/SECURITY.md:43: the table holds no more addresses than
\* maxTrackedIPs, whatever arrives between two sweeps.
TableBounded ==
    IsFiniteSet(Tracked(ips)) /\ Cardinality(Tracked(ips)) <= MaxTracked

\* An idle bucket is full again when it is dropped.  The code does not check
\* that its settings are such (10 minutes, 10 per second and 20 by default).
FillsWhileIdle == Full <= Rate * (Idle - Stall)

\* server.go:285, "rotating IPs must not reset their quota": in no window does
\* a source get more than a burst and what the rate allows, although its
\* bucket comes and goes with the sweeps.
WithinRate ==
    \A s \in Sources : Cost * admitted[s] <= Full + Rate * (clock - start)

\* The bucket a source would have if none was ever dropped.
LevelOf(s) ==
    IF s # Overflow /\ ips[s] = None THEN Full ELSE Level(BucketOf(s))

Buckets == INSTANCE TokenBuckets WITH level <- [s \in Sources |-> LevelOf(s)]

\* The table, its sweeps and the requests under way cannot be told from a
\* bucket for every address that is never dropped.
ImplementsTokenBuckets == Buckets!Spec
=============================================================================
