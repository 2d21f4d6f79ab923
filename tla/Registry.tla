------------------------------- MODULE Registry -------------------------------
(***************************************************************************)
(* The registry of internal/registry/store.go: owner-signed registrations  *)
(* with a lease, the cleanup worker, the administrator's evictions, legacy *)
(* rows, and the resolve handler under the forwarding policy.              *)
(*                                                                         *)
(* A request may arrive at any time, any number of times and in any order; *)
(* only the admission window of its signed timestamp limits it.            *)
(* RegisterWithSignature is two steps: validation and `now` are taken      *)
(* before s.mu, the comparison and the upsert are one critical section.    *)
(* The HTTP resolve handler is two steps: the forwarding predicate reads   *)
(* the record, then ResolveEntry reads it again.                           *)
(*                                                                         *)
(* Abstractions.  The owner's key determines the PeerID and the URN        *)
(* (ValidateRegistration, external), so a record is its timestamp and its  *)
(* storage claim.  Address hints are unsigned and left out.  The cleanup   *)
(* worker takes no lock, but its DELETE is one statement.                  *)
(***************************************************************************)
EXTENDS Naturals

CONSTANTS
    Urns,
    Past, Future, \* admission window of a signed timestamp: 300 s and 60 s
    Ttls,         \* lease durations an operator may configure
    Stall,        \* bound on how long a registration waits for s.mu and SQLite
    Legacy,       \* rows an older database may hold when the model starts
    Calls,        \* concurrent registrations
    Resolves,     \* concurrent resolve requests
    MaxTime,      \* bound on the clock
    None          \* no row, no request

Row == [ts : Nat, stores : BOOLEAN, authentic : BOOLEAN, expires : Nat]

Call == [urn : Urns, ts : Nat, stores : BOOLEAN, now : Nat]

\* History fields.  off: the check read the record and forwarding has been
\* disabled since; since: the newest timestamp accepted before the check (0 once
\* the row is removed).
Resolve == [urn : Urns, at : {"checked", "answered"}, off : BOOLEAN, since : Nat,
            answer : Row \cup {None}]

\* A lease outlives every signature that was fresh when it was granted.  The
\* console refuses ttl_hours below one hour; the window is six minutes.
ASSUME WindowAssumption ==
    /\ Past \in Nat /\ Future \in Nat /\ Stall \in Nat
    /\ Ttls \subseteq Nat
    /\ \A t \in Ttls : t > Past + Future + Stall

ASSUME InputsAssumption ==
    /\ Legacy \subseteq Row
    /\ MaxTime \in Nat
    /\ None \notin Row \cup Call \cup Resolve
    /\ None \notin [urn : Urns, done : BOOLEAN, answer : Row \cup {None}]

VARIABLES
    clock,
    ttl,      \* s.ttl of the running process
    forward,  \* policies.ForwardToStoragePlatforms
    rows,     \* the registry table
    calls,    \* registrations between validation and critical section
    resolves, \* resolve requests
    newest,   \* history: latest timestamp accepted since an administrator
              \* last removed the row; 0: none
    lease     \* history: when the last accepted registration's lease ends

vars == <<clock, ttl, forward, rows, calls, resolves, newest, lease>>

-----------------------------------------------------------------------------
\* registry.ValidateRegistration's bounds on the timestamp.
Fresh(ts) == ts > 0 /\ ts + Past >= clock /\ ts <= clock + Future

\* Variant: reads ask for a fresh signature too.
ResolvableFresh(row) ==
    row # None /\ row.expires > clock /\ row.authentic /\ Fresh(row.ts)

\* ResolveEntry and ListEntries return the row.
Resolvable(row) == row # None /\ row.expires > clock /\ row.authentic

Init ==
    /\ clock = 1
    /\ ttl \in Ttls
    /\ forward \in BOOLEAN
    /\ rows \in [Urns -> Legacy \cup {None}]
    /\ calls = [c \in Calls |-> None]
    /\ resolves = [q \in Resolves |-> None]
    /\ newest = [u \in Urns |-> 0]
    /\ lease = [u \in Urns |-> 0]

-----------------------------------------------------------------------------
RegisterCheck(c, u, ts, stores) ==
    /\ calls[c] = None
    /\ Fresh(ts)
    /\ calls' = [calls EXCEPT ![c] = [urn |-> u, ts |-> ts, stores |-> stores, now |-> clock]]
    /\ UNCHANGED <<clock, ttl, forward, rows, resolves, newest, lease>>

\* Variants: a poisoned row blocks its owner; expired rows do not count; every
\* fresh signature is accepted.
OlderThanAnyRow(c) ==
    LET old == rows[calls[c].urn] IN old # None /\ calls[c].ts < old.ts
NeverOlder(c) == FALSE

\* The current row is authentic and newer.
Older(c) ==
    LET old == rows[calls[c].urn]
    IN  old # None /\ calls[c].ts < old.ts /\ old.authentic

\* Variant: the upsert's SET list lacks expires_at.
UpsertKeepingExpiry(r) ==
    [ts |-> r.ts, stores |-> r.stores, authentic |-> TRUE,
     expires |-> IF rows[r.urn] = None THEN r.now + ttl ELSE rows[r.urn].expires]

Upsert(r) ==
    [ts |-> r.ts, stores |-> r.stores, authentic |-> TRUE, expires |-> r.now + ttl]

RegisterWrite(c) ==
    LET r == calls[c]
    IN  /\ r # None
        /\ ~Older(c)
        /\ rows' = [rows EXCEPT ![r.urn] = Upsert(r)]
        /\ newest' = [newest EXCEPT ![r.urn] = IF r.ts > @ THEN r.ts ELSE @]
        /\ lease' = [lease EXCEPT ![r.urn] = r.now + ttl]
        /\ calls' = [calls EXCEPT ![c] = None]
        /\ UNCHANGED <<clock, ttl, forward, resolves>>

RegisterRefuse(c) ==
    /\ calls[c] # None
    /\ Older(c)
    /\ calls' = [calls EXCEPT ![c] = None]
    /\ UNCHANGED <<clock, ttl, forward, rows, resolves, newest, lease>>

\* A database error.
RegisterFail(c) ==
    /\ calls[c] # None
    /\ calls' = [calls EXCEPT ![c] = None]
    /\ UNCHANGED <<clock, ttl, forward, rows, resolves, newest, lease>>

-----------------------------------------------------------------------------
\* ForwardToStoragePlatforms, or no record, or one that stores nothing, or a
\* read that failed, which lets the request on.
ResolveCheck(q, u) ==
    /\ resolves[q] = None
    /\ \E read \in BOOLEAN :
         /\ read /\ Resolvable(rows[u]) /\ rows[u].stores => forward
         /\ resolves' = [resolves EXCEPT ![q] =
                            [urn |-> u, at |-> "checked", off |-> read /\ ~forward,
                             since |-> newest[u], answer |-> None]]
    /\ UNCHANGED <<clock, ttl, forward, rows, calls, newest, lease>>

ResolveAnswer(q) ==
    /\ resolves[q] # None /\ resolves[q].at = "checked"
    /\ LET row == rows[resolves[q].urn]
       IN  resolves' = [resolves EXCEPT ![q].at = "answered",
                            ![q].answer = IF Resolvable(row) THEN row ELSE None]
    /\ UNCHANGED <<clock, ttl, forward, rows, calls, newest, lease>>

\* Answered, or the second read failed.
ResolveReturn(q) ==
    /\ resolves[q] # None
    /\ resolves' = [resolves EXCEPT ![q] = None]
    /\ UNCHANGED <<clock, ttl, forward, rows, calls, newest, lease>>

SetForwarding ==
    /\ forward' = ~forward
    /\ resolves' = [q \in Resolves |->
                       IF resolves[q] = None THEN None
                       ELSE [resolves[q] EXCEPT !.off = FALSE]]
    /\ UNCHANGED <<clock, ttl, rows, calls, newest, lease>>

-----------------------------------------------------------------------------
\* EvictEntry for one URN, ClearAllEntries for all of them.
Remove(gone) ==
    /\ rows' = [u \in Urns |-> IF u \in gone THEN None ELSE rows[u]]
    /\ newest' = [u \in Urns |-> IF u \in gone THEN 0 ELSE newest[u]]
    /\ lease' = [u \in Urns |-> IF u \in gone THEN 0 ELSE lease[u]]
    /\ resolves' = [q \in Resolves |->
                       IF resolves[q] = None \/ resolves[q].urn \notin gone THEN resolves[q]
                       ELSE [resolves[q] EXCEPT !.since = 0]]
    /\ UNCHANGED <<clock, ttl, forward, calls>>

EvictEntry(u) == Remove({u})

ClearAllEntries == Remove(Urns)

\* Variant: the worker goes by the age of the signature.
Stale(row) == row.ts > 0 /\ row.ts + Past < clock

Expired(row) == row.expires > 0 /\ row.expires < clock

Cleanup ==
    /\ rows' = [u \in Urns |-> IF rows[u] # None /\ Expired(rows[u]) THEN None ELSE rows[u]]
    /\ UNCHANGED <<clock, ttl, forward, calls, resolves, newest, lease>>

\* The process ends and NewStore opens the table again, perhaps with another
\* registry.ttl_hours; expiry times in the table stay.
Restart ==
    /\ ttl' \in Ttls
    /\ calls' = [c \in Calls |-> None]
    /\ resolves' = [q \in Resolves |-> None]
    /\ UNCHANGED <<clock, forward, rows, newest, lease>>

Tick ==
    /\ clock < MaxTime
    /\ \A c \in Calls : calls[c] # None => clock < calls[c].now + Stall
    /\ clock' = clock + 1
    /\ UNCHANGED <<ttl, forward, rows, calls, resolves, newest, lease>>

Next ==
    \/ \E c \in Calls :
         \/ \E u \in Urns, ts \in 1..(clock + Future), stores \in BOOLEAN :
              RegisterCheck(c, u, ts, stores)
         \/ RegisterWrite(c) \/ RegisterRefuse(c) \/ RegisterFail(c)
    \/ \E q \in Resolves :
         (\E u \in Urns : ResolveCheck(q, u)) \/ ResolveAnswer(q) \/ ResolveReturn(q)
    \/ SetForwarding
    \/ \E u \in Urns : EvictEntry(u)
    \/ ClearAllEntries
    \/ Cleanup \/ Restart \/ Tick

Spec == Init /\ [][Next]_vars

-----------------------------------------------------------------------------
(* Properties *)

\* Every variable has its type.
TypeOK ==
    /\ clock \in Nat
    /\ ttl \in Ttls
    /\ forward \in BOOLEAN
    /\ rows \in [Urns -> Row \cup {None}]
    /\ calls \in [Calls -> Call \cup {None}]
    /\ resolves \in [Resolves -> Resolve \cup {None}]
    /\ newest \in [Urns -> Nat]
    /\ lease \in [Urns -> Nat]

\* store.go:144: a captured, still-fresh signature never rolls a record back:
\* what is served is at least as new as anything accepted since an
\* administrator removed the row, also when the newer row has expired and the
\* cleanup worker deleted it meanwhile.
NeverRolledBack ==
    \A u \in Urns : Resolvable(rows[u]) => rows[u].ts >= newest[u]

\* An accepted registration stays resolvable to the end of its lease, however
\* old its signature grows and whatever the cleanup worker does, unless an
\* administrator removes it.
LeaseKept ==
    \A u \in Urns : clock < lease[u] => Resolvable(rows[u])

\* A poisoned or unsigned row never locks the owner out: when a registration
\* is decided the table holds an authentic record at least as new as it.
OwnerRecovers ==
    [][\A c \in Calls :
         RegisterWrite(c) \/ RegisterRefuse(c)
         => LET row == rows'[calls[c].urn]
            IN  row # None /\ row.authentic /\ row.ts >= calls[c].ts]_vars

\* A resolve request never answers with a record older than one that was
\* accepted before the request arrived.
ReadsNeverGoBack ==
    \A q \in Resolves :
        resolves[q] # None /\ resolves[q].answer # None
        => resolves[q].answer.ts >= resolves[q].since

\* What a URN serves, and what a resolve request has been told.
Serves(u) == IF Resolvable(rows[u]) THEN rows[u] ELSE None

Told(q) ==
    IF resolves[q] = None THEN None
    ELSE [urn |-> resolves[q].urn, done |-> resolves[q].at = "answered",
          answer |-> resolves[q].answer]

Dir == INSTANCE Directory WITH
    Readers <- Resolves,
    served <- [u \in Urns |-> Serves(u)],
    floor <- newest,
    reads <- [q \in Resolves |-> Told(q)]

\* The table with its legacy rows, clean-up, late and repeated registrations
\* and restarts is one record per URN that only newer ones replace, that lasts
\* as long as its lease, and that readers see at one moment.
ImplementsDirectory == Dir!Spec

\* config.example.yaml:5: forward_to_storage_platforms is "Whether the platform
\* allows forwarding/connecting to other platforms that store user data": while
\* it is off the registry hands out no such platform's record.
NoStoringPlatformResolved ==
    \A q \in Resolves :
        resolves[q] # None /\ resolves[q].off /\ resolves[q].answer # None
        => ~resolves[q].answer.stores
=============================================================================
