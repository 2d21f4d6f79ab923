--------------------------- MODULE ManagedMailbox ---------------------------
(***************************************************************************)
(* The v1 mailbox of internal/mq/store.go under the signed v2 policy of    *)
(* internal/mq/v2_store.go: which v1 envelopes are admitted, delivered and *)
(* acknowledged while policies are switched, managed certificates are      *)
(* enrolled, renewed and revoked, an administrator deletes rows, and the   *)
(* process is restarted.                                                   *)
(*                                                                         *)
(* Granularity.  Every SQLite transaction is one step: the store has one   *)
(* connection (SetMaxOpenConns(1)).  StoreEnvelope is four steps (fast     *)
(* check, time stamp, transaction, notification), Ack under a strict       *)
(* policy is two (inspection, UPDATE), EnableV2Policy is two (COMMIT, copy *)
(* to memory).  s.mu is held exactly where the code holds it.              *)
(*                                                                         *)
(* Abstractions.  Seconds and nanoseconds are one clock, and reading       *)
(* UnixNano for a row advances it: no two rows carry the same stamp.  A    *)
(* URN determines its public key (crypto.VerifyEnvelope and                *)
(* VerifyManagedCertificate, external, enforce it), so key comparisons are *)
(* left out.  Refusals that leave no trace (quota, ID conflict, disabled   *)
(* storage, a cancelled request) are StoreReturn.                          *)
(***************************************************************************)
EXTENDS Naturals

CONSTANTS
    Urns, Ids, Serials, Issuers, Hashes,
    Policies,   \* the signed policies an operator can load
    Certs,      \* the managed certificates issuers have signed
    Routes,     \* <<sender, recipient>> of the envelopes clients send
    Legacy,     \* rows a pre-v2 database may hold when the model starts
    Lifetimes,  \* delivery lifetimes, all within the default TTL
    Stores,     \* concurrent StoreEnvelope calls
    Acks,       \* concurrent Ack calls
    LiveSwitch, \* may EnableV2Policy run while requests are served, or only at
                \* boot as cmd/platform/main.go calls it?
    MaxTime,    \* bound on the clock
    None        \* "no such row", "idle", NULL

\* v2_policy_state columns; the hash stands for the whole signed document.
Policy == [epoch : Nat \ {0}, hash : Hashes, expiry : Nat, require : BOOLEAN,
           issuer : Issuers \cup {None}]

Certificate == [serial : Serials, urn : Urns, issuer : Issuers,
                notBefore : Nat, expires : Nat]

Grant == [serial : Serials, issuer : Issuers, notBefore : Nat, expires : Nat,
          enrolled : Nat, revoked : BOOLEAN]

\* certified is a history field: at the row's stamp its sender or recipient
\* held a live certificate.  No action reads it.
Row == [sender : Urns, recipient : Urns, stamp : Nat, expiry : Nat,
        read : BOOLEAN, certified : BOOLEAN]

Call == [id : Ids, sender : Urns, recipient : Urns, stamp : Nat, expiry : Nat,
         certified : BOOLEAN, at : {"checked", "stamped", "stored"}]

Ack == [recipient : Urns, picked : SUBSET (Ids \X Nat)]

ASSUME PoliciesAssumption ==
    /\ Policies \subseteq Policy
    /\ \A p, q \in Policies : p.hash = q.hash => p = q

ASSUME InputsAssumption ==
    /\ Certs \subseteq Certificate
    /\ Routes \subseteq Urns \X Urns
    /\ Lifetimes \subseteq Nat \ {0}
    /\ MaxTime \in Nat
    /\ LiveSwitch \in BOOLEAN
    /\ None \notin Policy \cup Grant \cup Row \cup Call \cup Ack \cup Issuers

\* Rows written before the stored_at_ns column existed read it as 0.
ASSUME LegacyAssumption ==
    \A r \in Legacy : r \in Row /\ r.stamp = 0 /\ ~r.certified

VARIABLES
    clock,
    pin,          \* the v2_policy_state row
    grants,       \* v2_managed_identities, by URN
    revocations,  \* v2_managed_revocations
    rows,         \* messages, by ID
    mem,          \* v2Required, and the policy whose hash, expiry and issuer
                  \* the Store holds (None: only v2Required was reloaded)
    publishing,   \* the policy EnableV2Policy has committed but not yet
                  \* copied to memory; s.mu is write-locked meanwhile
    calls,        \* StoreEnvelope calls in progress
    acks          \* strict Ack calls between inspection and UPDATE; each
                  \* holds s.mu.RLock

vars == <<clock, pin, grants, revocations, rows, mem, publishing, calls, acks>>

-----------------------------------------------------------------------------
Writable == publishing = None /\ \A a \in Acks : acks[a] = None
Readable == publishing = None

Unread(row) == row # None /\ ~row.read /\ (row.expiry = 0 \/ row.expiry > clock)

Strict(p) == p # None /\ p.require

\* managedGrant.permits together with the issuer filter of loadManagedGrant.
Permits(g, stamp) ==
    /\ g # None
    /\ g.issuer = mem.policy.issuer
    /\ ~g.revoked
    /\ stamp # 0
    /\ stamp >= g.notBefore
    /\ stamp >= g.enrolled
    /\ stamp < g.expires
    /\ clock < g.expires

IsManagedAt(u, stamp) ==
    /\ mem.policy # None
    /\ mem.policy.issuer # None
    /\ clock < mem.policy.expiry
    /\ Permits(grants[u], stamp)

\* What RetrieveEntry returns of one unread row, what Ack may select and what
\* NotifySubscribers pushes.
Deliverable(row) ==
    mem.required => \/ IsManagedAt(row.recipient, row.stamp)
                    \/ IsManagedAt(row.sender, row.stamp)

\* A certificate held now: enrolled, not revoked, not expired.
Live(u) == grants[u] # None /\ ~grants[u].revoked /\ clock < grants[u].expires

Init ==
    /\ clock = 1
    /\ pin = None
    /\ grants = [u \in Urns |-> None]
    /\ revocations = {}
    /\ rows \in [Ids -> Legacy \cup {None}]
    /\ mem = [required |-> FALSE, policy |-> None]
    /\ publishing = None
    /\ calls = [c \in Stores |-> None]
    /\ acks = [a \in Acks |-> None]

-----------------------------------------------------------------------------
(* Policy and process *)

\* Variant: the epoch alone is compared, with <.
SupersedesByEpoch(p) == pin # None => p.epoch >= pin.epoch

\* epoch < oldEpoch || epoch == oldEpoch && hash != oldHash is refused.
Supersedes(p) ==
    pin # None => p.epoch > pin.epoch \/ (p.epoch = pin.epoch /\ p.hash = pin.hash)

PolicyCommit(p) ==
    /\ Writable
    /\ ~LiveSwitch => mem.policy = None /\ \A c \in Stores : calls[c] = None
    /\ clock < p.expiry
    /\ Supersedes(p)
    /\ pin' = p
    /\ publishing' = p
    /\ UNCHANGED <<clock, grants, revocations, rows, mem, calls, acks>>

PolicyPublish ==
    /\ publishing # None
    /\ mem' = [required |-> publishing.require, policy |-> publishing]
    /\ publishing' = None
    /\ UNCHANGED <<clock, pin, grants, revocations, rows, calls, acks>>

\* Variant: NewStore forgets require_v2.
ReopenedOpen == [required |-> FALSE, policy |-> None]

\* The Store NewStore builds: it reloads require_v2 and nothing else.
Reopened == [required |-> Strict(pin), policy |-> None]

\* The process dies at any point and NewStore opens the database again.
Restart ==
    /\ mem' = Reopened
    /\ publishing' = None
    /\ calls' = [c \in Stores |-> None]
    /\ acks' = [a \in Acks |-> None]
    /\ UNCHANGED <<clock, pin, grants, revocations, rows>>

Tick ==
    /\ clock < MaxTime
    /\ clock' = clock + 1
    /\ UNCHANGED <<pin, grants, revocations, rows, mem, publishing, calls, acks>>

-----------------------------------------------------------------------------
(* Managed certificates *)

\* Variants: a re-enrolment never keeps the old time; or always.
EnrolledNow(c) == clock
EnrolledOnce(c) == IF grants[c.urn] # None THEN grants[c.urn].enrolled ELSE clock

\* enrolled_at_ns survives a renewal only if the certificate it replaces is
\* still good under the same issuer.
EnrolledAt(c) ==
    LET old == grants[c.urn]
    IN  IF old # None /\ Live(c.urn) /\ old.issuer = c.issuer
        THEN old.enrolled
        ELSE clock

\* Variant: the revocation list is not consulted.
MayEnrollRevoked(c) ==
    /\ c.notBefore <= clock /\ clock < c.expires
    /\ mem.policy # None /\ mem.policy.issuer = c.issuer
    /\ pin # None /\ pin.issuer = c.issuer /\ clock < pin.expiry
    /\ \A u \in Urns \ {c.urn} : grants[u] # None => grants[u].serial # c.serial

MayEnroll(c) ==
    /\ c.notBefore <= clock /\ clock < c.expires
    /\ mem.policy # None /\ mem.policy.issuer = c.issuer
    /\ pin # None /\ pin.issuer = c.issuer /\ clock < pin.expiry
    /\ c.serial \notin revocations
    /\ \A u \in Urns \ {c.urn} : grants[u] # None => grants[u].serial # c.serial

EnrollManaged(c) ==
    /\ MayEnroll(c)
    /\ grants' = [grants EXCEPT ![c.urn] =
           [serial |-> c.serial, issuer |-> c.issuer, notBefore |-> c.notBefore,
            expires |-> c.expires, enrolled |-> EnrolledAt(c), revoked |-> FALSE]]
    /\ UNCHANGED <<clock, pin, revocations, rows, mem, publishing, calls, acks>>

\* The serial is recorded whether or not a grant carries it now.
RevokeManaged(s) ==
    /\ Writable
    /\ mem.policy # None
    /\ revocations' = revocations \cup {s}
    /\ grants' = [u \in Urns |->
           IF grants[u] # None /\ grants[u].serial = s
           THEN [grants[u] EXCEPT !.revoked = TRUE]
           ELSE grants[u]]
    /\ UNCHANGED <<clock, pin, rows, mem, publishing, calls, acks>>

-----------------------------------------------------------------------------
(* StoreEnvelope *)

\* Variant: only the transaction checks the policy.
PassesUnchecked(s, r) == TRUE

PassesFastCheck(s, r) ==
    mem.required => IsManagedAt(s, clock) \/ IsManagedAt(r, clock)

\* Signature, sender and size have been verified; only the policy is shared.
StoreCheck(c, i, s, r) ==
    /\ calls[c] = None
    /\ Readable
    /\ PassesFastCheck(s, r)
    /\ calls' = [calls EXCEPT ![c] =
           [id |-> i, sender |-> s, recipient |-> r, stamp |-> 0, expiry |-> 0,
            certified |-> FALSE, at |-> "checked"]]
    /\ UNCHANGED <<clock, pin, grants, revocations, rows, mem, publishing, acks>>

\* The expiry clamp and storedAt := time.Now(), before the transaction begins.
StoreStamp(c, life) ==
    /\ calls[c] # None
    /\ calls[c].at = "checked"
    /\ clock < MaxTime
    /\ calls' = [calls EXCEPT
           ![c].stamp = clock,
           ![c].expiry = clock + life,
           ![c].certified = Live(calls[c].sender) \/ Live(calls[c].recipient),
           ![c].at = "stamped"]
    /\ clock' = clock + 1
    /\ UNCHANGED <<pin, grants, revocations, rows, mem, publishing, acks>>

\* Variant: the transaction trusts the fast check and only reads the expiry.
PinExpiryOnly(s, r) == pin # None => clock < pin.expiry

\* The policy is read again from the database, in the inserting transaction.
ManagedInTx(u) ==
    /\ Live(u)
    /\ grants[u].issuer = pin.issuer
    /\ grants[u].notBefore <= clock
    /\ grants[u].enrolled <= clock

PinAllows(s, r) ==
    pin # None => /\ clock < pin.expiry
                  /\ pin.require => ManagedInTx(s) \/ ManagedInTx(r)

StoreInsert(c) ==
    LET call == calls[c]
    IN  /\ call # None
        /\ call.at = "stamped"
        /\ PinAllows(call.sender, call.recipient)
        /\ rows[call.id] = None
        /\ rows' = [rows EXCEPT ![call.id] =
               [sender |-> call.sender, recipient |-> call.recipient,
                stamp |-> call.stamp, expiry |-> call.expiry, read |-> FALSE,
                certified |-> call.certified]]
        /\ calls' = [calls EXCEPT ![c].at = "stored"]
        /\ UNCHANGED <<clock, pin, grants, revocations, mem, publishing, acks>>

\* A duplicate, a refusal or an error: the transaction leaves no trace.
StoreReturn(c) ==
    /\ calls[c] # None
    /\ calls[c].at # "stored"
    /\ calls' = [calls EXCEPT ![c] = None]
    /\ UNCHANGED <<clock, pin, grants, revocations, rows, mem, publishing, acks>>

NotifySubscribers(c) ==
    /\ calls[c] # None
    /\ calls[c].at = "stored"
    /\ Readable
    /\ calls' = [calls EXCEPT ![c] = None]
    /\ UNCHANGED <<clock, pin, grants, revocations, rows, mem, publishing, acks>>

-----------------------------------------------------------------------------
(* Ack, administration and cleanup *)

MarkRead(S) ==
    [i \in Ids |-> IF i \in S THEN [rows[i] EXCEPT !.read = TRUE] ELSE rows[i]]

Pending(r) == {i \in Ids : Unread(rows[i]) /\ rows[i].recipient = r}

\* No strict policy: one UPDATE by ID.
AckByID(r, S) ==
    /\ Readable
    /\ ~mem.required
    /\ S \cap Pending(r) # {}
    /\ rows' = MarkRead(S \cap Pending(r))
    /\ UNCHANGED <<clock, pin, grants, revocations, mem, publishing, calls, acks>>

\* Strict policy: collect the deliverable rows among the requested IDs.
AckInspect(a, r, S) ==
    LET picked == {<<i, rows[i].stamp>> :
                      i \in {j \in S \cap Pending(r) : Deliverable(rows[j])}}
    IN  /\ acks[a] = None
        /\ Readable
        /\ mem.required
        /\ picked # {}
        /\ acks' = [acks EXCEPT ![a] = [recipient |-> r, picked |-> picked]]
        /\ UNCHANGED <<clock, pin, grants, revocations, rows, mem, publishing, calls>>

\* Variant: the UPDATE matches by ID.
InspectedID(ack, i) == \E p \in ack.picked : p[1] = i

\* (id, stored_at_ns) IN (...)
Inspected(ack, i) == <<i, rows[i].stamp>> \in ack.picked

\* ... then update exactly those rows.
AckCommit(a) ==
    /\ acks[a] # None
    /\ rows' = MarkRead({i \in Pending(acks[a].recipient) : Inspected(acks[a], i)})
    /\ acks' = [acks EXCEPT ![a] = None]
    /\ UNCHANGED <<clock, pin, grants, revocations, mem, publishing, calls>>

Without(S) == [i \in Ids |-> IF i \in S THEN None ELSE rows[i]]

DeleteMessage(i) ==
    /\ rows[i] # None
    /\ rows' = Without({i})
    /\ UNCHANGED <<clock, pin, grants, revocations, mem, publishing, calls, acks>>

PurgeQueue(r) ==
    LET S == {i \in Ids : rows[i] # None /\ rows[i].recipient = r}
    IN  /\ S # {}
        /\ rows' = Without(S)
        /\ UNCHANGED <<clock, pin, grants, revocations, mem, publishing, calls, acks>>

\* Expired rows go by the clock; read rows go by a retention the operator may
\* set to any length at any time, so any of them may be due.
Cleanup(S) ==
    /\ S # {}
    /\ \A i \in S : /\ rows[i] # None
                    /\ \/ rows[i].read
                       \/ rows[i].expiry > 0 /\ rows[i].expiry <= clock
    /\ rows' = Without(S)
    /\ UNCHANGED <<clock, pin, grants, revocations, mem, publishing, calls, acks>>

Next ==
    \/ \E p \in Policies : PolicyCommit(p)
    \/ PolicyPublish
    \/ Restart
    \/ Tick
    \/ \E c \in Certs : EnrollManaged(c)
    \/ \E s \in Serials : RevokeManaged(s)
    \/ \E c \in Stores, i \in Ids, route \in Routes :
           StoreCheck(c, i, route[1], route[2])
    \/ \E c \in Stores, life \in Lifetimes : StoreStamp(c, life)
    \/ \E c \in Stores : StoreInsert(c) \/ StoreReturn(c) \/ NotifySubscribers(c)
    \/ \E r \in Urns, S \in SUBSET Ids : AckByID(r, S)
    \/ \E a \in Acks, r \in Urns, S \in SUBSET Ids : AckInspect(a, r, S)
    \/ \E a \in Acks : AckCommit(a)
    \/ \E i \in Ids : DeleteMessage(i)
    \/ \E r \in Urns : PurgeQueue(r)
    \/ \E S \in SUBSET Ids : Cleanup(S)

Spec == Init /\ [][Next]_vars

-----------------------------------------------------------------------------
(* Properties *)

\* Every variable stays in its type.
TypeOK ==
    /\ clock \in Nat \ {0}
    /\ pin \in Policies \cup {None}
    /\ grants \in [Urns -> Grant \cup {None}]
    /\ revocations \in SUBSET Serials
    /\ rows \in [Ids -> Row \cup {None}]
    /\ mem \in [required : BOOLEAN, policy : Policies \cup {None}]
    /\ publishing \in Policies \cup {None}
    /\ calls \in [Stores -> Call \cup {None}]
    /\ acks \in [Acks -> Ack \cup {None}]

\* The in-memory policy agrees with the pinned row whenever s.mu is not
\* write-locked, whatever crashed, restarted or was loaded before: the strict
\* bit always, hash, expiry and issuer once a policy was loaded in this run.
MemoryMirrorsPin ==
    Readable => /\ mem.required = Strict(pin)
                /\ mem.policy # None => mem.policy = pin

\* A pinned policy is only ever replaced by one of a higher epoch, across
\* restarts too: neither a rollback nor a second document of the same epoch.
PinNeverRollsBack ==
    [][pin # None => pin' = pin \/ (pin' # None /\ pin'.epoch > pin.epoch)]_vars

\* A serial once revoked never backs an unrevoked grant, whether it was
\* enrolled before the revocation, after it, or superseded in between.
RevokedSerialStaysDead ==
    \A u \in Urns : grants[u] # None /\ grants[u].serial \in revocations
                        => grants[u].revoked

\* Under a strict policy no v1 row is retrieved, acknowledged or pushed unless
\* its sender or recipient held a live certificate at the moment the row was
\* stamped: enrolling, renewing or re-enrolling later does not open old rows.
NoRetroactiveCertification ==
    Readable /\ mem.required =>
        /\ \A i \in Ids : Unread(rows[i]) /\ Deliverable(rows[i])
                              => rows[i].certified
        /\ \A c \in Stores : calls[c] # None /\ Deliverable(calls[c])
                                 => calls[c].certified

\* A certificate that is renewed in time, under the same issuer, does not hide
\* what was stored under the one it replaces (v2_store.go:532-534), unless it
\* begins later than the row.
RenewalKeepsRows ==
    [][\A c \in Certs, i \in Ids :
         EnrollManaged(c) /\ mem.required
             /\ rows[i] # None /\ Deliverable(rows[i]) /\ c.notBefore <= rows[i].stamp
         => Deliverable(rows[i])']_vars

\* No acknowledgement marks a quarantined row read under a strict policy, also
\* when the inspected row was deleted and its ID stored again meanwhile.
NoQuarantinedAck ==
    [][\A i \in Ids :
         mem.required /\ rows[i] # None /\ ~rows[i].read
             /\ rows'[i] # None /\ rows'[i].read
         => rows[i].certified]_vars

\* After a restart that loads no policy, a pinned strict policy keeps v1
\* closed: nothing is in flight, nothing can be delivered.
FailClosedWithoutGateway ==
    Readable /\ mem.policy = None /\ Strict(pin) =>
        /\ \A c \in Stores : calls[c] = None
        /\ \A a \in Acks : acks[a] = None
        /\ \A i \in Ids : rows[i] # None => ~Deliverable(rows[i])

\* No policy switch slips between the fast check and the insert: a row enters
\* under a strict pin only between identities one of which is certified now.
NoInsertPastThePin ==
    [][\A i \in Ids :
         rows[i] = None /\ rows'[i] # None /\ Strict(pin)
         => Live(rows'[i].sender) \/ Live(rows'[i].recipient)]_vars

\* docs/guides/API_EN.md:160: the certificate of a managed identity must be
\* "enrolled before the message was stored".
EnrolledBeforeStored ==
    [][\A i \in Ids :
         rows[i] = None /\ rows'[i] # None /\ Strict(pin)
         => \E u \in {rows'[i].sender, rows'[i].recipient} :
                Live(u) /\ grants[u].enrolled <= rows'[i].stamp]_vars
=============================================================================
