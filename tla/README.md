# Agent Communication Platform: TLA+ models and proofs

This directory is a verification project for the Go program of this repository.
It contains TLA+ modules translated from the source, TLC configurations that
check them on small instances, and proofs that TLAPS checks for every value of
the constants. `PROJECT.json` is the index: it gives the components, the runs,
the source lines of every definition (`map`), the hazards, the findings and the
theorems.

    tlc -workers 2 -config Registry_main.cfg MCRegistry.tla
    tlapm RegistryProofs.tla

## 1. The system

One process (`cmd/platform/main.go`) serves agents that exchange encrypted
messages. An agent registers its addresses in the **registry**, others resolve
it there, and messages for an agent that is offline wait in the **message
queue**. Each keeps its state in a SQLite file with one connection
(`SetMaxOpenConns(1)`); an administrator's console changes settings while the
process serves.

| Component | State it keeps | Operations | What makes it correct |
|---|---|---|---|
| v1 mailbox (`mq/store.go`) | `messages`; `s.mu`, `v2Required` and the policy in memory | store, retrieve, ACK, delete, purge, cleanup | a closed v1 stays closed over policy switches and restarts; only certified managed traffic passes |
| managed identities (`mq/v2_store.go`) | `v2_policy_state`, `v2_managed_identities`, `v2_managed_revocations` | enable policy, enrol, revoke, check | the pinned policy never goes back; certification is never retroactive; revocation is final |
| v2 admission and archive (`mq/v2_gateway.go`, `v2_store.go`, `compliance_store.go`) | `v2_messages`, `v2_compliance_admissions`, `compliance_messages`; `complianceMu` | admit, retry, ACK, cleanup, set retention | one meaning per message ID in four tables, one receipt per envelope, the quota, no plaintext past its retention |
| handshake frames (`mq/v2_store.go`) | `v2_handshake_frames` | store, retrieve, ACK | one retrieve has every pending frame, none outlives its policy, a retry changes nothing, an ACK is final |
| push streams (`mq/http.go`) | subscriber lists and counter, a channel of 4 per stream | subscribe, unsubscribe, notify | counter and lists agree; nothing is pushed twice or after a revocation; what a stream misses it misses for one of three known reasons, or a retrieve has it |
| registry (`registry/store.go`, `http.go`) | `registry` table, TTL | register, resolve, list, evict, clear, cleanup | no rollback by replay, leases honoured, owners recover from poisoned rows |
| admin settings (`api/admin.go`, `admin_config_editable.go`, `config/config.go`) | `admin-policies.yaml`, live policies, pending flags, `previewKey`; `policyMu` | change storage, forwarding, retention, startup settings; boot and recovery | file and live policies agree; a storage change leaves no old route; no edit is lost, no confirmation replayed |
| locks and connections (all stores, `api/admin.go`, `audit.go`) | five mutexes, one connection per database | every call above | no deadlock; every call returns |
| rate limiter (`api/server.go`) | a token bucket per address, one bucket for all who find the table full | admit or refuse a request, sweep | dropped buckets are full; the table is bounded; no source above its rate |
| request signatures, relay, policy tool, audit log, web console | none, an external library's, or append-only | stateless checks, start-up, offline signing, display | outside the models, see section 8 |

**Interactions.** HTTP handlers and libp2p handlers call the same stores from
many goroutines. The MQ asks the admin settings whether storage and forwarding
are allowed, and the registry whether a recipient stores user data. A storage
change clears the registry and restarts the process; the boot sequence finishes
what a crash interrupted before anything is served. The cleanup workers of both
stores run beside the handlers.

**Hard behaviours.** (1) A value is read before a lock or a transaction and
used in it: the v2 policy, the time stamp of a row, `now` of an admission, the
lease of a registration, the forwarding decision of a resolve. (2) Several
tables with independent clean-up have to keep agreeing. (3) Messages arrive in
any order and more than once within a signature window. (4) The process may die
between any two writes, and the two stores and the settings file have no common
transaction. (5) Two locks, one connection, and handlers that hold one while
they wait for the other. `PROJECT.json` lists the hazards at their lines with
the properties that watch them.

## 2. Modules

| Module | Models | MC module and configurations | Proofs |
|---|---|---|---|
| `ManagedMailbox` | v1 mailbox under the pinned policy, certificates, restarts | `MCManagedMailbox`: `_main`, `_stamp` | `ManagedMailboxProofs` |
| `MessageIds` | abstract: what an ID means and what a receipt promises | implemented by `V2Admission` | in `V2AdmissionProofs` |
| `V2Admission` | the four ID-keyed tables, receipts, quota, archive retention | `MCV2Admission`: `_main`, `_expired` | `V2AdmissionProofs` |
| `Registry` | registrations, leases, legacy rows, resolve requests | `MCRegistry`: `_main`, `_forwarding` | `RegistryProofs` |
| `Directory` | abstract: what a URN serves and what a reader is told | implemented by `Registry` | in `RegistryProofs` |
| `AdminSettings` | override file, live policies, storage change, boot recovery, editor | `MCAdminSettings`: `_main` | `AdminSettingsProofs` |
| `HandshakeFrames` | the mailbox of v2 handshake frames | `MCHandshakeFrames`: `_main` | `HandshakeFramesProofs` |
| `PushStreams` | event streams, subscriber lists, notifications | `MCPushStreams`: `_main`, `_keepalive` | `PushStreamsProofs` |
| `StoreLocks` | every lock and connection, and the calls that take them | `MCStoreLocks`: `_all` | `StoreLocksProofs` |
| `TokenBuckets` | abstract: one bucket per source, for ever | implemented by `RateLimiter` | in `RateLimiterProofs` |
| `RateLimiter` | the table of buckets, its sweeps, the overflow bucket | `MCRateLimiter`: `_main` | `RateLimiterProofs` |

Conventions. Every variable is a column, a field or a program counter of the
code; a variable or field commented `history` is read by properties only. An
operator commented `Variant` is a plausible bug of the operator after it; no
action uses it, and each property is confirmed by a run in which one variant
replaces the definition and the property fails. `None` is a row that is
absent, a NULL, or an idle call.

### ManagedMailbox

One transaction is one step. `StoreEnvelope` is `StoreCheck` (fast check under
`RLock`), `StoreStamp` (`storedAt`), `StoreInsert` (the transaction) and
`NotifySubscribers`; `Ack` under a strict policy is `AckInspect` and
`AckCommit` with `s.mu.RLock` held in between, which is what `Writable` waits
for; `EnableV2Policy` is `PolicyCommit` and `PolicyPublish` under `s.mu.Lock`.
`Restart` keeps the tables and builds the memory `NewStore` builds: the strict
bit and nothing else. `cmd/platform/main.go` calls `EnableV2Policy` once, at
boot; `LiveSwitch = TRUE` lets it run at any time, which is more than today's
program does and is what `s.mu` and the second check in the transaction are
written for. The finding uses `LiveSwitch = FALSE`.

### V2Admission

`AdmitV2` is `AdmitBegin` (receipt lookup and a new receipt), `AdmitEnter`
(`storeV2` up to `now`, under `complianceMu.RLock`) and the transaction
(`AdmitPrior`, `AdmitInsert`, `AdmitRefuse`). A change of the retention is
`SaveRetention`, `PurgeRetention`, `ApplyRetention`, or `RollBackRetention`.
Each DELETE of `cleanup` is a step of its own. v1 stores take part with their
inserting transaction, since they share the IDs and the quota.

The module implements `MessageIds`, which has no tables, calls, locks or
clean-up: an ID is free or has one owner, changes owners only by becoming free,
receipts go to the owner, and a compliance-mode envelope that was answered
keeps its ID and its receipt until it expires. The refinement mapping is
`Owner`: a v1 row, else the envelope of the v2 row, of the admission hash or of
the archived body; clean-up of one table is a stutter while another still
names the owner.

### Registry

`RegisterWithSignature` is `RegisterCheck` (validation and `now`) and one
critical section: `RegisterWrite`, `RegisterRefuse` or `RegisterFail`. Any
signed timestamp may be presented at any time, which covers loss, delay,
duplication and reordering; the admission window limits them. `handleResolve`
is two reads, `ResolveCheck` and `ResolveAnswer`; either can fail, and a check
that could not read the record lets the request on (server.go:68), as one that
found no record does. `Cleanup` is one DELETE that
takes no lock. `Legacy` holds rows of older databases: unsigned ones and ones a
third party poisoned.

The module implements `Directory`, which has no table, clean-up, poisoned rows,
registrations under way or restarts: a URN serves one record or none, from its
publication to the end of its lease unless a newer one replaces it or an
administrator withdraws it; nothing older than what was published is published
again; a reader is told what is served at one moment between question and
answer. The mapping is `Serves` (the row, if `Resolve` would return it), `Told`
and `newest`. A registration maps to a publication when it writes and to a
stutter before; `Cleanup`, of rows that have lapsed, is a stutter.

### AdminSettings

`updateStorage` is taken apart into save, clear, apply, flag, and its two ways
to roll back; the other handlers are one step, because they hold `policyMu` and
a crash inside them cannot be told from a crash before or after. `phase` is the
boot sequence of `main`: `BootLoad`, `BootClear`, `BootSave`, `BootServe`.
Registrations, the identity renewal (`RenewRead`, `RenewWrite`), lapses and
crashes interleave with everything. A token is what its MAC covers: the
process's random key, the revision and the target. A booting process draws a
key no token has; which one it is makes no difference and is a CHOOSE.

### HandshakeFrames

A handshake/store request is `Post` (the handler with its bound of the expiry,
and `StoreV2Frame` up to `BeginTx`) and the transaction: `Insert`, or `Return`
for a retry, a conflict, a full queue or a policy that has ended. Retrieving
changes nothing and is the definition `Pending`. `AckV2Frames`, `PurgeQueue`,
the two DELETEs of `cleanup` and a restart under the same or a later policy are
the other steps. `final` remembers the expiry of what was acknowledged.

### PushStreams

A stream is a running `handleSubscribe`: its channel, whether the client is
there, whether a write failed, and its age against the write deadline of the
server. `Store` is `StoreEnvelope` up to its commit; `NotifyBegin`, one
`NotifySend` per channel and `NotifyEnd` hold `s.mu` for reading, so that
`Register`, `Leave` and `RevokeManaged` wait (`Lockable`) while enrolments,
renewals, ACKs, deletes, other notifications and the clients go on.
`NotifyRefused` and `NotifyFailed` are the return before the list is copied
(store.go:325): the certificates do not permit the row any more, or could not
be looked up; the row is committed and nobody is told. Certificates and rows
are what `ManagedMailbox` says of them, reduced to the number of the enrolment
under which a row was stored (`Certified`) and the first stamp the certificate
admits (`from`). A renewal keeps the number and may move `from` either way, so
that a row can be hidden when it is announced and shown again later. `known`,
`taken` and `missed` are history: what the client retrieved, what was taken
from its channel to be sent, and what was withheld from it and why: a full
channel, a return before the list, or a retrieve while the row was hidden.

### StoreLocks

A call is the list of its acquisitions, each with what is held meanwhile; what
else it does is left out, conditions may skip acquisitions and a call may
return early. `Announce` and `Acquire` are Go's `RWMutex`: a writer announces
itself, later readers queue behind it, and locks are not reentrant; the
connection of a database is a lock too.

### RateLimiter

A request is `GetLimiter`, under `i.mu` and with the sweep when one is due, and
then `Allow` or `TooManyRequests` on the bucket it was given. The two maps have
the same keys and are one variable. The bucket of `golang.org/x/time/rate` is a
count of tokens at an instant; its floating point is replaced by integers, with
a request that costs `Cost` and a unit of time that brings `Rate`, so that the
rate is any fraction. `Observe` opens a window of observation at any moment;
`start`, `admitted` and `shared` are its history. The module implements
`TokenBuckets`, in which every source has a bucket that is never dropped; the
mapping gives an address that is not in the table a full bucket.

## 3. Runs

States are distinct states; all passing runs are exhaustive and check for
deadlock. The calls in progress are interchangeable, so the runs that have two
of them and no liveness property use symmetry over the calls.

| Run | Properties | Instance | States |
|---|---|---|---|
| `mailbox` | `MemoryMirrorsPin`, `RevokedSerialStaysDead`, `FailClosedWithoutGateway`, `NoRetroactiveCertification`, `PinNeverRollsBack`, `RenewalKeepsRows`, `NoInsertPastThePin`, `NoQuarantinedAck` | 4 policies, 3 certificates, 2 issuers, 1 ID, 2 stores, 1 ACK, clock to 4 | 1.3 M |
| `admission` | `TypeOK`, `TablesAgree`, `QuotaHolds`, `RetryGetsTheSameReceipt`, `ZeroRetentionKeepsNothing`, `NoRevival`, `ImplementsMessageIds` | 3 envelopes of one ID and 1 of another, 2 policies, quota 1, 2 calls, retention 0, 1 or 2, clock to 4 | 558 k |
| `registry` | `NeverRolledBack`, `LeaseKept`, `ReadsNeverGoBack`, `OwnerRecovers`, `ImplementsDirectory` | 1 URN, 2 registrations, 1 resolve, window 1+1, stall 1, TTL 4, 3 legacy rows, clock to 6 | 578 k |
| `settings` | `RoutesMatchPolicy`, `FileMatchesLive`, `EditsAreNotLost`, `NoConfirmationReplayed`, `ResetCompletes` | 2 retentions, 2 startup settings of 2 values, 2 tokens, 3 preview keys, `FairSpec` | 390 k |
| `frames` | `TypeOK`, `OneBatch`, `NoneOutlivesItsPolicy`, `AckIsFinal`, `RetryChangesNothing` | 3 frames of one recipient, 2 byte strings, 2 policies, 2 calls, quota 1, batch 1, a day of 2, clock to 4 | 719 k |
| `streams` | `TypeOK`, `SlotsAgree`, `PushedOnce`, `NoPushAfterRevocation`, `NoGap` | 1 URN, 3 streams for 2 slots, channels of 1, 2 stores of 1 ID, 2 stamps, 2 enrolments, renewals, strict; one stream at a time ages or ends (`Bound`) | 1.3 M |
| `locks` | `NoDeadlock`, `EveryCallReturns` | 3 goroutines, 4 calls, `FairSpec` | 25 k |
| `limiter` | `TableBounded`, `WithinRate`, `ImplementsTokenBuckets` | 2 addresses, 2 requests, a table of 1, burst 2, 1 request per unit of time, idle 3, period 2, stall 1, clock to 6 | 945 k |

Three runs check `TypeOK`; for every module it is the theorem `TypeCorrect`. That an ID is never in both
protocols (`IdsStayApart`) is proved, and the run has it as part of
`ImplementsMessageIds`.

What the bounds leave in:

- **Mailbox.** Two issuers and three certificates are the least with which a
  grant can be renewed, replaced by another issuer, expire and be revoked; two
  policies of one epoch are needed for equivocation. Stamps of distinct rows
  differ, so an ID that is deleted and stored again in the middle of an ACK
  shows up with one ID and two stores.
- **Admission.** A conflict needs two envelopes of one ID, and a change of
  policy a third; a race needs two calls. Tables are keyed by ID and IDs
  interact only through the quota. The constraint `OneThing` of the MC module
  therefore explores the second ID with retention zero, one envelope of the
  first ID and a clock to 3, and everything else with one ID in use.
- **Registry.** URNs do not interact except in `ClearAllEntries`, so one is
  enough. The clock passes the end of a lease, its cleanup and the end of the
  window of every signature accepted before. The constraint `Forwarding` leaves
  out states with forwarding switched off: they differ in which readers are
  turned away, and the run `registry_forwarding` is about them. A change of the TTL between two
  processes is in the model and in the proofs, not in this instance.
- **Settings.** A replay needs a token that outlives a process, hence more
  keys than tokens; settings have to return to the previewed revision, which
  takes a second token and a third process. Two settings let two saves touch
  different ones. The number of tokens is the only bound.
- **Frames.** Quota and batch are equal in the code (100 and 100) and in the
  instance (1 and 1): what matters is that a third frame finds the second one
  in its way. The clock passes a day, a deadline in a payload, the end of both
  policies and the retention of a read frame.
- **Streams.** A channel of one is full after one push, three streams compete
  for two slots, and the second stamp is the ID stored again after its row was
  removed. `Bound` lets one stream at a time grow old, lose its client or fail,
  none after the second enrolment, and has that enrolment after the first
  message: without a row an enrolment only counts. With one URN the total limit is never the tighter one; the theorem
  `SlotsHold` has it for all limits.
- **Locks.** The four calls nest locks in every way the others do; three
  goroutines are the least with which a reader waits behind a writer that
  waits behind a reader. `DeadlockFree` is proved for all eighteen kinds of
  call and any number of goroutines.

- **Limiter.** With a table of one the second address finds it full and shares
  `Overflow`; two requests are under way at once, also from one bucket. The
  clock passes a sweep that drops a bucket and a later request of the address.
  In the instance a bucket fills within `Idle - Stall`, as with the shipped
  settings; with a rate of half of that TLC finds `WithinRate` violated.

## 4. Findings

Four runs check what a text of the repository says and the code does not do.
TLC prints the trace.

1. `mailbox_stamp`, `EnrolledBeforeStored`. A managed message needs a
   certificate "enrolled before the message was stored" (API_EN.md:160).
   `StoreEnvelope` takes the row's stamp before it waits for the transaction
   that checks the certificate. A certificate enrolled in between admits the
   row; the sender is told that it was stored, and it can never be delivered,
   since delivery compares the stamp.
2. `admission_expired`, `NotAdmittedAgain`. After an envelope expires
   "identical bytes cannot be newly admitted" (mq/store.go:860). `storeV2`
   checks the expiry against a `now` from before its transaction. If row and
   hash are removed at expiry while a second call waits, it admits them again.
3. `registry_forwarding`, `NoStoringPlatformResolved`. `handleResolve` decides
   on one read of the record and answers with another, so a storing platform's
   record that is registered in between is handed out while forwarding is off
   (config.example.yaml:5).
4. `streams_keepalive`, `KeptAlive`. "Comment frames open the stream and keep
   it alive at roughly 30-second intervals" (API_EN.md:74). The server's
   `WriteTimeout` is 30 seconds from the request's headers on and no handler
   moves the deadline; the ticker of the stream starts later and has the same
   period. The first keepalive fails, the server cancels the request, and the
   client has lost its stream.

## 5. Fairness

Two modules have a liveness property.

`AdminSettings!FairSpec` assumes weak fairness of the restart timer (a
goroutine that sleeps 500 ms and calls `os.Exit`) and of the supervisor that
starts the process again (the compose file's `unless-stopped`), and strong
fairness of the three boot steps: a process may die before it takes such a
step, but not every time. Nothing is assumed of handlers, clients, cleanup or
renewal. A reset that is pending because a rollback failed has no timer;
`ResetCompletes` speaks of accepted changes only.

`StoreLocks!FairSpec` assumes that a goroutine that waits for nobody goes on
(weak fairness of its next acquisition or its return) and strong fairness of
`Announce` and `Acquire` of each goroutine: an unlocked Go mutex is handed to a
waiter after a millisecond of starvation, `RWMutex.Unlock` admits the readers
that wait before the next writer, and `database/sql` gives a returned
connection to the oldest request. Calls keep coming; nothing makes them stop.

## 6. Proofs

Every passing safety property of the runs, the refinement included, is also a
theorem, for any number of URNs, IDs, policies, streams, goroutines and calls
and any bound on the clock. The assumptions are
those of the ASSUME statements.

- **ManagedMailboxProofs.** `TypeCorrect`, then `Mirror`: at every moment, also
  between COMMIT and publication, memory is the pin, or the pin is what is
  being published. `MemoryMirrors` and, with `NothingInFlight` (without a
  loaded policy a strict pin has no call in progress), `FailClosed` follow.
  `RevokedStaysDead` is inductive by itself. `NotRetroactive` and
  `QuarantineNotConsumed` rest on `CertInv`. It speaks of *marks*, the stamps
  of rows and of calls: a stamp is in the past; a mark that a present grant
  covers was certified (`Backed`, because enrolment time survives only
  unbroken renewals); equal stamps agree; and a stamp that an ACK picked
  belongs to certified marks only, also after the row is gone. `RenewalKeeps` is
  an action property: no enrolment hides a row that could be delivered, unless
  the new certificate begins after the row's stamp; it holds because a renewal
  keeps the time of the first enrolment.
- **V2AdmissionProofs.** `IdsStayApart` and `TablesStayInAgreement` are
  inductive by themselves. `OneReceipt` needs `RetryInv`: an unexpired
  compliance row has its admission hash. `NothingKept` and `HiddenStaysHidden`
  need `RetentionInv`: between the purge and the assignment of the new
  retention no admission is inside, and what is archived is visible and the new
  duration is not zero. `QuotaRespected` needs `QuotaInv` (the `now` of a call
  is not in the future) and the counting lemmas `CountMonotone`, `CountFalls`
  and `RoomForOne`: counted at an earlier instant there are at least as many
  unexpired rows. `Refinement`: the initial states map to one of `MessageIds`,
  and every step of `V2Admission` maps to a step of it or a stutter. The
  simulation uses `TypeOK`, `OneProtocolPerId` and `RetryInv`, by which every
  table that still records an ID names the same owner (`OwnerFacts`), so that a
  step that only removes rows keeps an owner or frees the ID.
- **RegistryProofs.** `NoRollback` is where a lease has to be longer than the
  admission window. `CallsInWindow` bounds how stale a call in progress can be;
  `GoneMeansClosed` says that the table still holds an authentic record at
  least as new as `newest`, with a lease beyond the window of its signature, or
  that no signature as old as `newest` can be admitted any more. Both need
  `WindowAssumption`: each TTL exceeds `Past + Future + Stall`. The console
  refuses a `ttl_hours` below 1 and the window is six minutes; `Stall` bounds
  how long a registration may wait for the lock and the database, and nothing
  in the code enforces it. `MonotonicReads` follows from `NoRollback` and
  `since <= newest`; `LeaseHonoured` needs `LeaseInv`. `Refinement` shows that
  the registry implements `Directory`. The step that matters is a write after
  the old record is gone: that it is not older than everything published before
  is `GoneMeansClosed` with `CallsInWindow`; an unsigned or poisoned row is
  served by nobody, so replacing one publishes from nothing.
- **AdminSettingsProofs.** `RoutesSound` and `FileAgrees` rest on `Inv`:
  `ServingInv` says what file, registry and live policy have in common at each
  step of a storage change, `BootInv` what a dead or booting process finds (a
  file without the marker means that all records are of its policy), and
  `AnnouncedInv` that an announced policy has a pending reset. `ConfirmedOnce`
  needs `KeyInv`: the key of a booted process is in no token made before.
- **HandshakeFramesProofs.** `IInv` adds two facts to the types: `Posting`, the
  expiry a call carries is bounded by a day, by the policy of the call and by
  the frame's deadline, and `Bounded`, the same of the rows.
  `FramesEndWithTheirPolicy` follows from it; `OneRetrieve` because rows leave
  the pending set by themselves and enter it only through `Insert`, which
  counts with the new row. `AcksAreFinal` needs `Settled`, that a read row has the
  expiry that `final` remembers, and that a retention of a day or more outlasts
  an expiry, which is within a day of the store.
- **PushStreamsProofs.** The inductive invariant has three parts. *Core*: types,
  the lists are the handlers, and what a notification still has to serve is
  registered. *Counted*: the counter, with the cardinality lemmas for adding
  and removing one stream. *Order*: offers, channels and calls name stored
  stamps, and what a call still has to offer was not offered yet. `Once` follows
  from it, and `GapFree` with one more case per step: what was on its way when a
  notification gives up is `missed` by every stream of its list. It speaks of
  `Waiting`, which does not depend on `from`, and so a renewal is no case of its
  own. `NothingPushedAfterRevocation` holds because `RevokeManaged` waits for
  `Lockable`.
- **StoreLocksProofs.** `DeadlockFree`: every acquisition of `Code` is made
  under locks with smaller numbers only (checked call by call), the holder of a
  lock is past it, and a writer that has announced itself waits for readers
  that do not wait for it; so a goroutine of the set that wants the highest
  lock waits for none of the set, or for the announced writer, who does not.
- **RateLimiterProofs.** `IInv` adds to the types that a bucket was not used
  after the present or before the table last saw its address (`EntriesTimely`)
  and that a request under way came within `Stall` and holds a bucket that is
  in the table (`RequestsTimely`); with `Stall <= Idle` no sweep drops it.
  `TableStaysBounded` counts the table over a sweep and an insertion.
  `SweptAreFull` says that what a sweep drops has filled up, and with it
  `Refinement` maps every step to a step of `TokenBuckets` or a stutter.
  `RateHolds` is then `Conserved` of the abstract buckets: what was admitted
  and what is left is at most a burst and what flowed in. `AtMostTwice` adds up
  what one address gets from its own bucket and from the overflow bucket. These
  three have the hypothesis `FillsWhileIdle`, that an idle time fills a bucket.
  The shipped settings satisfy it (20 requests at 10 a second, idle after 10
  minutes) and nothing in the code checks the configured ones.

Left to TLC: `ResetCompletes` and `EveryCallReturns` (liveness) and the four
refutations. `ENABLED` and what recursive definitions compute appear in no
property.

## 7. Plan

Done: the eight modules above, the abstract `MessageIds`, `Directory` and
`TokenBuckets` with their refinements, and the proofs. What would come next:

1. An abstract queue of a recipient (each accepted message is delivered until
   acknowledged, deleted or expired) that `ManagedMailbox` and `PushStreams`
   implement together.
2. `AdminSettings` composed with a registry whose records have timestamps, for
   the boot that fails on its own newer record; it takes a clock that steps
   back in `Registry` too.

## 8. Not modelled

- Cryptography (envelope, registration, receipt and policy signatures, AEAD,
  hashes) is in an external SDK. What the code relies on is stated in the
  module headers: a URN determines its key, and every message in the models
  has passed its checks.
- Which address the rate limiter uses (the peer, or `X-Real-IP` from a trusted
  proxy), and the rounding of its floating-point tokens.
- HTTP routing and JSON parsing, request sizes, paging, statistics, the web console and
  the audit log (append-only, read by nothing).
- The relay and the policy tool: start-up of a library and an offline program.
- After a storage change and its rollback have both failed, a forwarding change
  before the restart writes the old storage policy over the pending one.
  `FileMatchesLive` has an exception for the time before that.
- In `PushStreams`, the end of a certificate or of the policy: like a
  revocation that waits for nobody, it hides rows for good (a later enrolment
  is not a renewal, v2_store.go:532). `ManagedMailbox` has it.
- A client is not told that its stream missed a message. API_EN.md:74 bids it
  retrieve for what a slow reader loses; a failed certificate lookup
  (store.go:325) loses a push in the same way, and the row stays retrievable.
- Two registrations of one owner signed in the same second: they replace each
  other in any order, in the model as in the code, and no property orders them.
- Clocks that go back. A stepped clock makes the platform's own record newer
  than its new registration, and `main` then refuses to start.
- A boot with a longer retention than the one applied before the crash shows
  archived rows that cleanup had not reached; `NoRevival` therefore speaks of
  steps of a running process.
- Token lifetimes, ranges of the six startup settings, a damaged override file
  (`Load` fails and the process does not start).
- 64-bit overflow of nanosecond times (after the year 2262).
