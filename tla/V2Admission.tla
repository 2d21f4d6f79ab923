----------------------------- MODULE V2Admission -----------------------------
(***************************************************************************)
(* Admission of v2 envelopes (internal/mq/v2_gateway.go, v2_store.go) and   *)
(* the plaintext archive of compliance mode (compliance_store.go): four     *)
(* tables keyed by message ID - v1 messages, v2_messages,                   *)
(* v2_compliance_admissions, compliance_messages - that must agree while    *)
(* identical and conflicting envelopes are admitted concurrently, an        *)
(* administrator changes the archive's retention, rows are acknowledged,    *)
(* deleted and cleaned up, and the process restarts.                        *)
(*                                                                          *)
(* Granularity.  Every SQLite transaction or statement is one step: the     *)
(* store has one connection.  AdmitV2 is three steps: lookup and receipt;   *)
(* storeV2 up to `now := time.Now()`, under complianceMu.RLock; the         *)
(* transaction.  A retention change is three: file, purge, live value.      *)
(* The statements of one cleanup run are steps of their own, since each may *)
(* fail alone; a statement whose `now` is old deletes what an earlier one   *)
(* would have.                                                              *)
(*                                                                          *)
(* Abstractions.  Retention days and envelope lifetimes count in one clock. *)
(* An envelope stands for its raw bytes, their hash and its plaintext.      *)
(* Signature, AEAD and size checks (external) have passed for all of Envs.  *)
(***************************************************************************)
EXTENDS Naturals, FiniteSets

CONSTANTS
    Ids, Urns,
    Policies,     \* signed policies the platform may boot with
    Envs,         \* signed v2 envelopes clients send, and retry
    Lifetimes,    \* lifetimes of v1 rows
    Ops,          \* concurrent AdmitV2 calls
    RetentionDays,
    MaxPerURN,    \* mq.max_msgs_per_urn; 0 means no quota
    MaxTime,      \* bound on the clock
    None          \* no row, idle, no policy

Policy == [epoch : Nat \ {0}, expiry : Nat, compliance : BOOLEAN]

\* recipient, ID, expiry and policy come from the signed header; bytes tells
\* apart envelopes that share them.
Envelope == [id : Ids, recipient : Urns, expiry : Nat, policy : Policies, bytes : Nat]

\* MakeReceipt runs once per AdmitV2 call: the call and its time identify it.
Receipt == [env : Envs, by : Ops, issued : Nat]

V1Row == [recipient : Urns, expiry : Nat, read : BOOLEAN]
V1Message == [protocol |-> 1]  \* what an ID stands for while a v1 row has it
V2Row == [env : Envs, receipt : Receipt, read : BOOLEAN]
Admission == [env : Envs, receipt : Receipt]
Archived == [env : Envs, at : Nat]
Op == [receipt : Receipt, now : Nat, at : {"receipted", "entered"}]
RetentionChange == [days : RetentionDays, at : {"saved", "purged"}]

ASSUME InputsAssumption ==
    /\ Policies \subseteq Policy
    /\ \A p, q \in Policies : p.epoch = q.epoch => p = q
    /\ Envs \subseteq Envelope
    /\ Lifetimes \subseteq Nat \ {0}
    /\ RetentionDays \subseteq Nat
    /\ MaxPerURN \in Nat
    /\ MaxTime \in Nat
    /\ None \notin Policies \cup V1Row \cup V2Row \cup Admission \cup Archived
                       \cup Op \cup RetentionChange

ASSUME OwnersAssumption == None \notin Envs /\ None # V1Message

\* A database holds finitely many IDs; counts are meaningless otherwise.
ASSUME IdsAssumption == IsFiniteSet(Ids)

VARIABLES
    clock,
    pin,        \* the policy of v2_policy_state
    policy,     \* the policy this process loaded; None: v2 is disabled
    v1, v2,     \* messages, v2_messages
    adm,        \* v2_compliance_admissions
    arch,       \* compliance_messages
    days,       \* complianceRetentionDays, live
    fileDays,   \* compliance_retention_days of admin-policies.yaml
    change,     \* the retention change in progress (policyMu serialises them)
    ops,        \* AdmitV2 calls in progress
    answers     \* history: the receipts clients were given, by envelope

vars == <<clock, pin, policy, v1, v2, adm, arch, days, fileDays, change, ops, answers>>
tables == <<v1, v2, adm, arch>>
retention == <<days, fileDays, change>>

-----------------------------------------------------------------------------
\* complianceMu: held for writing from the purge to the assignment of the live
\* value, for reading by every storeV2 call.
WriteLocked == change # None /\ change.at = "purged"
ReadLocked == \E o \in Ops : ops[o] # None /\ ops[o].at = "entered"

Unread1(i, r, t) == v1[i] # None /\ v1[i].recipient = r /\ ~v1[i].read /\ v1[i].expiry > t
Unread2(i, r, t) == v2[i] # None /\ v2[i].env.recipient = r /\ ~v2[i].read /\ v2[i].env.expiry > t

PendingCount(r, t) == Cardinality({i \in Ids : Unread1(i, r, t) \/ Unread2(i, r, t)})

\* Variant: the quota of v1 looks at v1 rows only.
HasRoomV1Only(r, t) ==
    MaxPerURN > 0 => Cardinality({i \in Ids : Unread1(i, r, t)}) < MaxPerURN

\* SELECT COUNT(*) over both tables, after the insert, against maxPerURN.
HasRoom(r, t) == MaxPerURN > 0 => PendingCount(r, t) < MaxPerURN

\* Variant: an expired body is blanked and its row kept.
Blanked(d) == [i \in Ids |->
    IF arch[i] # None /\ d > 0 /\ arch[i].at + d > clock THEN arch[i]
    ELSE IF arch[i] = None THEN None ELSE [env |-> None, at |-> arch[i].at]]

\* deleteExpiredCompliance: what a duration of d leaves in the archive.
Kept(d) == [i \in Ids |-> IF arch[i] # None /\ d > 0 /\ arch[i].at + d > clock
                          THEN arch[i] ELSE None]

\* ListComplianceMessagesPage and GetComplianceMessage filter by the live value.
Visible(i) == arch[i] # None /\ days > 0 /\ arch[i].at + days > clock

Init ==
    /\ clock = 1
    /\ pin = None
    /\ policy = None
    /\ v1 = [i \in Ids |-> None]
    /\ v2 = [i \in Ids |-> None]
    /\ adm = [i \in Ids |-> None]
    /\ arch = [i \in Ids |-> None]
    /\ fileDays \in RetentionDays
    /\ days = fileDays
    /\ change = None
    /\ ops = [o \in Ops |-> None]
    /\ answers = [e \in Envs |-> {}]

-----------------------------------------------------------------------------
(* Process *)

\* EnableV2Policy runs at boot only; v2 may also be configured off.
MayLoad(p) ==
    p # None => /\ clock < p.expiry
                /\ pin # None => p.epoch > pin.epoch \/ p = pin

\* A crash at any point, NewStore, EnableV2Policy and api.New: nothing is served
\* before SetComplianceRetentionDays has applied the saved value.
Boot(p) ==
    /\ MayLoad(p)
    /\ policy' = p
    /\ pin' = IF p = None THEN pin ELSE p
    /\ days' = fileDays
    /\ arch' = Kept(fileDays)
    /\ change' = None
    /\ ops' = [o \in Ops |-> None]
    /\ UNCHANGED <<clock, v1, v2, adm, fileDays, answers>>

\* The setter reads the clock once, before it purges: a tick between the purge
\* and the assignment is a tick after it.
Tick ==
    /\ clock < MaxTime
    /\ ~WriteLocked
    /\ clock' = clock + 1
    /\ UNCHANGED <<pin, policy, tables, retention, ops, answers>>

-----------------------------------------------------------------------------
(* AdmitV2 *)

\* ExistingV2Receipt: v2_messages first, then the admissions.
Found(e) == IF v2[e.id] # None THEN v2[e.id] ELSE adm[e.id]

Answer(e, receipt) == answers' = [answers EXCEPT ![e] = @ \cup {receipt}]

\* Whatever the policy is now, a byte-identical retry gets the old receipt.
AdmitRetry(e) ==
    /\ policy # None
    /\ Found(e) # None
    /\ Found(e).env = e
    /\ Answer(e, Found(e).receipt)
    /\ UNCHANGED <<clock, pin, policy, tables, retention, ops>>

AdmitBegin(o, e) ==
    /\ ops[o] = None
    /\ Found(e) = None
    /\ policy = e.policy
    /\ clock < policy.expiry
    /\ clock < e.expiry
    /\ ops' = [ops EXCEPT ![o] =
           [receipt |-> [env |-> e, by |-> o, issued |-> clock], now |-> 0,
            at |-> "receipted"]]
    /\ UNCHANGED <<clock, pin, policy, tables, retention, answers>>

\* storeV2 up to now := time.Now().Unix().
AdmitEnter(o) ==
    /\ ops[o] # None
    /\ ops[o].at = "receipted"
    /\ ~WriteLocked
    /\ clock < ops[o].receipt.env.expiry
    /\ ops' = [ops EXCEPT ![o].now = clock, ![o].at = "entered"]
    /\ UNCHANGED <<clock, pin, policy, tables, retention, answers>>

\* The checks both outcomes of the transaction pass first.
InTransaction(o) ==
    /\ ops[o] # None
    /\ ops[o].at = "entered"
    /\ clock < policy.expiry
    /\ v1[ops[o].receipt.env.id] = None

\* The transaction finds the admission, or else the row, of the same bytes.
AdmitPrior(o) ==
    LET e == ops[o].receipt.env
        prior == IF adm[e.id] # None THEN adm[e.id] ELSE v2[e.id]
    IN  /\ InTransaction(o)
        /\ prior # None
        /\ prior.env = e
        /\ adm[e.id] = None => arch[e.id] = None
        /\ Answer(e, prior.receipt)
        /\ ops' = [ops EXCEPT ![o] = None]
        /\ UNCHANGED <<clock, pin, policy, tables, retention>>

\* Variant: the archive is not consulted.
FreshWithoutArchive(e) == adm[e.id] = None /\ v2[e.id] = None

Fresh(e) == adm[e.id] = None /\ arch[e.id] = None /\ v2[e.id] = None

AdmitInsert(o) ==
    LET receipt == ops[o].receipt
        e == receipt.env
    IN  /\ InTransaction(o)
        /\ Fresh(e)
        /\ HasRoom(e.recipient, ops[o].now)
        /\ v2' = [v2 EXCEPT ![e.id] = [env |-> e, receipt |-> receipt, read |-> FALSE]]
        /\ adm' = IF e.policy.compliance
                  THEN [adm EXCEPT ![e.id] = [env |-> e, receipt |-> receipt]]
                  ELSE adm
        /\ arch' = IF e.policy.compliance /\ days > 0
                   THEN [arch EXCEPT ![e.id] = [env |-> e, at |-> ops[o].now]]
                   ELSE arch
        /\ Answer(e, receipt)
        /\ ops' = [ops EXCEPT ![o] = None]
        /\ UNCHANGED <<clock, pin, policy, v1, retention>>

\* Conflict, quota, disabled storage, expired policy or a database error: the
\* transaction rolls back and the client gets no receipt.
AdmitRefuse(o) ==
    /\ ops[o] # None
    /\ ops' = [ops EXCEPT ![o] = None]
    /\ UNCHANGED <<clock, pin, policy, tables, retention, answers>>

-----------------------------------------------------------------------------
(* Other writers of the tables *)

\* Variant: a v1 insert looks for its ID among the undelivered v2 rows only.
FreeForV1RowsOnly(i) == v1[i] = None /\ v2[i] = None

FreeForV1(i) == v1[i] = None /\ v2[i] = None /\ adm[i] = None /\ arch[i] = None

\* The inserting transaction of StoreEnvelope (ManagedMailbox has the rest).
StoreV1(i, r, life) ==
    /\ FreeForV1(i)
    /\ HasRoom(r, clock)
    /\ v1' = [v1 EXCEPT ![i] = [recipient |-> r, expiry |-> clock + life, read |-> FALSE]]
    /\ UNCHANGED <<clock, pin, policy, v2, adm, arch, retention, ops, answers>>

AckV1(i) ==
    /\ v1[i] # None
    /\ ~v1[i].read
    /\ v1[i].expiry > clock
    /\ v1' = [v1 EXCEPT ![i].read = TRUE]
    /\ UNCHANGED <<clock, pin, policy, v2, adm, arch, retention, ops, answers>>

AckV2(i) ==
    /\ policy # None
    /\ clock < policy.expiry
    /\ v2[i] # None
    /\ v2[i].env.policy = policy
    /\ ~v2[i].read
    /\ v2[i].env.expiry > clock
    /\ v2' = [v2 EXCEPT ![i].read = TRUE]
    /\ UNCHANGED <<clock, pin, policy, v1, adm, arch, retention, ops, answers>>

Drop(table, S) == [i \in Ids |-> IF i \in S THEN None ELSE table[i]]

DeleteMessage(i) ==
    /\ v1[i] # None \/ v2[i] # None
    /\ v1' = Drop(v1, {i})
    /\ v2' = Drop(v2, {i})
    /\ UNCHANGED <<clock, pin, policy, adm, arch, retention, ops, answers>>

PurgeQueue(r) ==
    /\ v1' = Drop(v1, {i \in Ids : v1[i] # None /\ v1[i].recipient = r})
    /\ v2' = Drop(v2, {i \in Ids : v2[i] # None /\ v2[i].env.recipient = r})
    /\ UNCHANGED <<clock, pin, policy, adm, arch, retention, ops, answers>>

-----------------------------------------------------------------------------
(* cleanup: each statement succeeds or fails on its own, all of them under   *)
(* complianceMu.RLock                                                        *)

CleanMessages ==
    /\ ~WriteLocked
    /\ v1' = Drop(v1, {i \in Ids : v1[i] # None /\ v1[i].expiry <= clock})
    /\ UNCHANGED <<clock, pin, policy, v2, adm, arch, retention, ops, answers>>

CleanV2Messages ==
    /\ ~WriteLocked
    /\ v2' = Drop(v2, {i \in Ids : v2[i] # None /\ v2[i].env.expiry <= clock})
    /\ UNCHANGED <<clock, pin, policy, v1, adm, arch, retention, ops, answers>>

\* Variant: the admission hash goes with the row it was written with.
OutlivedWithRow(i) == adm[i] # None /\ v2[i] = None

Outlived(i) == adm[i] # None /\ adm[i].env.expiry <= clock

CleanAdmissions ==
    /\ ~WriteLocked
    /\ adm' = Drop(adm, {i \in Ids : Outlived(i)})
    /\ UNCHANGED <<clock, pin, policy, v1, v2, arch, retention, ops, answers>>

\* Read rows go after history_retention_days, which may be anything.
CleanHistory(S) ==
    /\ ~WriteLocked
    /\ v1' = Drop(v1, {i \in S : v1[i] # None /\ v1[i].read})
    /\ v2' = Drop(v2, {i \in S : v2[i] # None /\ v2[i].read})
    /\ UNCHANGED <<clock, pin, policy, adm, arch, retention, ops, answers>>

CleanArchive ==
    /\ ~WriteLocked
    /\ arch' = Kept(days)
    /\ UNCHANGED <<clock, pin, policy, v1, v2, adm, retention, ops, answers>>

-----------------------------------------------------------------------------
(* Changing the retention: handleSetComplianceRetention *)

SaveRetention(d) ==
    /\ change = None
    /\ fileDays' = d
    /\ change' = [days |-> d, at |-> "saved"]
    /\ UNCHANGED <<clock, pin, policy, tables, days, ops, answers>>

\* Variants: the new duration alone is purged; the setter takes no write lock.
PurgeByNewDays(d) == d
UnlockedForPurge == TRUE

\* A live increase purges by the old duration.
PurgeDays(d) == IF days < d THEN days ELSE d

\* complianceMu.Lock waits for every storeV2 call.
FreeForPurge == ~ReadLocked

PurgeRetention ==
    /\ change # None
    /\ change.at = "saved"
    /\ FreeForPurge
    /\ arch' = Kept(PurgeDays(change.days))
    /\ change' = [change EXCEPT !.at = "purged"]
    /\ UNCHANGED <<clock, pin, policy, v1, v2, adm, days, fileDays, ops, answers>>

ApplyRetention ==
    /\ WriteLocked
    /\ days' = change.days
    /\ change' = None
    /\ UNCHANGED <<clock, pin, policy, tables, fileDays, ops, answers>>

\* The purge failed: the handler restores the file, or fails to.
RollBackRetention(f) ==
    /\ change # None
    /\ change.at = "saved"
    /\ f \in {days, fileDays}
    /\ fileDays' = f
    /\ change' = None
    /\ UNCHANGED <<clock, pin, policy, tables, days, ops, answers>>

\* Any other console setting saves the live retention with it.
SaveOtherSetting ==
    /\ change = None
    /\ fileDays' = days
    /\ UNCHANGED <<clock, pin, policy, tables, days, change, ops, answers>>

Next ==
    \/ \E p \in Policies \cup {None} : Boot(p)
    \/ Tick
    \/ \E e \in Envs : AdmitRetry(e)
    \/ \E o \in Ops, e \in Envs : AdmitBegin(o, e)
    \/ \E o \in Ops : AdmitEnter(o) \/ AdmitPrior(o) \/ AdmitInsert(o) \/ AdmitRefuse(o)
    \/ \E i \in Ids, r \in Urns, life \in Lifetimes : StoreV1(i, r, life)
    \/ \E i \in Ids : AckV1(i) \/ AckV2(i) \/ DeleteMessage(i)
    \/ \E r \in Urns : PurgeQueue(r)
    \/ CleanMessages \/ CleanV2Messages \/ CleanAdmissions \/ CleanArchive
    \/ \E S \in SUBSET Ids : CleanHistory(S)
    \/ \E d \in RetentionDays : SaveRetention(d)
    \/ PurgeRetention \/ ApplyRetention \/ SaveOtherSetting
    \/ \E f \in RetentionDays : RollBackRetention(f)

Spec == Init /\ [][Next]_vars

-----------------------------------------------------------------------------
(* Properties *)

\* Every variable stays in its type.
TypeOK ==
    /\ clock \in Nat \ {0}
    /\ pin \in Policies \cup {None}
    /\ policy \in Policies \cup {None}
    /\ v1 \in [Ids -> V1Row \cup {None}]
    /\ v2 \in [Ids -> V2Row \cup {None}]
    /\ adm \in [Ids -> Admission \cup {None}]
    /\ arch \in [Ids -> Archived \cup {None}]
    /\ days \in RetentionDays
    /\ fileDays \in RetentionDays
    /\ change \in RetentionChange \cup {None}
    /\ ops \in [Ops -> Op \cup {None}]
    /\ answers \in [Envs -> SUBSET Receipt]

\* One message ID never means a v1 and a v2 message at once, not even after the
\* v2 row was delivered, deleted or cleaned up and only its admission hash or
\* its archived body is left.
OneProtocolPerId ==
    \A i \in Ids : v1[i] # None => v2[i] = None /\ adm[i] = None /\ arch[i] = None

\* The v2 row, the admission hash and the archived body of an ID are of the
\* same envelope, and row and admission carry the same receipt, although each
\* table is cleaned on its own clock.
TablesAgree ==
    \A i \in Ids :
        /\ v2[i] # None /\ adm[i] # None
               => v2[i].env = adm[i].env /\ v2[i].receipt = adm[i].receipt
        /\ v2[i] # None /\ arch[i] # None => v2[i].env = arch[i].env
        /\ adm[i] # None /\ arch[i] # None => adm[i].env = arch[i].env

\* A sender that was told "admitted" in compliance mode gets that very receipt
\* on every retry of the same bytes until the envelope expires: whatever was
\* acknowledged, deleted, purged, cleaned or restarted, and whichever of several
\* concurrent calls won.
RetryGetsTheSameReceipt ==
    \A e \in Envs :
        e.policy.compliance /\ answers[e] # {} /\ clock < e.expiry
            => /\ adm[e.id] # None
               /\ adm[e.id].env = e
               /\ answers[e] = {adm[e.id].receipt}

\* v1 and v2 inserts together never leave a recipient more unread, unexpired
\* messages than the quota.
QuotaHolds ==
    \A r \in Urns : MaxPerURN > 0 => PendingCount(r, clock) <= MaxPerURN

\* Once a retention of zero is live no plaintext body is left, and no admission
\* that was under way when it was set adds one.
ZeroRetentionKeepsNothing ==
    days = 0 => \A i \in Ids : arch[i] = None

\* While the process runs, an archived body that the live retention hides is
\* never shown again, in particular not when the retention is raised before the
\* cleanup worker has removed it.
NoRevival ==
    [][(\E p \in Policies \cup {None} : Boot(p))
       \/ \A i \in Ids : arch[i] # None /\ arch'[i] = arch[i] /\ ~Visible(i)
                             => ~Visible(i)']_vars

\* store.go:859-861: admission hashes "expire with the signed envelope: after
\* that point identical bytes cannot be newly admitted".
NotAdmittedAgain ==
    [][\A i \in Ids :
         v2[i] = None /\ v2'[i] # None /\ v2'[i].env.policy.compliance
         => answers[v2'[i].env] = {}]_vars

\* What an ID stands for, in whichever table that is still recorded.
Owner(i) ==
    IF v1[i] # None THEN V1Message
    ELSE IF v2[i] # None THEN v2[i].env
    ELSE IF adm[i] # None THEN adm[i].env
    ELSE IF arch[i] # None THEN arch[i].env
    ELSE None

Ledger == INSTANCE MessageIds WITH
    Envelopes <- Envs,
    Others <- {V1Message},
    Binding <- {e \in Envs : e.policy.compliance},
    Free <- None,
    owner <- [i \in Ids |-> Owner(i)],
    receipts <- answers

\* The four tables, cleaned on four clocks and written by concurrent calls,
\* implement the ledger of MessageIds: an ID passes from one owner to another
\* only through being free, and whoever was given a receipt owned it then.
ImplementsMessageIds == Ledger!Spec
=============================================================================
