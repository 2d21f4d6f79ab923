------------------------------ MODULE StoreLocks ------------------------------
(***************************************************************************)
(* The locks of the process and the calls that take them.  Each store has  *)
(* one database connection (SetMaxOpenConns(1)) that every statement and   *)
(* transaction occupies; the message store guards its policy, callbacks    *)
(* and subscribers with mu and the archive with complianceMu, the registry *)
(* has a mu of its own, the admin handlers share policyMu.  A handler may  *)
(* hold some of them while it waits for another.                           *)
(*                                                                         *)
(* A call is the list of its acquisitions: what it takes and what it holds *)
(* meanwhile.  Everything else a call does is left out.  A lock that is    *)
(* released and taken again under the same locks (the loops of             *)
(* RetrieveEntry and Ack) is listed once per kind of statement.            *)
(***************************************************************************)
EXTENDS Integers, Sequences

CONSTANTS Threads,    \* the goroutines that serve requests and clean up
          Served,     \* the calls among those of Code that are made
          None        \* no call in progress

VARIABLE call         \* call[t]: the call t is in, and how far it is

vars == <<call>>

-----------------------------------------------------------------------------
(* The locks, numbered in the order in which calls nest them.              *)

policyMu     == 1     \* sync.Mutex of the admin handlers
complianceMu == 2     \* sync.RWMutex of the message store
mu           == 3     \* sync.RWMutex of the message store
conn         == 4     \* the connection of mq.db
regMu        == 5     \* sync.RWMutex of the registry
regConn      == 6     \* the connection of registry.db
auditMu      == 7     \* sync.Mutex of the audit log

Locks == 1..7

R(l) == [lock |-> l, mode |-> "R"]     \* RLock
W(l) == [lock |-> l, mode |-> "W"]     \* Lock of an RWMutex
X(l) == [lock |-> l, mode |-> "X"]     \* Lock of a Mutex, or the connection

Holds == [lock : Locks, mode : {"R", "W", "X"}]

\* "take h while holding the locks of `under`, having released the others".
Take(h, under) == [take |-> h, under |-> under]

Acquisitions == [take : Holds, under : SUBSET Holds]

-----------------------------------------------------------------------------
(* The calls.                                                              *)

\* Each read of a field under a short RLock is an acquisition of its own;
\* IsManagedAt reads the issuer, releases, and then asks the database.
\* The callback forwardAllowed asks the registry while no lock is held.
Peek     == Take(R(mu), {})
Callback == <<Take(R(regMu), {}), Take(X(regConn), {R(regMu)})>>

\* Variant: the grants looked up with IsManagedAt, which locks again.
NotifySubscribersReentrant ==
  <<Take(R(mu), {}), Take(R(mu), {R(mu)}), Take(X(conn), {R(mu)})>>

NotifySubscribers == <<Take(R(mu), {}), Take(X(conn), {R(mu)})>>

\* Peeks, the certificates of a strict policy, peeks, the callback, the
\* transaction, and the notification after it committed.
StoreEnvelope ==
  <<Peek, Take(X(conn), {}), Peek>> \o Callback \o <<Take(X(conn), {})>>
    \o NotifySubscribers

\* Variant: the page of rows still open when a grant is looked up.
RetrieveEntryOpenRows ==
  <<Take(R(mu), {}), Take(X(conn), {R(mu)}), Take(X(conn), {R(mu), X(conn)})>>

\* A page of rows, closed before the grants of its senders are looked up.
RetrieveEntry == <<Take(R(mu), {}), Take(X(conn), {R(mu)}), Take(X(conn), {R(mu)})>>

\* Batches of rows, the grants of their senders, and the update.
Ack == RetrieveEntry \o <<Take(X(conn), {R(mu)})>>

\* RetrieveV2 and AckV2: one statement under RLock.
OneReadUnderMu == <<Take(R(mu), {}), Take(X(conn), {R(mu)})>>

\* A statement or transaction that needs no other lock.
OneStatement == <<Take(X(conn), {})>>

\* AdmitV2: the receipt lookup, then storeV2 under complianceMu.RLock, with
\* the peek at the policy and the callback inside it.
AdmitV2 ==
  <<Take(X(conn), {}),
    Take(R(complianceMu), {}),
    Take(R(mu), {R(complianceMu)}),
    Take(R(regMu), {R(complianceMu)}),
    Take(X(regConn), {R(complianceMu), R(regMu)}),
    Take(X(conn), {R(complianceMu)})>>

StoreV2Frame == <<Peek, Peek>> \o Callback \o <<Take(X(conn), {})>>

EnrollManaged == <<Peek, Take(X(conn), {})>>

\* Variant: the transaction begun before the lock is taken.
WriteUnderMuLate == <<Take(X(conn), {}), Take(W(mu), {X(conn)})>>

\* EnableV2Policy and RevokeManaged: a transaction under Lock.
WriteUnderMu == <<Take(W(mu), {}), Take(X(conn), {W(mu)})>>

\* RegisterSubscriber and UnregisterSubscriber.
ChangeSubscribers == <<Take(W(mu), {})>>

\* cleanup, and the pages of the archive: statements under complianceMu.RLock.
UnderCompliance == <<Take(R(complianceMu), {}), Take(X(conn), {R(complianceMu)})>>

\* handleSetComplianceRetention: the setter and, when it failed, the getter.
SetComplianceRetention ==
  <<Take(X(policyMu), {}),
    Take(W(complianceMu), {X(policyMu)}),
    Take(X(conn), {X(policyMu), W(complianceMu)}),
    Take(R(complianceMu), {X(policyMu)}),
    Take(X(auditMu), {X(policyMu)})>>

\* updateStorage: the live retention, the registry, the audit log.
UpdateStorage ==
  <<Take(X(policyMu), {}),
    Take(R(complianceMu), {X(policyMu)}),
    Take(W(regMu), {X(policyMu)}),
    Take(X(regConn), {X(policyMu), W(regMu)}),
    Take(X(auditMu), {X(policyMu)})>>

\* updateForwarding, handleSetRetention and handleEditableConfigSave.
UpdatePolicy ==
  <<Take(X(policyMu), {}),
    Take(R(complianceMu), {X(policyMu)}),
    Take(X(auditMu), {X(policyMu)})>>

\* handleEditableConfigPreview counts what is affected after it unlocked.
PreviewSettings ==
  <<Take(X(policyMu), {}), Take(R(regMu), {}), Take(X(regConn), {R(regMu)}),
    Take(X(conn), {})>>

\* RegisterWithSignature, EvictEntry and ClearAllEntries.
WriteRegistry == <<Take(W(regMu), {}), Take(X(regConn), {W(regMu)})>>

\* ResolveEntry and ListEntries.
ReadRegistry == Callback

\* The registry's cleanup takes no lock.
CleanRegistry == <<Take(X(regConn), {})>>

Code == {StoreEnvelope, RetrieveEntry, Ack, OneReadUnderMu,
         OneStatement, AdmitV2, StoreV2Frame, EnrollManaged, WriteUnderMu,
         ChangeSubscribers, UnderCompliance, SetComplianceRetention,
         UpdateStorage, UpdatePolicy, PreviewSettings, WriteRegistry,
         ReadRegistry, CleanRegistry}

Calls == [code : Code, at : Nat, phase : {"waiting", "announced", "got"}]

ASSUME NoneAssumption == None \notin Calls

ASSUME ServedAssumption == Served \subseteq Code

-----------------------------------------------------------------------------
(* Go's locks.  A writer of an RWMutex first announces itself, which only  *)
(* one can do at a time: readers that come later wait for it, and it waits *)
(* for the readers that are in.  Locking is not reentrant.                 *)

InCall(t)    == call[t] # None
Current(t)   == call[t].code[call[t].at]
Wanted(t)    == Current(t).take
Announced(t) == InCall(t) /\ call[t].phase = "announced"

Holding(t) ==
  IF ~InCall(t) THEN {}
  ELSE IF call[t].phase = "got" THEN Current(t).under \cup {Wanted(t)}
  ELSE Current(t).under

\* The threads t has to wait for, itself included.
WaitsFor(t) ==
  IF ~InCall(t) \/ call[t].phase = "got" THEN {}
  ELSE {u \in Threads :
          \/ \E h \in Holding(u) :
                h.lock = Wanted(t).lock /\ (Announced(t) \/ h.mode # "R")
          \/ ~Announced(t) /\ Announced(u) /\ Wanted(u).lock = Wanted(t).lock}

Init == call = [t \in Threads |-> None]

Begin(t, code) ==
  /\ ~InCall(t)
  /\ call' = [call EXCEPT ![t] = [code |-> code, at |-> 1, phase |-> "waiting"]]

Announce(t) ==
  /\ InCall(t) /\ call[t].phase = "waiting" /\ Wanted(t).mode = "W"
  /\ WaitsFor(t) = {}
  /\ call' = [call EXCEPT ![t].phase = "announced"]

Acquire(t) ==
  /\ InCall(t)
  /\ \/ call[t].phase = "waiting" /\ Wanted(t).mode # "W"
     \/ call[t].phase = "announced"
  /\ WaitsFor(t) = {}
  /\ call' = [call EXCEPT ![t].phase = "got"]

\* On to a later acquisition: conditions skip some, deferred and explicit
\* unlocks give back what the next one is not made under.
Proceed(t) ==
  /\ InCall(t) /\ call[t].phase = "got"
  /\ \E n \in call[t].at + 1 .. Len(call[t].code) :
       /\ call[t].code[n].under \subseteq Holding(t)
       /\ call' = [call EXCEPT ![t].at = n, ![t].phase = "waiting"]

\* The end of the call or an early return.
Return(t) ==
  /\ InCall(t) /\ call[t].phase = "got"
  /\ call' = [call EXCEPT ![t] = None]

Next == \E t \in Threads :
          \/ \E code \in Served : Begin(t, code)
          \/ Announce(t) \/ Acquire(t) \/ Proceed(t) \/ Return(t)

Spec == Init /\ [][Next]_vars

\* A goroutine that waits for nobody runs on; Unlock hands a lock to those
\* who wait (readers before the next writer), database/sql the connection.
FairSpec ==
  /\ Spec
  /\ \A t \in Threads : /\ WF_vars(Proceed(t) \/ Return(t))
                        /\ SF_vars(Announce(t))
                        /\ SF_vars(Acquire(t))

-----------------------------------------------------------------------------
(* Properties.                                                             *)

\* Every call in progress is at one of its acquisitions.
TypeOK ==
  /\ call \in [Threads -> Calls \cup {None}]
  /\ \A t \in Threads : InCall(t) => call[t].at \in 1..Len(call[t].code)

\* No deadlock among any of the threads, however many others still run: in
\* every set of threads there is one that waits for none of the set.  This
\* is what the order of mu, the connections and the callbacks has to give
\* (store.go:195, :319, v2_store.go:161).
NoDeadlock ==
  \A S \in (SUBSET Threads) \ {{}} : \E t \in S : WaitsFor(t) \cap S = {}

\* Every call returns, readers and writers alike, while others keep coming.
EveryCallReturns == \A t \in Threads : InCall(t) ~> ~InCall(t)
=============================================================================
