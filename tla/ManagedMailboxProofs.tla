------------------------ MODULE ManagedMailboxProofs ------------------------
(***************************************************************************)
(* Proofs about ManagedMailbox, for every set of identities, IDs, policies,*)
(* certificates and concurrent calls.                                      *)
(***************************************************************************)
EXTENDS ManagedMailbox, TLAPS

-----------------------------------------------------------------------------
(* Type correctness *)

LEMMA InitType == Init => TypeOK
  BY InputsAssumption, LegacyAssumption DEF Init, TypeOK

\* Marking rows read keeps them rows.
LEMMA MarkReadType ==
  ASSUME TypeOK, NEW S \in SUBSET {i \in Ids : rows[i] # None}
  PROVE  MarkRead(S) \in [Ids -> Row \cup {None}]
<1>1. ASSUME NEW i \in S PROVE [rows[i] EXCEPT !.read = TRUE] \in Row
  <2>1. rows[i] \in Row
    BY DEF TypeOK
  <2>2. \A row \in Row : [row EXCEPT !.read = TRUE] \in Row
    BY DEF Row
  <2> QED BY <2>1, <2>2
<1>2. ASSUME NEW i \in Ids PROVE rows[i] \in Row \cup {None}
  BY DEF TypeOK
<1> QED BY <1>1, <1>2 DEF MarkRead

\* Deleting rows leaves rows or nothing.
LEMMA WithoutType ==
  ASSUME TypeOK, NEW S \in SUBSET Ids
  PROVE  Without(S) \in [Ids -> Row \cup {None}]
  BY DEF TypeOK, Without

\* A certificate that may be enrolled gets an enrolment time in the past or now.
LEMMA EnrolledAtType ==
  ASSUME TypeOK, NEW c \in Certs
  PROVE  EnrolledAt(c) \in Nat
  BY InputsAssumption DEF TypeOK, EnrolledAt, Live, Grant, Certificate

LEMMA NextType == TypeOK /\ [Next]_vars => TypeOK'
<1> SUFFICES ASSUME TypeOK, [Next]_vars PROVE TypeOK'
  OBVIOUS
<1> USE InputsAssumption
<1>1. ASSUME NEW p \in Policies, PolicyCommit(p) PROVE TypeOK'
  BY <1>1 DEF TypeOK, PolicyCommit
<1>2. CASE PolicyPublish
  <2>1. publishing.require \in BOOLEAN
    BY <1>2, PoliciesAssumption DEF TypeOK, PolicyPublish, Policy
  <2> QED BY <1>2, <2>1 DEF TypeOK, PolicyPublish
<1>3. CASE Restart
  <2>1. Strict(pin) \in BOOLEAN
    BY PoliciesAssumption DEF TypeOK, Strict, Policy
  <2> QED BY <1>3, <2>1 DEF TypeOK, Restart, Reopened
<1>4. CASE Tick
  BY <1>4 DEF TypeOK, Tick
<1>5. ASSUME NEW c \in Certs, EnrollManaged(c) PROVE TypeOK'
  <2>1. grants' \in [Urns -> Grant \cup {None}]
    BY <1>5, EnrolledAtType DEF TypeOK, EnrollManaged, Grant, Certificate
  <2> QED BY <1>5, <2>1 DEF TypeOK, EnrollManaged
<1>6. ASSUME NEW s \in Serials, RevokeManaged(s) PROVE TypeOK'
  <2>1. grants' \in [Urns -> Grant \cup {None}]
    <3>1. \A g \in Grant : [g EXCEPT !.revoked = TRUE] \in Grant
      BY DEF Grant
    <3>2. \A u \in Urns : grants[u] \in Grant \cup {None}
      BY DEF TypeOK
    <3> QED BY <1>6, <3>1, <3>2 DEF RevokeManaged
  <2> QED BY <1>6, <2>1 DEF TypeOK, RevokeManaged
<1>7. ASSUME NEW c \in Stores, NEW i \in Ids, NEW route \in Routes,
             StoreCheck(c, i, route[1], route[2])
      PROVE  TypeOK'
  <2>1. calls' \in [Stores -> Call \cup {None}]
    BY <1>7 DEF TypeOK, StoreCheck, Call
  <2> QED BY <1>7, <2>1 DEF TypeOK, StoreCheck
<1>8. ASSUME NEW c \in Stores, NEW life \in Lifetimes, StoreStamp(c, life)
      PROVE  TypeOK'
  <2>1. (Live(calls[c].sender) \/ Live(calls[c].recipient)) \in BOOLEAN
    BY DEF Live
  <2>2. calls' \in [Stores -> Call \cup {None}]
    BY <1>8, <2>1 DEF TypeOK, StoreStamp, Call
  <2> QED BY <1>8, <2>2 DEF TypeOK, StoreStamp
<1>9. ASSUME NEW c \in Stores, StoreInsert(c) PROVE TypeOK'
  <2>1. rows' \in [Ids -> Row \cup {None}] /\ calls' \in [Stores -> Call \cup {None}]
    BY <1>9 DEF TypeOK, StoreInsert, Call, Row
  <2> QED BY <1>9, <2>1 DEF TypeOK, StoreInsert
<1>10. ASSUME NEW c \in Stores, StoreReturn(c) \/ NotifySubscribers(c) PROVE TypeOK'
  BY <1>10 DEF TypeOK, StoreReturn, NotifySubscribers
<1>11. ASSUME NEW r \in Urns, NEW S \in SUBSET Ids, AckByID(r, S) PROVE TypeOK'
  <2>1. S \cap Pending(r) \in SUBSET {i \in Ids : rows[i] # None}
    BY DEF Pending, Unread
  <2> QED BY <1>11, <2>1, MarkReadType DEF TypeOK, AckByID
<1>12. ASSUME NEW a \in Acks, NEW r \in Urns, NEW S \in SUBSET Ids, AckInspect(a, r, S)
       PROVE  TypeOK'
  <2>1. \A i \in Pending(r) : i \in Ids /\ rows[i].stamp \in Nat
    BY DEF TypeOK, Pending, Unread, Row
  <2>2. acks' \in [Acks -> Ack \cup {None}]
    BY <1>12, <2>1 DEF TypeOK, AckInspect, Ack
  <2> QED BY <1>12, <2>2 DEF TypeOK, AckInspect
<1>13. ASSUME NEW a \in Acks, AckCommit(a) PROVE TypeOK'
  <2>1. {i \in Pending(acks[a].recipient) : Inspected(acks[a], i)}
            \in SUBSET {i \in Ids : rows[i] # None}
    BY DEF Pending, Unread
  <2> QED BY <1>13, <2>1, MarkReadType DEF TypeOK, AckCommit
<1>14. ASSUME NEW i \in Ids, DeleteMessage(i) PROVE TypeOK'
  BY <1>14, WithoutType DEF TypeOK, DeleteMessage
<1>15. ASSUME NEW r \in Urns, PurgeQueue(r) PROVE TypeOK'
  BY <1>15, WithoutType DEF TypeOK, PurgeQueue
<1>16. ASSUME NEW S \in SUBSET Ids, Cleanup(S) PROVE TypeOK'
  BY <1>16, WithoutType DEF TypeOK, Cleanup
<1>17. CASE UNCHANGED vars
  BY <1>17 DEF TypeOK, vars
<1> QED
  BY <1>1, <1>2, <1>3, <1>4, <1>5, <1>6, <1>7, <1>8, <1>9, <1>10, <1>11, <1>12,
     <1>13, <1>14, <1>15, <1>16, <1>17 DEF Next

\* Every variable keeps its type in every reachable state.
THEOREM TypeCorrect == Spec => []TypeOK
  BY InitType, NextType, PTL DEF Spec

-----------------------------------------------------------------------------
(* The pinned policy and the memory that mirrors it *)

\* A pinned policy is only replaced by one of a higher epoch.
THEOREM PinMonotonic == Spec => PinNeverRollsBack
<1>1. TypeOK /\ [Next]_vars
        => (pin # None => pin' = pin \/ (pin' # None /\ pin'.epoch > pin.epoch))
  <2> SUFFICES ASSUME TypeOK, [Next]_vars, pin # None, pin' # pin
               PROVE  pin' # None /\ pin'.epoch > pin.epoch
    OBVIOUS
  <2>1. PICK p \in Policies : PolicyCommit(p)
    BY DEF Next, vars, PolicyPublish, Restart, Tick, EnrollManaged, RevokeManaged,
           StoreCheck, StoreStamp, StoreInsert, StoreReturn, NotifySubscribers,
           AckByID, AckInspect, AckCommit, DeleteMessage, PurgeQueue, Cleanup
  <2>2. p # None /\ pin \in Policies
    BY PoliciesAssumption, InputsAssumption DEF TypeOK
  <2> QED BY <2>1, <2>2, PoliciesAssumption DEF PolicyCommit, Supersedes
<1> QED BY <1>1, TypeCorrect, PTL DEF Spec, PinNeverRollsBack

\* MemoryMirrorsPin needs to know what EnableV2Policy is about to copy.
Mirror ==
    /\ publishing # None => pin = publishing
    /\ MemoryMirrorsPin

LEMMA InitMirror == Init => Mirror
<1> SUFFICES ASSUME Init PROVE Mirror
  OBVIOUS
<1>1. Strict(pin) = FALSE
  BY DEF Strict, Init
<1>2. mem.required = FALSE /\ mem.policy = None /\ publishing = None
  BY DEF Init
<1> QED BY <1>1, <1>2 DEF Mirror, MemoryMirrorsPin

LEMMA NextMirror == TypeOK /\ Mirror /\ [Next]_vars => Mirror'
<1> SUFFICES ASSUME TypeOK, Mirror, [Next]_vars PROVE Mirror'
  OBVIOUS
<1> USE DEF Mirror, MemoryMirrorsPin, Readable
<1>1. ASSUME NEW p \in Policies, PolicyCommit(p) PROVE Mirror'
  <2>1. p # None
    BY PoliciesAssumption, InputsAssumption
  <2> QED BY <1>1, <2>1 DEF PolicyCommit
<1>2. CASE PolicyPublish
  <2>1. publishing.require \in BOOLEAN
    BY <1>2, PoliciesAssumption DEF TypeOK, PolicyPublish, Policy
  <2> QED BY <1>2, <2>1 DEF PolicyPublish, Strict
<1>3. CASE Restart
  BY <1>3 DEF Restart, Reopened, Strict
<1>4. CASE UNCHANGED <<pin, mem, publishing>>
  BY <1>4 DEF Strict
<1> QED
  BY <1>1, <1>2, <1>3, <1>4
     DEF Next, vars, Tick, EnrollManaged, RevokeManaged, StoreCheck, StoreStamp,
         StoreInsert, StoreReturn, NotifySubscribers, AckByID, AckInspect,
         AckCommit, DeleteMessage, PurgeQueue, Cleanup

\* The policy in memory is the pinned one whenever requests can read it.
THEOREM MemoryMirrors == Spec => []MemoryMirrorsPin
<1>1. Mirror => MemoryMirrorsPin
  BY DEF Mirror
<1> QED BY <1>1, InitMirror, NextMirror, TypeCorrect, PTL DEF Spec

\* With a strict pin and no loaded policy nobody is a managed identity.
LEMMA ClosedWithoutPolicy ==
  ASSUME Mirror, Readable, mem.policy = None, Strict(pin)
  PROVE  /\ mem.required
         /\ \A u, t : ~IsManagedAt(u, t)
  BY DEF Mirror, MemoryMirrorsPin, IsManagedAt

NothingInFlight ==
    Readable /\ mem.policy = None /\ Strict(pin) =>
        (\A c \in Stores : calls[c] = None) /\ (\A a \in Acks : acks[a] = None)

LEMMA InitInFlight == Init => NothingInFlight
  BY DEF Init, NothingInFlight

LEMMA NextInFlight == TypeOK /\ Mirror /\ NothingInFlight /\ [Next]_vars => NothingInFlight'
<1> SUFFICES ASSUME TypeOK, Mirror, NothingInFlight, [Next]_vars,
                    Readable', mem'.policy = None, Strict(pin)'
             PROVE  /\ \A c \in Stores : calls'[c] = None
                    /\ \A a \in Acks : acks'[a] = None
  BY DEF NothingInFlight
<1>1. CASE Restart
  BY <1>1 DEF Restart
<1>2. CASE PolicyPublish
  BY <1>2 DEF PolicyPublish, Readable
<1>3. ASSUME NEW p \in Policies, PolicyCommit(p) PROVE FALSE
  BY <1>3, PoliciesAssumption, InputsAssumption DEF PolicyCommit, Readable
<1>4. CASE UNCHANGED <<pin, mem, publishing>>
  <2>1. Readable /\ mem.policy = None /\ Strict(pin)
    BY <1>4 DEF Readable, Strict
  <2>2. mem.required /\ \A u, t : ~IsManagedAt(u, t)
    BY <2>1, ClosedWithoutPolicy
  <2>3. (\A c \in Stores : calls[c] = None) /\ (\A a \in Acks : acks[a] = None)
    BY <2>1 DEF NothingInFlight
  <2>4. ASSUME NEW c \in Stores, NEW i \in Ids, NEW s, NEW r, StoreCheck(c, i, s, r)
        PROVE  FALSE
    BY <2>2, <2>4 DEF StoreCheck, PassesFastCheck
  <2>5. ASSUME NEW a \in Acks, NEW r, NEW S, AckInspect(a, r, S) PROVE FALSE
    BY <2>2, <2>5 DEF AckInspect, Deliverable
  <2>6. ASSUME NEW c \in Stores
        PROVE  /\ ~StoreInsert(c) /\ ~StoreReturn(c) /\ ~NotifySubscribers(c)
               /\ \A life \in Lifetimes : ~StoreStamp(c, life)
    BY <2>3 DEF StoreInsert, StoreReturn, NotifySubscribers, StoreStamp
  <2>7. ASSUME NEW a \in Acks PROVE ~AckCommit(a)
    BY <2>3 DEF AckCommit
  <2>8. Restart \/ UNCHANGED <<calls, acks>>
    <3>1. Next \/ UNCHANGED vars
      OBVIOUS
    <3> QED
      BY <3>1, <1>3, <2>4, <2>5, <2>6, <2>7
         DEF Next, vars, Tick, EnrollManaged, RevokeManaged, AckByID,
             DeleteMessage, PurgeQueue, Cleanup, PolicyPublish
  <2> QED BY <1>1, <2>3, <2>8
<1> QED
  BY <1>1, <1>2, <1>3, <1>4
     DEF Next, vars, Tick, EnrollManaged, RevokeManaged, StoreCheck, StoreStamp,
         StoreInsert, StoreReturn, NotifySubscribers, AckByID, AckInspect,
         AckCommit, DeleteMessage, PurgeQueue, Cleanup

\* A restart without a gateway keeps a strict pin closed.
THEOREM FailClosed == Spec => []FailClosedWithoutGateway
<1>1. Mirror /\ NothingInFlight => FailClosedWithoutGateway
  BY ClosedWithoutPolicy DEF NothingInFlight, FailClosedWithoutGateway, Deliverable
<1> QED
  BY <1>1, InitMirror, NextMirror, InitInFlight, NextInFlight, TypeCorrect, PTL DEF Spec

-----------------------------------------------------------------------------
(* Revocation *)

LEMMA NextRevoked == TypeOK /\ RevokedSerialStaysDead /\ [Next]_vars => RevokedSerialStaysDead'
<1> SUFFICES ASSUME TypeOK, RevokedSerialStaysDead, [Next]_vars
             PROVE  RevokedSerialStaysDead'
  OBVIOUS
<1> USE DEF RevokedSerialStaysDead
<1>1. ASSUME NEW c \in Certs, EnrollManaged(c) PROVE RevokedSerialStaysDead'
  <2>1. c.serial \notin revocations /\ grants \in [Urns -> Grant \cup {None}]
    BY <1>1 DEF EnrollManaged, MayEnroll, TypeOK
  <2> QED BY <1>1, <2>1 DEF EnrollManaged
<1>2. ASSUME NEW s \in Serials, RevokeManaged(s) PROVE RevokedSerialStaysDead'
  <2>1. ASSUME NEW u \in Urns, grants[u] # None PROVE grants[u] \in Grant
    BY <2>1 DEF TypeOK
  <2>2. \A g \in Grant : LET h == [g EXCEPT !.revoked = TRUE]
                         IN  h.revoked /\ h.serial = g.serial
    BY DEF Grant
  <2> QED BY <1>2, <2>1, <2>2 DEF RevokeManaged
<1>3. CASE UNCHANGED <<grants, revocations>>
  BY <1>3
<1> QED
  BY <1>1, <1>2, <1>3
     DEF Next, vars, PolicyCommit, PolicyPublish, Restart, Tick, StoreCheck,
         StoreStamp, StoreInsert, StoreReturn, NotifySubscribers, AckByID,
         AckInspect, AckCommit, DeleteMessage, PurgeQueue, Cleanup

\* A revoked serial never backs an unrevoked grant.
THEOREM RevokedStaysDead == Spec => []RevokedSerialStaysDead
<1>1. Init => RevokedSerialStaysDead
  BY DEF Init, RevokedSerialStaysDead
<1> QED BY <1>1, NextRevoked, TypeCorrect, PTL DEF Spec

-----------------------------------------------------------------------------
(* Certification: what a stamp says about the row that carries it *)

Mark(x) == [sender |-> x.sender, recipient |-> x.recipient,
            stamp |-> x.stamp, certified |-> x.certified]

\* The stamps in the system: of rows and of StoreEnvelope calls.
Marks == {Mark(rows[i]) : i \in {j \in Ids : rows[j] # None}}
             \cup {Mark(calls[c]) : c \in {d \in Stores : calls[d] # None}}

\* A live certificate enrolled before the stamp proves the stamp certified.
Backed(m) ==
    \A u \in {m.sender, m.recipient} :
        Live(u) /\ grants[u].enrolled <= m.stamp => m.certified

\* The strengthening of NoRetroactiveCertification and NoQuarantinedAck: stamps
\* lie in the past, equal stamps agree, every stamp is backed, and whatever an
\* ACK has picked is certified.
CertInv ==
    /\ \A u \in Urns : grants[u] # None => grants[u].enrolled > 0
    /\ \A m \in Marks : m.stamp < clock /\ Backed(m)
    /\ \A m, n \in Marks : m.stamp = n.stamp /\ m.stamp # 0
                             => m.certified = n.certified
    /\ \A a \in Acks : acks[a] # None =>
           \A p \in acks[a].picked :
               /\ p[2] # 0
               /\ p[2] < clock
               /\ \A m \in Marks : m.stamp = p[2] => m.certified

LEMMA MarkType ==
  ASSUME TypeOK, NEW m \in Marks
  PROVE  m \in [sender : Urns, recipient : Urns, stamp : Nat, certified : BOOLEAN]
<1>1. ASSUME NEW i \in Ids, rows[i] # None, m = Mark(rows[i])
      PROVE  m \in [sender : Urns, recipient : Urns, stamp : Nat, certified : BOOLEAN]
  <2>1. rows[i] \in Row
    BY <1>1 DEF TypeOK
  <2> QED BY <1>1, <2>1 DEF Mark, Row
<1>2. ASSUME NEW c \in Stores, calls[c] # None, m = Mark(calls[c])
      PROVE  m \in [sender : Urns, recipient : Urns, stamp : Nat, certified : BOOLEAN]
  <2>1. calls[c] \in Call
    BY <1>2 DEF TypeOK
  <2> QED BY <1>2, <2>1 DEF Mark, Call
<1> QED BY <1>1, <1>2 DEF Marks

\* Where a mark of the next state comes from, if rows change by deletion or by
\* being read, and calls end or stay.
LEMMA MarksShrink ==
  ASSUME TypeOK, TypeOK',
         \A i \in Ids : rows'[i] # None =>
             \/ rows[i] # None /\ Mark(rows'[i]) = Mark(rows[i])
             \/ \E c \in Stores : calls[c] # None /\ Mark(rows'[i]) = Mark(calls[c]),
         \A c \in Stores : calls'[c] # None =>
             calls[c] # None /\ Mark(calls'[c]) = Mark(calls[c])
  PROVE  Marks' \subseteq Marks
  BY DEF Marks

\* A step that adds no stamp keeps CertInv if a certificate that is live after
\* it was live before with the same enrolment time, or is enrolled by it.
LEMMA CertInvKept ==
  ASSUME TypeOK, TypeOK', CertInv,
         Marks' \subseteq Marks,
         clock' >= clock,
         \A a \in Acks : acks'[a] = None \/ acks'[a] = acks[a],
         \A u \in Urns : grants'[u] # None =>
             /\ grants'[u].enrolled > 0
             /\ Live(u)' => \/ grants'[u].enrolled >= clock
                            \/ Live(u) /\ grants'[u].enrolled = grants[u].enrolled
  PROVE  CertInv'
<1>1. ASSUME NEW m \in Marks'
      PROVE  m.stamp < clock' /\ Backed(m)'
  <2>1. m \in Marks /\ m.stamp < clock /\ Backed(m) /\ clock \in Nat /\ clock' \in Nat
    BY <1>1 DEF CertInv, TypeOK
  <2>2. m.stamp \in Nat /\ m.sender \in Urns /\ m.recipient \in Urns
    BY <2>1, MarkType
  <2>3. ASSUME NEW u \in {m.sender, m.recipient}, Live(u)', grants'[u].enrolled <= m.stamp
        PROVE  m.certified
    <3>1. u \in Urns /\ grants'[u] # None
      BY <2>2, <2>3 DEF Live
    <3>2. grants'[u].enrolled \in Nat
      BY <3>1 DEF TypeOK, Grant
    <3>3. ~(grants'[u].enrolled >= clock)
      BY <2>1, <2>2, <2>3, <3>2
    <3> QED BY <2>1, <2>3, <3>1, <3>3 DEF Backed
  <2> QED BY <2>1, <2>2, <2>3 DEF Backed
<1>2. ASSUME NEW a \in Acks, acks'[a] # None, NEW p \in acks'[a].picked
      PROVE  p[2] # 0 /\ p[2] < clock' /\ \A m \in Marks' : m.stamp = p[2] => m.certified
  <2>1. acks'[a] = acks[a] /\ acks[a] \in Ack
    BY <1>2 DEF TypeOK
  <2>2. p[2] \in Nat
    BY <1>2, <2>1 DEF Ack
  <2> QED BY <1>2, <2>1, <2>2 DEF CertInv, TypeOK
<1> QED BY <1>1, <1>2 DEF CertInv

\* Reading a row does not touch what its mark says.
LEMMA MarkOfRead ==
  ASSUME TypeOK, NEW S \in SUBSET {i \in Ids : rows[i] # None}, NEW i \in Ids
  PROVE  /\ MarkRead(S)[i] = None <=> rows[i] = None
         /\ rows[i] # None => Mark(MarkRead(S)[i]) = Mark(rows[i])
<1>1. ASSUME rows[i] # None PROVE rows[i] \in Row
  BY <1>1 DEF TypeOK
<1>2. \A row \in Row : LET r == [row EXCEPT !.read = TRUE]
                       IN  r # None /\ Mark(r) = Mark(row)
  BY InputsAssumption DEF Row, Mark
<1> QED BY <1>1, <1>2 DEF MarkRead

LEMMA InitCert == Init => CertInv
<1> SUFFICES ASSUME Init PROVE CertInv
  OBVIOUS
<1>1. TypeOK
  BY InitType
<1>2. ASSUME NEW m \in Marks PROVE m.stamp = 0 /\ ~m.certified
  BY LegacyAssumption DEF Init, Marks, Mark
<1>3. \A u \in Urns : grants[u] = None
  BY DEF Init
<1>4. ASSUME NEW m \in Marks PROVE Backed(m)
  BY <1>1, <1>3, MarkType DEF Backed, Live
<1> QED BY <1>2, <1>3, <1>4 DEF Init, CertInv

\* A grant found live at the clock of a managed check backs the stamp.
LEMMA ManagedIsLive ==
  ASSUME NEW u, NEW t, IsManagedAt(u, t)
  PROVE  Live(u) /\ grants[u].enrolled <= t /\ t # 0
  BY DEF IsManagedAt, Permits, Live

\* What can be delivered under a strict policy is certified.
LEMMA DeliverableIsCertified ==
  ASSUME TypeOK, CertInv, mem.required, NEW x, Mark(x) \in Marks, Deliverable(x)
  PROVE  x.certified /\ x.stamp # 0
<1>1. PICK u \in {x.sender, x.recipient} : IsManagedAt(u, x.stamp)
  BY DEF Deliverable
<1>2. Backed(Mark(x))
  BY DEF CertInv
<1> QED BY <1>1, <1>2, ManagedIsLive DEF Backed, Mark

LEMMA NextCert == TypeOK /\ TypeOK' /\ CertInv /\ [Next]_vars => CertInv'
<1> SUFFICES ASSUME TypeOK, TypeOK', CertInv, [Next]_vars PROVE CertInv'
  OBVIOUS
<1>a. clock \in Nat
  BY DEF TypeOK
<1>b. ASSUME UNCHANGED <<clock, grants>>
      PROVE  \A u \in Urns : grants'[u] # None =>
                 /\ grants'[u].enrolled > 0
                 /\ Live(u)' => Live(u) /\ grants'[u].enrolled = grants[u].enrolled
  BY <1>b DEF CertInv, Live
<1>c. UNCHANGED <<rows, calls>> => Marks' = Marks
  BY DEF Marks
<1>1. ASSUME NEW p \in Policies, PolicyCommit(p) PROVE CertInv'
  BY <1>1, <1>a, <1>b, <1>c, CertInvKept DEF PolicyCommit
<1>2. CASE PolicyPublish
  BY <1>2, <1>a, <1>b, <1>c, CertInvKept DEF PolicyPublish
<1>3. CASE Restart
  <2>1. Marks' \subseteq Marks
    BY <1>3, MarksShrink DEF Restart
  <2> QED BY <1>3, <1>a, <1>b, <2>1, CertInvKept DEF Restart
<1>4. CASE Tick
  <2>1. ASSUME NEW u \in Urns, grants'[u] # None
        PROVE  /\ grants'[u].enrolled > 0
               /\ Live(u)' => Live(u) /\ grants'[u].enrolled = grants[u].enrolled
    <3>1. grants[u] \in Grant
      BY <1>4, <2>1 DEF Tick, TypeOK
    <3> QED BY <1>4, <1>a, <2>1, <3>1 DEF Tick, Live, CertInv, Grant
  <2> QED BY <1>4, <1>a, <1>c, <2>1, CertInvKept DEF Tick
<1>5. ASSUME NEW c \in Certs, EnrollManaged(c) PROVE CertInv'
  <2>1. ASSUME NEW u \in Urns, grants'[u] # None
        PROVE  /\ grants'[u].enrolled > 0
               /\ Live(u)' => \/ grants'[u].enrolled >= clock
                              \/ Live(u) /\ grants'[u].enrolled = grants[u].enrolled
    <3>1. CASE u # c.urn
      BY <1>5, <2>1, <3>1 DEF EnrollManaged, TypeOK, CertInv, Live
    <3>2. CASE u = c.urn
      <4>1. grants'[u].enrolled = EnrolledAt(c)
        BY <1>5, <3>2 DEF EnrollManaged, TypeOK
      <4>2. EnrolledAt(c) = clock \/ (Live(u) /\ EnrolledAt(c) = grants[u].enrolled)
        BY <3>2 DEF EnrolledAt
      <4> QED BY <4>1, <4>2 DEF CertInv, TypeOK, Live
    <3> QED BY <3>1, <3>2
  <2> QED BY <1>5, <1>a, <1>c, <2>1, CertInvKept DEF EnrollManaged
<1>6. ASSUME NEW s \in Serials, RevokeManaged(s) PROVE CertInv'
  <2>1. ASSUME NEW u \in Urns, grants'[u] # None
        PROVE  /\ grants'[u].enrolled > 0
               /\ Live(u)' => Live(u) /\ grants'[u].enrolled = grants[u].enrolled
    <3>1. grants[u] # None /\ grants[u] \in Grant
      BY <1>6, <2>1 DEF RevokeManaged, TypeOK
    <3>2. \/ grants'[u] = grants[u]
          \/ grants'[u] = [grants[u] EXCEPT !.revoked = TRUE]
      BY <1>6 DEF RevokeManaged
    <3> QED BY <1>6, <2>1, <3>1, <3>2 DEF RevokeManaged, CertInv, Live, Grant
  <2> QED BY <1>6, <1>a, <1>c, <2>1, CertInvKept DEF RevokeManaged
<1>7. ASSUME NEW c \in Stores, NEW i \in Ids, NEW route \in Routes,
             StoreCheck(c, i, route[1], route[2])
      PROVE  CertInv'
  <2>1. ASSUME NEW m \in Marks' PROVE m \in Marks \/ m.stamp = 0
    <3>1. Mark(calls'[c]).stamp = 0 /\ \A d \in Stores \ {c} : calls'[d] = calls[d]
      BY <1>7 DEF StoreCheck, Mark, TypeOK
    <3> QED BY <1>7, <3>1 DEF StoreCheck, Marks
  <2>2. ASSUME NEW m \in Marks', m.stamp = 0
        PROVE  m.stamp < clock' /\ Backed(m)'
    <3>1. m.sender \in Urns /\ m.recipient \in Urns
      <4>1. \A x \in Marks : x.sender \in Urns /\ x.recipient \in Urns
        BY MarkType
      <4>2. m \in Marks \/ m = Mark(calls'[c])
        BY <1>7 DEF StoreCheck, Marks, TypeOK
      <4>3. calls'[c].sender \in Urns /\ calls'[c].recipient \in Urns
        BY <1>7, InputsAssumption DEF StoreCheck, TypeOK
      <4> QED BY <4>1, <4>2, <4>3 DEF Mark
    <3>2. \A u \in Urns : Live(u)' => grants'[u].enrolled > 0 /\ grants'[u].enrolled \in Nat
      BY <1>7 DEF StoreCheck, Live, CertInv, TypeOK, Grant
    <3> QED BY <1>7, <1>a, <2>2, <3>1, <3>2 DEF StoreCheck, Backed, TypeOK
  <2>3. \A m \in Marks : m.stamp < clock' /\ Backed(m)'
    BY <1>7 DEF StoreCheck, CertInv, Backed, Live
  <2> QED BY <1>7, <2>1, <2>2, <2>3 DEF StoreCheck, CertInv
<1>8. ASSUME NEW c \in Stores, NEW life \in Lifetimes, StoreStamp(c, life) PROVE CertInv'
  <2> DEFINE new == Mark(calls'[c])
  <2>1. calls[c] \in Call
    BY <1>8 DEF StoreStamp, TypeOK
  <2>2. /\ new.sender = calls[c].sender /\ new.recipient = calls[c].recipient
        /\ new.stamp = clock
        /\ new.certified = (Live(calls[c].sender) \/ Live(calls[c].recipient))
    BY <1>8, <2>1 DEF StoreStamp, Mark, TypeOK, Call
  <2>3. Marks' \subseteq Marks \cup {new}
    BY <1>8 DEF StoreStamp, Marks, TypeOK
  <2>4. \A u \in Urns : Live(u)' => Live(u) /\ grants'[u] = grants[u]
    <3>1. \A u \in Urns : grants[u] # None => grants[u].expires \in Nat
      BY DEF TypeOK, Grant
    <3> QED BY <1>8, <1>a, <3>1 DEF StoreStamp, Live
  <2>5. \A m \in Marks : /\ m.stamp < clock /\ m.stamp \in Nat /\ Backed(m)
                        /\ m.sender \in Urns /\ m.recipient \in Urns
    BY MarkType DEF CertInv
  <2>6. ASSUME NEW m \in Marks' PROVE m.stamp < clock' /\ Backed(m)'
    <3>1. CASE m \in Marks
      BY <1>8, <1>a, <2>4, <2>5, <3>1 DEF StoreStamp, Backed
    <3>2. CASE m = new
      <4>1. m.stamp < clock'
        BY <1>8, <1>a, <2>2, <3>2 DEF StoreStamp
      <4>2. new.sender \in Urns /\ new.recipient \in Urns
        BY <2>1, <2>2 DEF Call
      <4>3. ASSUME NEW u \in {m.sender, m.recipient}, Live(u)' PROVE m.certified
        BY <2>2, <2>4, <3>2, <4>2, <4>3
      <4> QED BY <4>1, <4>3 DEF Backed
    <3> QED BY <2>3, <3>1, <3>2
  <2>7. ASSUME NEW m \in Marks', NEW n \in Marks', m.stamp = n.stamp, m.stamp # 0
        PROVE  m.certified = n.certified
    BY <1>a, <2>2, <2>3, <2>5, <2>7 DEF CertInv
  <2>8. ASSUME NEW a \in Acks, acks'[a] # None, NEW p \in acks'[a].picked
        PROVE  p[2] # 0 /\ p[2] < clock' /\ \A m \in Marks' : m.stamp = p[2] => m.certified
    <3>1. acks'[a] = acks[a] /\ acks[a] \in Ack
      BY <1>8, <2>8 DEF StoreStamp, TypeOK
    <3>2. p[2] \in Nat
      BY <2>8, <3>1 DEF Ack
    <3>3. p[2] # 0 /\ p[2] < clock /\ \A m \in Marks : m.stamp = p[2] => m.certified
      BY <2>8, <3>1 DEF CertInv
    <3>4. p[2] < clock'
      BY <1>8, <1>a, <3>2, <3>3 DEF StoreStamp
    <3>5. new.stamp # p[2]
      BY <1>a, <2>2, <3>2, <3>3
    <3> QED BY <2>3, <3>3, <3>4, <3>5
  <2> QED BY <1>8, <2>6, <2>7, <2>8 DEF StoreStamp, CertInv
<1>9. ASSUME NEW c \in Stores, StoreInsert(c) PROVE CertInv'
  <2>1. calls[c] \in Call
    BY <1>9 DEF StoreInsert, TypeOK
  <2>2. ASSUME NEW i \in Ids, rows'[i] # None
        PROVE  \/ rows[i] # None /\ Mark(rows'[i]) = Mark(rows[i])
               \/ \E d \in Stores : calls[d] # None /\ Mark(rows'[i]) = Mark(calls[d])
    BY <1>9, <2>2 DEF StoreInsert, TypeOK, Mark
  <2>3. ASSUME NEW d \in Stores, calls'[d] # None
        PROVE  calls[d] # None /\ Mark(calls'[d]) = Mark(calls[d])
    BY <1>9, <2>1, <2>3 DEF StoreInsert, TypeOK, Mark, Call
  <2>4. Marks' \subseteq Marks
    BY <2>2, <2>3, MarksShrink
  <2> QED BY <1>9, <1>a, <1>b, <2>4, CertInvKept DEF StoreInsert
<1>10. ASSUME NEW c \in Stores, StoreReturn(c) \/ NotifySubscribers(c) PROVE CertInv'
  <2>1. Marks' \subseteq Marks
    BY <1>10, MarksShrink DEF StoreReturn, NotifySubscribers, TypeOK
  <2> QED BY <1>10, <1>a, <1>b, <2>1, CertInvKept DEF StoreReturn, NotifySubscribers
<1>11. ASSUME NEW r \in Urns, NEW S \in SUBSET Ids, AckByID(r, S) PROVE CertInv'
  <2>1. S \cap Pending(r) \in SUBSET {i \in Ids : rows[i] # None}
    BY DEF Pending, Unread
  <2>2. Marks' \subseteq Marks
    BY <1>11, <2>1, MarkOfRead, MarksShrink DEF AckByID
  <2> QED BY <1>11, <1>a, <1>b, <2>2, CertInvKept DEF AckByID
<1>12. ASSUME NEW a \in Acks, NEW r \in Urns, NEW S \in SUBSET Ids, AckInspect(a, r, S)
       PROVE  CertInv'
  <2>1. ASSUME NEW p \in acks'[a].picked
        PROVE  p[2] # 0 /\ p[2] < clock /\ \A m \in Marks : m.stamp = p[2] => m.certified
    <3>1. PICK i \in S \cap Pending(r) : Deliverable(rows[i]) /\ p = <<i, rows[i].stamp>>
      BY <1>12, <2>1 DEF AckInspect, TypeOK
    <3>2. Mark(rows[i]) \in Marks
      BY <3>1 DEF Marks, Pending, Unread
    <3>3. rows[i].certified /\ rows[i].stamp # 0
      BY <1>12, <3>1, <3>2, DeliverableIsCertified DEF AckInspect
    <3> QED BY <3>1, <3>2, <3>3 DEF CertInv, Mark
  <2>2. \A b \in Acks \ {a} : acks'[b] = acks[b]
    BY <1>12 DEF AckInspect, TypeOK
  <2>3. Marks' = Marks
    BY <1>12, <1>c DEF AckInspect
  <2>4. UNCHANGED <<clock, grants>> /\ \A m : Backed(m)' = Backed(m)
    BY <1>12 DEF AckInspect, Backed, Live
  <2> QED BY <2>1, <2>2, <2>3, <2>4 DEF CertInv
<1>13. ASSUME NEW a \in Acks, AckCommit(a) PROVE CertInv'
  <2> DEFINE S == {i \in Pending(acks[a].recipient) : Inspected(acks[a], i)}
  <2>1. S \in SUBSET {i \in Ids : rows[i] # None}
    BY DEF Pending, Unread
  <2>2. rows' = MarkRead(S) /\ UNCHANGED calls
    BY <1>13 DEF AckCommit
  <2>3. Marks' \subseteq Marks
    BY <2>1, <2>2, MarkOfRead, MarksShrink
  <2> QED BY <1>13, <1>a, <1>b, <2>3, CertInvKept DEF AckCommit, TypeOK
<1>14. ASSUME NEW S \in SUBSET Ids, rows' = Without(S),
              UNCHANGED <<clock, grants, calls, acks>>
       PROVE  CertInv'
  <2>1. Marks' \subseteq Marks
    BY <1>14, MarksShrink DEF Without
  <2> QED BY <1>14, <1>a, <1>b, <2>1, CertInvKept
<1>15. ASSUME NEW i \in Ids, DeleteMessage(i) PROVE CertInv'
  BY <1>14, <1>15 DEF DeleteMessage
<1>16. ASSUME NEW r \in Urns, PurgeQueue(r) PROVE CertInv'
  BY <1>14, <1>16 DEF PurgeQueue
<1>17. ASSUME NEW S \in SUBSET Ids, Cleanup(S) PROVE CertInv'
  BY <1>14, <1>17 DEF Cleanup
<1>18. CASE UNCHANGED vars
  BY <1>18, <1>a, <1>b, <1>c, CertInvKept DEF vars
<1> QED
  BY <1>1, <1>2, <1>3, <1>4, <1>5, <1>6, <1>7, <1>8, <1>9, <1>10, <1>11, <1>12,
     <1>13, <1>15, <1>16, <1>17, <1>18 DEF Next

\* Old rows are not opened by certificates that came after them.
THEOREM NotRetroactive == Spec => []NoRetroactiveCertification
<1>1. TypeOK /\ CertInv => NoRetroactiveCertification
  <2> SUFFICES ASSUME TypeOK, CertInv, mem.required PROVE NoRetroactiveCertification
    BY DEF NoRetroactiveCertification
  <2>1. ASSUME NEW i \in Ids, rows[i] # None, Deliverable(rows[i]) PROVE rows[i].certified
    BY <2>1, DeliverableIsCertified DEF Marks
  <2>2. ASSUME NEW c \in Stores, calls[c] # None, Deliverable(calls[c])
        PROVE  calls[c].certified
    BY <2>2, DeliverableIsCertified DEF Marks
  <2> QED BY <2>1, <2>2 DEF NoRetroactiveCertification, Unread
<1> QED BY <1>1, InitCert, NextCert, TypeCorrect, PTL DEF Spec

\* Nothing but a store makes a row, nothing but an ACK marks one read.
LEMMA RowChange ==
  ASSUME TypeOK, [Next]_vars, NEW i \in Ids, rows'[i] # rows[i], rows'[i] # None
  PROVE  \/ \E c \in Stores : StoreInsert(c) /\ i = calls[c].id
         \/ \E r \in Urns, S \in SUBSET Ids : AckByID(r, S) /\ rows[i] # None
         \/ \E a \in Acks : /\ AckCommit(a) /\ rows[i] # None
                             /\ Inspected(acks[a], i)
<1>1. rows' # rows
  OBVIOUS
<1>2. ASSUME NEW S \in SUBSET Ids, rows' = Without(S) PROVE FALSE
  BY <1>2 DEF Without, TypeOK
<1>3. \/ \E c \in Stores : StoreInsert(c)
      \/ \E r \in Urns, S \in SUBSET Ids : AckByID(r, S)
      \/ \E a \in Acks : AckCommit(a)
  BY <1>1, <1>2
     DEF Next, vars, PolicyCommit, PolicyPublish, Restart, Tick, EnrollManaged,
         RevokeManaged, StoreCheck, StoreStamp, StoreReturn, NotifySubscribers,
         AckInspect, DeleteMessage, PurgeQueue, Cleanup
<1>4. ASSUME NEW c \in Stores, StoreInsert(c) PROVE i = calls[c].id
  BY <1>4 DEF StoreInsert, TypeOK
<1>5. ASSUME NEW r \in Urns, NEW S \in SUBSET Ids, AckByID(r, S) PROVE rows[i] # None
  BY <1>5 DEF AckByID, MarkRead, Pending, Unread, TypeOK
<1>6. ASSUME NEW a \in Acks, AckCommit(a) PROVE rows[i] # None /\ Inspected(acks[a], i)
  BY <1>6 DEF AckCommit, MarkRead, Pending, Unread, TypeOK
<1> QED BY <1>3, <1>4, <1>5, <1>6

\* A strict policy lets nobody consume rows it hides, ID reuse included.
THEOREM QuarantineNotConsumed == Spec => NoQuarantinedAck
<1>1. TypeOK /\ CertInv /\ [Next]_vars =>
        \A i \in Ids : mem.required /\ rows[i] # None /\ ~rows[i].read
                             /\ rows'[i] # None /\ rows'[i].read
                       => rows[i].certified
  <2> SUFFICES ASSUME TypeOK, CertInv, [Next]_vars, NEW i \in Ids, mem.required,
                      rows[i] # None, ~rows[i].read, rows'[i] # None, rows'[i].read
               PROVE  rows[i].certified
    OBVIOUS
  <2>1. ~(\E c \in Stores : StoreInsert(c) /\ i = calls[c].id)
    BY DEF StoreInsert
  <2>2. ~(\E r \in Urns, S \in SUBSET Ids : AckByID(r, S))
    BY DEF AckByID
  <2>3. PICK a \in Acks : AckCommit(a) /\ Inspected(acks[a], i)
    BY <2>1, <2>2, RowChange
  <2>4. acks[a] # None /\ <<i, rows[i].stamp>> \in acks[a].picked
    BY <2>3 DEF AckCommit, Inspected
  <2>5. Mark(rows[i]) \in Marks
    BY DEF Marks
  <2> QED BY <2>4, <2>5 DEF CertInv, Mark
<1> QED BY <1>1, InitCert, NextCert, TypeCorrect, PTL DEF Spec, NoQuarantinedAck

\* No policy switch slips in between the fast check and the insert.
THEOREM InsertObeysPin == Spec => NoInsertPastThePin
<1>1. TypeOK /\ [Next]_vars =>
        \A i \in Ids : rows[i] = None /\ rows'[i] # None /\ Strict(pin)
                       => Live(rows'[i].sender) \/ Live(rows'[i].recipient)
  <2> SUFFICES ASSUME TypeOK, [Next]_vars, NEW i \in Ids,
                      rows[i] = None, rows'[i] # None, Strict(pin)
               PROVE  Live(rows'[i].sender) \/ Live(rows'[i].recipient)
    OBVIOUS
  <2>1. PICK c \in Stores : StoreInsert(c) /\ i = calls[c].id
    BY RowChange
  <2>2. ManagedInTx(calls[c].sender) \/ ManagedInTx(calls[c].recipient)
    BY <2>1 DEF StoreInsert, PinAllows, Strict
  <2>3. rows'[i].sender = calls[c].sender /\ rows'[i].recipient = calls[c].recipient
    BY <2>1 DEF StoreInsert, TypeOK
  <2> QED BY <2>2, <2>3 DEF ManagedInTx
<1> QED BY <1>1, TypeCorrect, PTL DEF Spec, NoInsertPastThePin
\* A renewal in time, under the same issuer, hides no row stamped after the new
\* certificate begins: the enrolment time it inherits is the one that already
\* opened the row, and the stamp is older than the clock at which it is good.
THEOREM RenewalKeeps == Spec => RenewalKeepsRows
<1>1. TypeOK /\ CertInv =>
        \A c \in Certs, i \in Ids :
            EnrollManaged(c) /\ mem.required
                /\ rows[i] # None /\ Deliverable(rows[i]) /\ c.notBefore <= rows[i].stamp
            => Deliverable(rows[i])'
  <2> SUFFICES ASSUME TypeOK, CertInv, NEW c \in Certs, NEW i \in Ids,
                      EnrollManaged(c), mem.required, rows[i] # None,
                      Deliverable(rows[i]), c.notBefore <= rows[i].stamp
               PROVE  Deliverable(rows[i])'
    OBVIOUS
  <2> DEFINE t == rows[i].stamp
  <2>1. UNCHANGED <<clock, rows, mem>>
    BY DEF EnrollManaged
  <2>2. /\ rows[i] \in Row /\ t \in Nat /\ clock \in Nat
        /\ c.notBefore \in Nat /\ c.expires \in Nat
    BY InputsAssumption DEF TypeOK, Row, Certificate
  <2>3. PICK u \in {rows[i].sender, rows[i].recipient} : IsManagedAt(u, t)
    BY DEF Deliverable
  <2>4. u \in Urns /\ grants[u] # None /\ grants[u] \in Grant
    BY <2>2, <2>3 DEF Row, IsManagedAt, Permits, TypeOK
  <2>5. CASE u # c.urn
    <3>1. grants'[u] = grants[u]
      BY <2>4, <2>5 DEF EnrollManaged, TypeOK
    <3>2. IsManagedAt(u, t)'
      BY <2>1, <2>3, <3>1 DEF IsManagedAt, Permits
    <3> QED BY <2>1, <2>3, <3>2 DEF Deliverable
  <2>6. CASE u = c.urn
    <3>1. Live(u) /\ grants[u].issuer = c.issuer
      BY <2>3, <2>4, <2>6 DEF IsManagedAt, Permits, Live, EnrollManaged, MayEnroll
    <3>2. EnrolledAt(c) = grants[u].enrolled /\ grants[u].enrolled <= t
      BY <2>3, <2>4, <2>6, <3>1 DEF EnrolledAt, IsManagedAt, Permits, Grant
    <3>3. grants'[u] = [serial |-> c.serial, issuer |-> c.issuer, notBefore |-> c.notBefore,
                        expires |-> c.expires, enrolled |-> EnrolledAt(c), revoked |-> FALSE]
      BY <2>4, <2>6 DEF EnrollManaged, TypeOK
    <3>4. t < clock
      <4>1. Mark(rows[i]) \in Marks
        BY DEF Marks
      <4> QED BY <4>1 DEF CertInv, Mark
    <3>5. clock < c.expires /\ mem.policy.issuer = c.issuer
      BY DEF EnrollManaged, MayEnroll
    <3>6. grants'[u] # None
      <4>1. EnrolledAt(c) \in Nat /\ c \in Certificate
        BY EnrolledAtType, InputsAssumption
      <4>2. grants'[u] \in Grant
        BY <3>3, <4>1 DEF Grant, Certificate
      <4> QED BY <4>2, InputsAssumption
    <3>7. t # 0 /\ t < c.expires
      BY <2>2, <2>3, <3>4, <3>5 DEF IsManagedAt, Permits
    <3>8. Permits(grants[u], t)'
      BY <2>1, <2>2, <3>2, <3>3, <3>5, <3>6, <3>7 DEF Permits
    <3>9. IsManagedAt(u, t)'
      BY <2>1, <2>3, <3>8 DEF IsManagedAt
    <3> QED BY <2>1, <2>3, <3>9 DEF Deliverable
  <2> QED BY <2>5, <2>6
<1> QED BY <1>1, InitCert, NextCert, TypeCorrect, PTL DEF Spec, RenewalKeepsRows
=============================================================================
