-------------------------- MODULE V2AdmissionProofs --------------------------
(***************************************************************************)
(* Proofs about V2Admission, for every set of IDs, envelopes, policies and *)
(* concurrent calls, and that it implements the ledger MessageIds.         *)
(***************************************************************************)
EXTENDS V2Admission, FiniteSetTheorems, TLAPS

-----------------------------------------------------------------------------
(* Type correctness *)

LEMMA InitType == Init => TypeOK
  BY InputsAssumption DEF Init, TypeOK

\* What is read out of an envelope.
LEMMA EnvelopeFields ==
  ASSUME NEW e \in Envs
  PROVE  /\ e.id \in Ids /\ e.recipient \in Urns /\ e.expiry \in Nat
         /\ e.policy \in Policies /\ e.policy.compliance \in BOOLEAN
  BY InputsAssumption DEF Envelope, Policy

\* What is read out of an AdmitV2 call in progress.
LEMMA OpFields ==
  ASSUME TypeOK, NEW o \in Ops, ops[o] # None
  PROVE  /\ ops[o] \in Op /\ ops[o].receipt \in Receipt
         /\ ops[o].receipt.env \in Envs /\ ops[o].now \in Nat
  BY DEF TypeOK, Op, Receipt

LEMMA DropType ==
  ASSUME NEW T, NEW table \in [Ids -> T \cup {None}], NEW S
  PROVE  Drop(table, S) \in [Ids -> T \cup {None}]
  BY DEF Drop

LEMMA KeptType ==
  ASSUME TypeOK, NEW d
  PROVE  Kept(d) \in [Ids -> Archived \cup {None}]
  BY DEF TypeOK, Kept

LEMMA NextType == TypeOK /\ [Next]_vars => TypeOK'
<1> SUFFICES ASSUME TypeOK, [Next]_vars PROVE TypeOK'
  OBVIOUS
<1> USE InputsAssumption DEF tables, retention
<1>1. ASSUME NEW p \in Policies \cup {None}, Boot(p) PROVE TypeOK'
  BY <1>1, KeptType DEF TypeOK, Boot
<1>2. CASE Tick
  BY <1>2 DEF TypeOK, Tick
<1>3. ASSUME NEW e \in Envs, AdmitRetry(e) PROVE TypeOK'
  <2>1. Found(e).receipt \in Receipt
    BY <1>3, EnvelopeFields DEF TypeOK, AdmitRetry, Found, V2Row, Admission
  <2> QED BY <1>3, <2>1 DEF TypeOK, AdmitRetry, Answer
<1>4. ASSUME NEW o \in Ops, NEW e \in Envs, AdmitBegin(o, e) PROVE TypeOK'
  <2>1. ops' \in [Ops -> Op \cup {None}]
    BY <1>4 DEF TypeOK, AdmitBegin, Op, Receipt
  <2> QED BY <1>4, <2>1 DEF TypeOK, AdmitBegin
<1>5. ASSUME NEW o \in Ops, AdmitEnter(o) PROVE TypeOK'
  <2>1. ops' \in [Ops -> Op \cup {None}]
    BY <1>5 DEF TypeOK, AdmitEnter, Op
  <2> QED BY <1>5, <2>1 DEF TypeOK, AdmitEnter
<1>6. ASSUME NEW o \in Ops, AdmitPrior(o) PROVE TypeOK'
  <2> DEFINE e == ops[o].receipt.env
             prior == IF adm[e.id] # None THEN adm[e.id] ELSE v2[e.id]
  <2>1. e \in Envs /\ e.id \in Ids
    BY <1>6, OpFields, EnvelopeFields DEF AdmitPrior, InTransaction
  <2>2. prior.receipt \in Receipt
    BY <1>6, <2>1 DEF TypeOK, AdmitPrior, V2Row, Admission
  <2> QED BY <1>6, <2>1, <2>2 DEF TypeOK, AdmitPrior, Answer
<1>7. ASSUME NEW o \in Ops, AdmitInsert(o) PROVE TypeOK'
  <2> DEFINE receipt == ops[o].receipt
             e == receipt.env
  <2>1. receipt \in Receipt /\ e \in Envs /\ e.id \in Ids /\ ops[o].now \in Nat
    BY <1>7, OpFields, EnvelopeFields DEF AdmitInsert, InTransaction
  <2>2. v2' \in [Ids -> V2Row \cup {None}]
    BY <1>7, <2>1 DEF TypeOK, AdmitInsert, V2Row
  <2>3. adm' \in [Ids -> Admission \cup {None}]
    BY <1>7, <2>1 DEF TypeOK, AdmitInsert, Admission
  <2>4. arch' \in [Ids -> Archived \cup {None}]
    BY <1>7, <2>1 DEF TypeOK, AdmitInsert, Archived
  <2> QED BY <1>7, <2>1, <2>2, <2>3, <2>4 DEF TypeOK, AdmitInsert, Answer
<1>8. ASSUME NEW o \in Ops, AdmitRefuse(o) PROVE TypeOK'
  BY <1>8 DEF TypeOK, AdmitRefuse
<1>9. ASSUME NEW i \in Ids, NEW r \in Urns, NEW life \in Lifetimes, StoreV1(i, r, life)
      PROVE  TypeOK'
  <2>1. v1' \in [Ids -> V1Row \cup {None}]
    BY <1>9 DEF TypeOK, StoreV1, V1Row
  <2> QED BY <1>9, <2>1 DEF TypeOK, StoreV1
<1>10. ASSUME NEW i \in Ids, AckV1(i) PROVE TypeOK'
  <2>1. v1' \in [Ids -> V1Row \cup {None}]
    <3>1. \A row \in V1Row : [row EXCEPT !.read = TRUE] \in V1Row
      BY DEF V1Row
    <3> QED BY <1>10, <3>1 DEF TypeOK, AckV1
  <2> QED BY <1>10, <2>1 DEF TypeOK, AckV1
<1>11. ASSUME NEW i \in Ids, AckV2(i) PROVE TypeOK'
  <2>1. v2' \in [Ids -> V2Row \cup {None}]
    <3>1. \A row \in V2Row : [row EXCEPT !.read = TRUE] \in V2Row
      BY DEF V2Row
    <3> QED BY <1>11, <3>1 DEF TypeOK, AckV2
  <2> QED BY <1>11, <2>1 DEF TypeOK, AckV2
<1>12. ASSUME NEW i \in Ids, DeleteMessage(i) PROVE TypeOK'
  BY <1>12, DropType DEF TypeOK, DeleteMessage
<1>13. ASSUME NEW r \in Urns, PurgeQueue(r) PROVE TypeOK'
  BY <1>13, DropType DEF TypeOK, PurgeQueue
<1>14. CASE CleanMessages \/ CleanV2Messages \/ CleanAdmissions \/ CleanArchive
  <2>1. CASE CleanMessages
    BY <2>1, DropType DEF TypeOK, CleanMessages
  <2>2. CASE CleanV2Messages
    BY <2>2, DropType DEF TypeOK, CleanV2Messages
  <2>3. CASE CleanAdmissions
    BY <2>3, DropType DEF TypeOK, CleanAdmissions
  <2>4. CASE CleanArchive
    BY <2>4, KeptType DEF TypeOK, CleanArchive
  <2> QED BY <1>14, <2>1, <2>2, <2>3, <2>4
<1>15. ASSUME NEW S \in SUBSET Ids, CleanHistory(S) PROVE TypeOK'
  BY <1>15, DropType DEF TypeOK, CleanHistory
<1>16. ASSUME NEW d \in RetentionDays, SaveRetention(d) PROVE TypeOK'
  BY <1>16 DEF TypeOK, SaveRetention, RetentionChange
<1>17. CASE PurgeRetention
  <2>1. change' \in RetentionChange
    BY <1>17 DEF TypeOK, PurgeRetention, RetentionChange
  <2> QED BY <1>17, <2>1, KeptType DEF TypeOK, PurgeRetention
<1>18. CASE ApplyRetention
  BY <1>18 DEF TypeOK, ApplyRetention, WriteLocked, RetentionChange
<1>19. CASE SaveOtherSetting
  BY <1>19 DEF TypeOK, SaveOtherSetting
<1>20. ASSUME NEW f \in RetentionDays, RollBackRetention(f) PROVE TypeOK'
  BY <1>20 DEF TypeOK, RollBackRetention
<1>21. CASE UNCHANGED vars
  BY <1>21 DEF TypeOK, vars
<1> QED
  BY <1>1, <1>2, <1>3, <1>4, <1>5, <1>6, <1>7, <1>8, <1>9, <1>10, <1>11, <1>12,
     <1>13, <1>14, <1>15, <1>16, <1>17, <1>18, <1>19, <1>20, <1>21 DEF Next

\* Every variable keeps its type in every reachable state.
THEOREM TypeCorrect == Spec => []TypeOK
  BY InitType, NextType, PTL DEF Spec

-----------------------------------------------------------------------------
(* What the steps do to the tables, by kind of step *)

\* Every step but the two inserts only removes rows, admissions and bodies.
OnlyRemoves ==
    /\ \A i \in Ids : v1'[i] # None =>
           /\ v1[i] # None
           /\ v1'[i].recipient = v1[i].recipient /\ v1'[i].expiry = v1[i].expiry
           /\ v1[i].read => v1'[i].read
    /\ \A i \in Ids : v2'[i] # None =>
           /\ v2[i] # None
           /\ v2'[i].env = v2[i].env /\ v2'[i].receipt = v2[i].receipt
           /\ v2[i].read => v2'[i].read
    /\ \A i \in Ids : adm'[i] # None => adm'[i] = adm[i]
    /\ \A i \in Ids : arch'[i] # None => arch'[i] = arch[i]

LEMMA Removes ==
  ASSUME TypeOK, [Next]_vars
  PROVE  \/ \E o \in Ops : AdmitInsert(o)
         \/ \E i \in Ids, r \in Urns, life \in Lifetimes : StoreV1(i, r, life)
         \/ OnlyRemoves
<1> USE DEF tables, retention
<1>1. CASE UNCHANGED tables
  BY <1>1 DEF OnlyRemoves
<1>2. ASSUME NEW S, NEW T, v1' = Drop(v1, S), v2' = Drop(v2, T), UNCHANGED <<adm, arch>>
      PROVE  OnlyRemoves
  BY <1>2 DEF OnlyRemoves, Drop
<1>3. ASSUME NEW d, arch' = Kept(d), UNCHANGED <<v1, v2, adm>> PROVE OnlyRemoves
  BY <1>3 DEF OnlyRemoves, Kept
<1>4. CASE CleanMessages
  BY <1>4 DEF CleanMessages, OnlyRemoves, Drop
<1>5. CASE CleanV2Messages
  BY <1>5 DEF CleanV2Messages, OnlyRemoves, Drop
<1>6. CASE CleanAdmissions
  BY <1>6 DEF CleanAdmissions, OnlyRemoves, Drop
<1>7. ASSUME NEW i \in Ids, AckV1(i) PROVE OnlyRemoves
  <2>1. \A row \in V1Row : LET r == [row EXCEPT !.read = TRUE]
                           IN  r.recipient = row.recipient /\ r.expiry = row.expiry /\ r.read
    BY DEF V1Row
  <2> QED BY <1>7, <2>1 DEF AckV1, OnlyRemoves, TypeOK
<1>8. ASSUME NEW i \in Ids, AckV2(i) PROVE OnlyRemoves
  <2>1. \A row \in V2Row : LET r == [row EXCEPT !.read = TRUE]
                           IN  r.env = row.env /\ r.receipt = row.receipt /\ r.read
    BY DEF V2Row
  <2> QED BY <1>8, <2>1 DEF AckV2, OnlyRemoves, TypeOK
<1>9. ASSUME NEW i \in Ids, DeleteMessage(i) PROVE OnlyRemoves
  BY <1>2, <1>9 DEF DeleteMessage
<1>10. ASSUME NEW r \in Urns, PurgeQueue(r) PROVE OnlyRemoves
  BY <1>2, <1>10 DEF PurgeQueue
<1>11. ASSUME NEW S \in SUBSET Ids, CleanHistory(S) PROVE OnlyRemoves
  BY <1>2, <1>11 DEF CleanHistory
<1>12. ASSUME NEW p \in Policies \cup {None}, Boot(p) PROVE OnlyRemoves
  BY <1>3, <1>12 DEF Boot
<1>13. CASE CleanArchive
  BY <1>3, <1>13 DEF CleanArchive
<1>14. CASE PurgeRetention
  BY <1>3, <1>14 DEF PurgeRetention
<1> QED
  BY <1>1, <1>4, <1>5, <1>6, <1>7, <1>8, <1>9, <1>10, <1>11, <1>12, <1>13, <1>14
     DEF Next, vars, Tick, AdmitRetry, AdmitBegin, AdmitEnter, AdmitPrior,
         AdmitRefuse, SaveRetention, ApplyRetention, RollBackRetention,
         SaveOtherSetting

-----------------------------------------------------------------------------
(* One message per ID *)

LEMMA NextOneProtocol == TypeOK /\ OneProtocolPerId /\ [Next]_vars => OneProtocolPerId'
<1> SUFFICES ASSUME TypeOK, OneProtocolPerId, [Next]_vars PROVE OneProtocolPerId'
  OBVIOUS
<1> USE DEF OneProtocolPerId
<1>1. ASSUME NEW o \in Ops, AdmitInsert(o) PROVE OneProtocolPerId'
  BY <1>1 DEF AdmitInsert, InTransaction, TypeOK
<1>2. ASSUME NEW i \in Ids, NEW r \in Urns, NEW life \in Lifetimes, StoreV1(i, r, life)
      PROVE  OneProtocolPerId'
  BY <1>2 DEF StoreV1, FreeForV1, TypeOK
<1>3. CASE OnlyRemoves
  BY <1>3 DEF OnlyRemoves
<1> QED BY <1>1, <1>2, <1>3, Removes

\* No ID ever names a v1 and a v2 message at once.
THEOREM IdsStayApart == Spec => []OneProtocolPerId
<1>1. Init => OneProtocolPerId
  BY DEF Init, OneProtocolPerId
<1> QED BY <1>1, NextOneProtocol, TypeCorrect, PTL DEF Spec

LEMMA NextTablesAgree == TypeOK /\ TablesAgree /\ [Next]_vars => TablesAgree'
<1> SUFFICES ASSUME TypeOK, TablesAgree, [Next]_vars PROVE TablesAgree'
  OBVIOUS
<1> USE DEF TablesAgree
<1>1. ASSUME NEW o \in Ops, AdmitInsert(o) PROVE TablesAgree'
  <2> DEFINE e == ops[o].receipt.env
  <2>1. e.id \in Ids /\ v2[e.id] = None /\ adm[e.id] = None /\ arch[e.id] = None
    BY <1>1, OpFields, EnvelopeFields DEF AdmitInsert, InTransaction, Fresh
  <2>2. \A i \in Ids \ {e.id} : v2'[i] = v2[i] /\ adm'[i] = adm[i] /\ arch'[i] = arch[i]
    BY <1>1 DEF AdmitInsert, TypeOK
  <2>3. /\ v2'[e.id].env = e /\ v2'[e.id].receipt = ops[o].receipt
        /\ adm'[e.id] # None => adm'[e.id].env = e /\ adm'[e.id].receipt = ops[o].receipt
        /\ arch'[e.id] # None => arch'[e.id].env = e
    BY <1>1, <2>1 DEF AdmitInsert, TypeOK
  <2> QED BY <2>2, <2>3
<1>2. ASSUME NEW i \in Ids, NEW r \in Urns, NEW life \in Lifetimes, StoreV1(i, r, life)
      PROVE  TablesAgree'
  BY <1>2 DEF StoreV1
<1>3. CASE OnlyRemoves
  BY <1>3 DEF OnlyRemoves
<1> QED BY <1>1, <1>2, <1>3, Removes

\* Row, admission hash and archived body of an ID are of one envelope.
THEOREM TablesStayInAgreement == Spec => []TablesAgree
<1>1. Init => TablesAgree
  BY DEF Init, TablesAgree
<1> QED BY <1>1, NextTablesAgree, TypeCorrect, PTL DEF Spec

-----------------------------------------------------------------------------
(* One receipt per envelope *)

\* RetryGetsTheSameReceipt is not inductive alone: a retry may be answered from
\* the v2 row, so an unexpired compliance row must have its admission hash.
RetryInv ==
    /\ TablesAgree
    /\ RetryGetsTheSameReceipt
    /\ \A i \in Ids : v2[i] # None /\ v2[i].env.policy.compliance
                         /\ clock < v2[i].env.expiry
                      => adm[i] # None

\* A step that adds no answer and no v2 row, and takes no admission hash of an
\* unexpired envelope, keeps RetryInv.
LEMMA RetryInvKept ==
  ASSUME TypeOK, TypeOK', RetryInv, TablesAgree', OnlyRemoves,
         clock' >= clock,
         UNCHANGED answers,
         \A i \in Ids : adm'[i] = adm[i] \/ adm[i].env.expiry <= clock
  PROVE  RetryInv'
<1>1. ASSUME NEW e \in Envs, e.policy.compliance, answers'[e] # {}, clock' < e.expiry
      PROVE  /\ adm'[e.id] # None /\ adm'[e.id].env = e
             /\ answers'[e] = {adm'[e.id].receipt}
  <2>1. clock < e.expiry /\ e.id \in Ids /\ e.expiry \in Nat
    BY <1>1, EnvelopeFields DEF TypeOK
  <2>2. adm[e.id] # None /\ adm[e.id].env = e /\ answers[e] = {adm[e.id].receipt}
    BY <1>1, <2>1 DEF RetryInv, RetryGetsTheSameReceipt
  <2>3. adm'[e.id] = adm[e.id]
    BY <2>1, <2>2 DEF TypeOK
  <2> QED BY <2>2, <2>3
<1>2. ASSUME NEW i \in Ids, v2'[i] # None, v2'[i].env.policy.compliance,
             clock' < v2'[i].env.expiry
      PROVE  adm'[i] # None
  <2>1. v2[i] # None /\ v2[i].env = v2'[i].env
    BY <1>2 DEF OnlyRemoves
  <2>2. v2[i].env.expiry \in Nat
    BY <2>1, EnvelopeFields DEF TypeOK, V2Row
  <2>3. clock < v2[i].env.expiry
    BY <1>2, <2>1, <2>2 DEF TypeOK
  <2>4. adm[i] # None /\ adm[i].env = v2[i].env
    BY <1>2, <2>1, <2>3 DEF RetryInv, TablesAgree
  <2>5. adm'[i] = adm[i]
    BY <2>2, <2>3, <2>4 DEF TypeOK
  <2> QED BY <2>4, <2>5
<1> QED BY <1>1, <1>2 DEF RetryInv, RetryGetsTheSameReceipt

\* Answering from the admission hash or else from the row is consistent.
LEMMA RetryInvAnswered ==
  ASSUME TypeOK, RetryInv, NEW e \in Envs, NEW prior,
         prior \in {adm[e.id], v2[e.id]}, prior # None, prior.env = e,
         Answer(e, prior.receipt),
         UNCHANGED <<clock, tables>>
  PROVE  RetryInv'
<1> USE DEF tables
<1>1. e.id \in Ids
  BY EnvelopeFields
<1>2. ASSUME e.policy.compliance, clock < e.expiry
      PROVE  /\ adm[e.id] # None /\ adm[e.id].env = e
             /\ prior.receipt = adm[e.id].receipt
             /\ answers[e] \in {{}, {adm[e.id].receipt}}
  <2>1. adm[e.id] # None
    BY <1>1, <1>2 DEF RetryInv
  <2>2. adm[e.id].env = e /\ prior.receipt = adm[e.id].receipt
    BY <1>1, <2>1 DEF RetryInv, TablesAgree
  <2> QED BY <1>2, <2>1, <2>2 DEF RetryInv, RetryGetsTheSameReceipt
<1>3. /\ answers'[e] = answers[e] \cup {prior.receipt}
      /\ \A f \in Envs \ {e} : answers'[f] = answers[f]
  BY DEF Answer, TypeOK
<1>4. RetryGetsTheSameReceipt'
  BY <1>2, <1>3 DEF RetryInv, RetryGetsTheSameReceipt
<1>5. TablesAgree'
  BY DEF RetryInv, TablesAgree
<1> QED BY <1>4, <1>5 DEF RetryInv

LEMMA RetryInvInserted ==
  ASSUME TypeOK, TypeOK', RetryInv, TablesAgree', NEW o \in Ops, AdmitInsert(o)
  PROVE  RetryInv'
<1> DEFINE e == ops[o].receipt.env
<1>1. e \in Envs /\ e.id \in Ids /\ e.policy.compliance \in BOOLEAN
  BY OpFields, EnvelopeFields DEF AdmitInsert, InTransaction
<1>2. adm[e.id] = None /\ UNCHANGED clock
  BY DEF AdmitInsert, Fresh
<1>3. /\ \A i \in Ids \ {e.id} : v2'[i] = v2[i] /\ adm'[i] = adm[i]
      /\ v2'[e.id].env = e
      /\ e.policy.compliance => /\ adm'[e.id].env = e
                                /\ adm'[e.id].receipt = ops[o].receipt
                                /\ adm'[e.id] # None
      /\ ~e.policy.compliance => adm' = adm
  <2>1. adm'[e.id] \in Admission \cup {None} /\ [env |-> e, receipt |-> ops[o].receipt] \in Admission
    BY <1>1, OpFields DEF TypeOK, AdmitInsert, InTransaction, Admission
  <2> QED BY <1>1, <2>1, InputsAssumption DEF AdmitInsert, TypeOK
<1>4. /\ answers'[e] = answers[e] \cup {ops[o].receipt}
      /\ \A f \in Envs \ {e} : answers'[f] = answers[f]
  BY <1>1 DEF AdmitInsert, Answer, TypeOK
<1>5. ASSUME NEW f \in Envs, f.policy.compliance, answers'[f] # {}, clock' < f.expiry
      PROVE  /\ adm'[f.id] # None /\ adm'[f.id].env = f
             /\ answers'[f] = {adm'[f.id].receipt}
  <2>1. f.id \in Ids
    BY EnvelopeFields
  <2>2. CASE f = e
    <3>1. answers[e] = {}
      BY <1>1, <1>2, <1>5, <2>2 DEF RetryInv, RetryGetsTheSameReceipt
    <3> QED BY <1>3, <1>4, <1>5, <2>2, <3>1
  <2>3. CASE f # e
    <3>1. adm[f.id] # None /\ adm[f.id].env = f /\ answers[f] = {adm[f.id].receipt}
      BY <1>2, <1>4, <1>5, <2>3 DEF RetryInv, RetryGetsTheSameReceipt
    <3>2. f.id # e.id
      BY <1>2, <3>1
    <3> QED BY <1>3, <1>4, <2>1, <2>3, <3>1, <3>2
  <2> QED BY <2>2, <2>3
<1>6. ASSUME NEW i \in Ids, v2'[i] # None, v2'[i].env.policy.compliance,
             clock' < v2'[i].env.expiry
      PROVE  adm'[i] # None
  BY <1>2, <1>3, <1>6 DEF RetryInv
<1> QED BY <1>5, <1>6 DEF RetryInv, RetryGetsTheSameReceipt

LEMMA NextRetryInv == TypeOK /\ TypeOK' /\ RetryInv /\ [Next]_vars => RetryInv'
<1> SUFFICES ASSUME TypeOK, TypeOK', RetryInv, [Next]_vars PROVE RetryInv'
  OBVIOUS
<1>a. TablesAgree'
  BY NextTablesAgree DEF RetryInv
<1>1. ASSUME NEW o \in Ops, AdmitInsert(o) PROVE RetryInv'
  BY <1>1, <1>a, RetryInvInserted
<1>2. ASSUME NEW e \in Envs, AdmitRetry(e) PROVE RetryInv'
  BY <1>2, RetryInvAnswered DEF AdmitRetry, Found
<1>3. ASSUME NEW o \in Ops, AdmitPrior(o) PROVE RetryInv'
  <2>1. ops[o].receipt.env \in Envs
    BY <1>3, OpFields DEF AdmitPrior, InTransaction
  <2> QED BY <1>3, <2>1, RetryInvAnswered DEF AdmitPrior
<1>4. ASSUME NEW i \in Ids, NEW r \in Urns, NEW life \in Lifetimes, StoreV1(i, r, life)
      PROVE  RetryInv'
  BY <1>4, <1>a DEF StoreV1, RetryInv, RetryGetsTheSameReceipt
<1>5. CASE CleanAdmissions
  <2>1. OnlyRemoves
    BY <1>5 DEF CleanAdmissions, OnlyRemoves, Drop
  <2>2. \A i \in Ids : adm'[i] = adm[i] \/ adm[i].env.expiry <= clock
    BY <1>5 DEF CleanAdmissions, Drop, Outlived
  <2> QED BY <1>5, <1>a, <2>1, <2>2, RetryInvKept DEF CleanAdmissions, TypeOK
<1>6. CASE OnlyRemoves /\ UNCHANGED <<adm, answers>>
  <2>1. clock' = clock + 1 \/ clock' = clock
    BY DEF Next, vars, Boot, Tick, AdmitRetry, AdmitBegin, AdmitEnter,
           AdmitPrior, AdmitInsert, AdmitRefuse, StoreV1, AckV1, AckV2, DeleteMessage,
           PurgeQueue, CleanMessages, CleanV2Messages, CleanAdmissions, CleanHistory,
           CleanArchive, SaveRetention, PurgeRetention, ApplyRetention,
           RollBackRetention, SaveOtherSetting
  <2>2. clock' >= clock
    BY <2>1 DEF TypeOK
  <2> QED BY <1>6, <1>a, <2>2, RetryInvKept
<1> QED
  BY <1>1, <1>2, <1>3, <1>4, <1>5, <1>6, Removes
     DEF Next, vars, tables, Boot, Tick, AdmitBegin, AdmitEnter, AdmitRefuse, AckV1,
         AckV2, DeleteMessage, PurgeQueue, CleanMessages, CleanV2Messages,
         CleanHistory, CleanArchive, SaveRetention, PurgeRetention, ApplyRetention,
         RollBackRetention, SaveOtherSetting

\* One receipt per compliance envelope until it expires.
THEOREM OneReceipt == Spec => []RetryGetsTheSameReceipt
<1>1. Init => RetryInv
  BY DEF Init, RetryInv, TablesAgree, RetryGetsTheSameReceipt
<1>2. RetryInv => RetryGetsTheSameReceipt
  BY DEF RetryInv
<1> QED BY <1>1, <1>2, NextRetryInv, TypeCorrect, PTL DEF Spec

-----------------------------------------------------------------------------
(* The archive and its retention *)

\* While the setter holds complianceMu no admission is inside storeV2, and the
\* archive holds only what both the old and the new duration keep.
RetentionInv ==
    /\ ZeroRetentionKeepsNothing
    /\ WriteLocked =>
           /\ ~ReadLocked
           /\ \A i \in Ids : arch[i] # None => /\ Visible(i)
                                               /\ change.days > 0

LEMMA NextRetention == TypeOK /\ RetentionInv /\ [Next]_vars => RetentionInv'
<1> SUFFICES ASSUME TypeOK, RetentionInv, [Next]_vars PROVE RetentionInv'
  OBVIOUS
<1> USE DEF tables, retention
<1>1. ASSUME NEW p \in Policies \cup {None}, Boot(p) PROVE RetentionInv'
  <2>1. \A i \in Ids : arch'[i] # None => fileDays > 0
    BY <1>1 DEF Boot, Kept
  <2> QED BY <1>1, <2>1 DEF Boot, RetentionInv, ZeroRetentionKeepsNothing, WriteLocked
<1>2. CASE Tick
  BY <1>2 DEF Tick, RetentionInv, ZeroRetentionKeepsNothing, WriteLocked
<1>3. ASSUME NEW o \in Ops, AdmitInsert(o) PROVE RetentionInv'
  <2>1. ReadLocked
    BY <1>3 DEF AdmitInsert, InTransaction, ReadLocked
  <2>2. days = 0 => UNCHANGED arch
    BY <1>3 DEF AdmitInsert
  <2> QED
    BY <1>3, <2>1, <2>2
       DEF AdmitInsert, RetentionInv, ZeroRetentionKeepsNothing, WriteLocked
<1>4. ASSUME NEW o \in Ops, AdmitEnter(o) PROVE RetentionInv'
  BY <1>4 DEF AdmitEnter, RetentionInv, ZeroRetentionKeepsNothing, WriteLocked
<1>5. CASE /\ UNCHANGED <<clock, retention>>
           /\ \A i \in Ids : arch'[i] # None => arch'[i] = arch[i]
           /\ \A o \in Ops : ops'[o] # None /\ ops'[o].at = "entered" => ops'[o] = ops[o]
  BY <1>5 DEF RetentionInv, ZeroRetentionKeepsNothing, WriteLocked, ReadLocked, Visible
<1>6. ASSUME NEW o \in Ops, \/ AdmitPrior(o) \/ AdmitRefuse(o)
                            \/ \E e \in Envs : AdmitBegin(o, e)
      PROVE  RetentionInv'
  BY <1>5, <1>6 DEF AdmitPrior, AdmitRefuse, AdmitBegin, TypeOK
<1>7. CASE CleanArchive
  <2>1. \A i \in Ids : arch'[i] # None => arch'[i] = arch[i]
    BY <1>7 DEF CleanArchive, Kept
  <2> QED BY <1>5, <1>7, <2>1 DEF CleanArchive
<1>8. ASSUME NEW d \in RetentionDays, SaveRetention(d) PROVE RetentionInv'
  BY <1>8 DEF SaveRetention, RetentionInv, ZeroRetentionKeepsNothing, WriteLocked
<1>9. CASE PurgeRetention
  <2>1. days \in Nat /\ change.days \in Nat
    BY <1>9, InputsAssumption DEF PurgeRetention, TypeOK, RetentionChange
  <2>2. change'.days = change.days
    BY <1>9 DEF PurgeRetention, TypeOK, RetentionChange
  <2>3. ASSUME NEW i \in Ids, arch'[i] # None
        PROVE  /\ arch'[i] = arch[i] /\ Visible(i)
               /\ change.days > 0
    <3>1. /\ arch'[i] = arch[i] /\ arch[i] # None /\ PurgeDays(change.days) > 0
          /\ arch[i].at + PurgeDays(change.days) > clock
      BY <1>9, <2>3 DEF PurgeRetention, Kept
    <3>2. arch[i].at \in Nat /\ clock \in Nat
      BY <3>1 DEF TypeOK, Archived
    <3> QED BY <2>1, <3>1, <3>2 DEF PurgeDays, Visible
  <2> QED
    BY <1>9, <2>2, <2>3
       DEF PurgeRetention, FreeForPurge, RetentionInv, ZeroRetentionKeepsNothing,
           ReadLocked, Visible
<1>10. CASE ApplyRetention
  BY <1>10 DEF ApplyRetention, RetentionInv, ZeroRetentionKeepsNothing, WriteLocked
<1>11. CASE SaveOtherSetting
  BY <1>11 DEF SaveOtherSetting, RetentionInv, ZeroRetentionKeepsNothing, WriteLocked
<1>12. ASSUME NEW f \in RetentionDays, RollBackRetention(f) PROVE RetentionInv'
  BY <1>12 DEF RollBackRetention, RetentionInv, ZeroRetentionKeepsNothing, WriteLocked
<1> QED
  BY <1>1, <1>2, <1>3, <1>4, <1>5, <1>6, <1>7, <1>8, <1>9, <1>10, <1>11, <1>12
     DEF Next, vars, AdmitRetry, StoreV1, AckV1, AckV2, DeleteMessage, PurgeQueue,
         CleanMessages, CleanV2Messages, CleanAdmissions, CleanHistory

LEMMA InitRetention == Init => RetentionInv
  BY DEF Init, RetentionInv, ZeroRetentionKeepsNothing, WriteLocked

\* A live retention of zero leaves no plaintext, and none is added after.
THEOREM NothingKept == Spec => []ZeroRetentionKeepsNothing
<1>1. RetentionInv => ZeroRetentionKeepsNothing
  BY DEF RetentionInv
<1> QED BY <1>1, InitRetention, NextRetention, TypeCorrect, PTL DEF Spec

\* Only a boot can show an archived body again that the retention had hidden.
THEOREM HiddenStaysHidden == Spec => NoRevival
<1>1. TypeOK /\ RetentionInv /\ [Next]_vars =>
        \/ \E p \in Policies \cup {None} : Boot(p)
        \/ \A i \in Ids : arch[i] # None /\ arch'[i] = arch[i] /\ ~Visible(i)
                              => ~Visible(i)'
  <2> SUFFICES ASSUME TypeOK, RetentionInv, [Next]_vars,
                      ~(\E p \in Policies \cup {None} : Boot(p)),
                      NEW i \in Ids, arch[i] # None, arch'[i] = arch[i], Visible(i)'
               PROVE  Visible(i)
    OBVIOUS
  <2>1. CASE ApplyRetention
    BY <2>1 DEF ApplyRetention, RetentionInv
  <2>2. CASE Tick
    <3>1. arch[i].at \in Nat /\ clock \in Nat /\ days \in Nat
      BY InputsAssumption DEF TypeOK, Archived
    <3> QED BY <2>2, <3>1 DEF Tick, Visible, tables, retention
  <2>3. CASE UNCHANGED <<clock, days>>
    BY <2>3 DEF Visible
  <2> QED
    BY <2>1, <2>2, <2>3
       DEF Next, vars, tables, retention, AdmitRetry, AdmitBegin, AdmitEnter, AdmitPrior,
           AdmitInsert, AdmitRefuse, StoreV1, AckV1, AckV2, DeleteMessage, PurgeQueue,
           CleanMessages, CleanV2Messages, CleanAdmissions, CleanHistory, CleanArchive,
           SaveRetention, PurgeRetention, RollBackRetention, SaveOtherSetting
<1> QED BY <1>1, InitRetention, NextRetention, TypeCorrect, PTL DEF Spec, NoRevival

-----------------------------------------------------------------------------
(* The quota *)

PendingSet(r, t) == {i \in Ids : Unread1(i, r, t) \/ Unread2(i, r, t)}

\* The count is over a finite set, and a smaller set counts no more.
LEMMA CountMonotone ==
  ASSUME NEW S \in SUBSET Ids, NEW T \in SUBSET S
  PROVE  /\ Cardinality(S) \in Nat /\ Cardinality(T) \in Nat
         /\ Cardinality(T) <= Cardinality(S)
  BY IdsAssumption, FS_Subset, FS_CardinalityType

\* An insert that found room leaves at most the quota.
LEMMA RoomForOne ==
  ASSUME TypeOK, NEW r \in Urns, NEW t \in Nat, t <= clock, NEW i \in Ids,
         MaxPerURN > 0, HasRoom(r, t),
         PendingSet(r, clock)' \subseteq PendingSet(r, clock) \cup {i}
  PROVE  PendingCount(r, clock)' <= MaxPerURN
<1> DEFINE S == PendingSet(r, t)
<1>1. PendingSet(r, clock) \subseteq S
  <2>1. ASSUME NEW j \in Ids, Unread1(j, r, clock) PROVE Unread1(j, r, t)
    <3>1. v1[j].expiry \in Nat
      BY <2>1 DEF Unread1, TypeOK, V1Row
    <3> QED BY <2>1, <3>1 DEF Unread1, TypeOK
  <2>2. ASSUME NEW j \in Ids, Unread2(j, r, clock) PROVE Unread2(j, r, t)
    <3>1. v2[j].env.expiry \in Nat
      BY <2>2, EnvelopeFields DEF Unread2, TypeOK, V2Row
    <3> QED BY <2>2, <3>1 DEF Unread2, TypeOK
  <2> QED BY <2>1, <2>2 DEF PendingSet
<1>2. S \in SUBSET Ids /\ IsFiniteSet(S) /\ Cardinality(S) \in Nat
  BY IdsAssumption, FS_Subset, FS_CardinalityType DEF PendingSet
<1>3. Cardinality(S) < MaxPerURN
  BY DEF HasRoom, PendingCount, PendingSet
<1>4. IsFiniteSet(S \cup {i}) /\ Cardinality(S \cup {i}) <= Cardinality(S) + 1
  BY <1>2, FS_AddElement
<1>5. Cardinality(S \cup {i}) \in Nat
  BY <1>4, FS_CardinalityType
<1>6. PendingSet(r, clock)' \in SUBSET (S \cup {i}) /\ S \cup {i} \in SUBSET Ids
  BY <1>1, <1>2
<1>7. /\ Cardinality(PendingSet(r, clock)') <= Cardinality(S \cup {i})
      /\ Cardinality(PendingSet(r, clock)') \in Nat
  BY <1>6, CountMonotone
<1>8. Cardinality(PendingSet(r, clock)') <= MaxPerURN
  BY <1>2, <1>3, <1>4, <1>5, <1>7, InputsAssumption
<1> QED BY <1>8 DEF PendingCount, PendingSet

\* Steps that insert nothing, and the passing of time, only lower the count.
LEMMA CountFalls ==
  ASSUME TypeOK, TypeOK', NEW r \in Urns, clock' >= clock,
         PendingCount(r, clock) <= MaxPerURN,
         \/ OnlyRemoves
         \/ PendingSet(r, clock)' \subseteq PendingSet(r, clock)
  PROVE  PendingCount(r, clock)' <= MaxPerURN
<1>1. ASSUME NEW j \in Ids, OnlyRemoves, Unread1(j, r, clock)' PROVE Unread1(j, r, clock)
  <2>1. v1[j].expiry \in Nat /\ v1[j] # None
    BY <1>1 DEF Unread1, OnlyRemoves, TypeOK, V1Row
  <2> QED BY <1>1, <2>1 DEF Unread1, OnlyRemoves, TypeOK
<1>2. ASSUME NEW j \in Ids, OnlyRemoves, Unread2(j, r, clock)' PROVE Unread2(j, r, clock)
  <2>1. v2[j].env.expiry \in Nat /\ v2[j] # None
    BY <1>2, EnvelopeFields DEF Unread2, OnlyRemoves, TypeOK, V2Row
  <2> QED BY <1>2, <2>1 DEF Unread2, OnlyRemoves, TypeOK
<1>3. PendingSet(r, clock)' \subseteq PendingSet(r, clock) /\ PendingSet(r, clock) \in SUBSET Ids
  BY <1>1, <1>2 DEF PendingSet
<1>4. /\ Cardinality(PendingSet(r, clock)') <= Cardinality(PendingSet(r, clock))
      /\ Cardinality(PendingSet(r, clock)') \in Nat
      /\ Cardinality(PendingSet(r, clock)) \in Nat
  BY <1>3, CountMonotone
<1>5. Cardinality(PendingSet(r, clock)) <= MaxPerURN
  BY DEF PendingCount, PendingSet
<1>6. Cardinality(PendingSet(r, clock)') <= MaxPerURN
  BY <1>4, <1>5, InputsAssumption
<1> QED BY <1>6 DEF PendingCount, PendingSet

\* The quota holds although storeV2 counts with a clock reading of the past.
QuotaInv == QuotaHolds /\ \A o \in Ops : ops[o] # None => ops[o].now <= clock

LEMMA ClockStep == [Next]_vars => clock' = clock \/ (Tick /\ clock' = clock + 1)
  BY DEF Next, vars, Boot, Tick, AdmitRetry, AdmitBegin, AdmitEnter,
         AdmitPrior, AdmitInsert, AdmitRefuse, StoreV1, AckV1, AckV2, DeleteMessage,
         PurgeQueue, CleanMessages, CleanV2Messages, CleanAdmissions, CleanHistory,
         CleanArchive, SaveRetention, PurgeRetention, ApplyRetention,
         RollBackRetention, SaveOtherSetting

LEMMA NextOpsTime ==
  ASSUME TypeOK, TypeOK', \A o \in Ops : ops[o] # None => ops[o].now <= clock, [Next]_vars
  PROVE  \A o \in Ops : ops'[o] # None => ops'[o].now <= clock'
<1>1. clock \in Nat /\ clock' \in Nat /\ clock <= clock'
  BY ClockStep DEF TypeOK
<1>2. ASSUME NEW o \in Ops, NEW e \in Envs, AdmitBegin(o, e), NEW q \in Ops, ops'[q] # None
      PROVE  ops'[q].now <= clock'
  BY <1>1, <1>2 DEF AdmitBegin, TypeOK
<1>3. ASSUME NEW o \in Ops, AdmitEnter(o), NEW q \in Ops, ops'[q] # None
      PROVE  ops'[q].now <= clock'
  <2>1. ops[o] \in Op
    BY <1>3 DEF AdmitEnter, TypeOK
  <2> QED BY <1>1, <1>3, <2>1 DEF AdmitEnter, TypeOK, Op
<1>4. ASSUME NEW q \in Ops, ops'[q] # None, ops'[q] = ops[q] PROVE ops'[q].now <= clock'
  BY <1>1, <1>4, OpFields
<1>5. ASSUME NEW q \in Ops, ops'[q] # None,
             ~\E o \in Ops : AdmitEnter(o) \/ \E e \in Envs : AdmitBegin(o, e)
      PROVE  ops'[q] = ops[q]
  BY <1>5
     DEF TypeOK, Next, vars, Boot, Tick, AdmitRetry,
         AdmitPrior, AdmitInsert, AdmitRefuse, StoreV1, AckV1, AckV2, DeleteMessage,
         PurgeQueue, CleanMessages, CleanV2Messages, CleanAdmissions, CleanHistory,
         CleanArchive, SaveRetention, PurgeRetention, ApplyRetention,
         RollBackRetention, SaveOtherSetting
<1> QED BY <1>2, <1>3, <1>4, <1>5

LEMMA NextQuota == TypeOK /\ TypeOK' /\ QuotaInv /\ [Next]_vars => QuotaInv'
<1> SUFFICES ASSUME TypeOK, TypeOK', QuotaInv, [Next]_vars,
                    NEW r \in Urns, MaxPerURN > 0
             PROVE  PendingCount(r, clock)' <= MaxPerURN
  BY NextOpsTime DEF QuotaInv, QuotaHolds
<1>1. PendingCount(r, clock) <= MaxPerURN
  BY DEF QuotaInv, QuotaHolds
<1>2. clock \in Nat /\ clock' >= clock
  BY ClockStep DEF TypeOK
<1>3. ASSUME NEW o \in Ops, AdmitInsert(o) PROVE PendingCount(r, clock)' <= MaxPerURN
  <2> DEFINE e == ops[o].receipt.env
  <2>1. e.id \in Ids /\ ops[o].now \in Nat /\ ops[o].now <= clock /\ UNCHANGED clock
    BY <1>3, OpFields, EnvelopeFields DEF AdmitInsert, InTransaction, QuotaInv
  <2>2. \A j \in Ids : Unread1(j, r, clock)' => Unread1(j, r, clock)
    BY <1>3 DEF AdmitInsert, Unread1
  <2>3. ASSUME NEW j \in Ids, Unread2(j, r, clock)', j # e.id PROVE Unread2(j, r, clock)
    BY <1>3, <2>3 DEF AdmitInsert, Unread2, TypeOK
  <2>4. CASE e.recipient = r
    <3>1. PendingSet(r, clock)' \subseteq PendingSet(r, clock) \cup {e.id}
      BY <2>2, <2>3 DEF PendingSet
    <3>2. HasRoom(r, ops[o].now)
      BY <1>3, <2>4 DEF AdmitInsert
    <3> QED BY <2>1, <3>1, <3>2, RoomForOne
  <2>5. CASE e.recipient # r
    <3>1. v2'[e.id].env = e
      BY <1>3, <2>1 DEF AdmitInsert, TypeOK
    <3>2. ASSUME NEW j \in Ids, j = e.id PROVE ~Unread2(j, r, clock)'
      BY <2>5, <3>1, <3>2 DEF Unread2
    <3>3. ASSUME NEW j \in Ids, Unread1(j, r, clock)' \/ Unread2(j, r, clock)'
          PROVE  Unread1(j, r, clock) \/ Unread2(j, r, clock)
      BY <2>2, <2>3, <3>2, <3>3
    <3>4. PendingSet(r, clock)' \subseteq PendingSet(r, clock)
      BY <3>3 DEF PendingSet
    <3> QED BY <1>1, <1>2, <3>4, CountFalls
  <2> QED BY <2>4, <2>5
<1>4. ASSUME NEW i \in Ids, NEW q \in Urns, NEW life \in Lifetimes, StoreV1(i, q, life)
      PROVE  PendingCount(r, clock)' <= MaxPerURN
  <2>1. \A j \in Ids : Unread2(j, r, clock)' => Unread2(j, r, clock)
    BY <1>4 DEF StoreV1, Unread2
  <2>2. ASSUME NEW j \in Ids, Unread1(j, r, clock)', j # i \/ q # r PROVE Unread1(j, r, clock)
    BY <1>4, <2>2 DEF StoreV1, Unread1, TypeOK
  <2>3. CASE q = r
    <3>1. PendingSet(r, clock)' \subseteq PendingSet(r, clock) \cup {i}
      BY <2>1, <2>2 DEF PendingSet
    <3>2. HasRoom(r, clock)
      BY <1>4, <2>3 DEF StoreV1
    <3> QED BY <1>2, <3>1, <3>2, RoomForOne
  <2>4. CASE q # r
    <3>1. PendingSet(r, clock)' \subseteq PendingSet(r, clock)
      BY <2>1, <2>2, <2>4 DEF PendingSet
    <3> QED BY <1>1, <1>2, <3>1, CountFalls
  <2> QED BY <2>3, <2>4
<1>5. CASE OnlyRemoves
  BY <1>1, <1>2, <1>5, CountFalls
<1> QED BY <1>3, <1>4, <1>5, Removes

\* The quota of v1 and v2 together holds for every recipient.
THEOREM QuotaRespected == Spec => []QuotaHolds
<1>1. Init => QuotaInv
  <2> SUFFICES ASSUME Init, NEW r \in Urns, MaxPerURN > 0
               PROVE  PendingCount(r, clock) <= MaxPerURN
    BY DEF Init, QuotaInv, QuotaHolds
  <2>1. {i \in Ids : Unread1(i, r, clock) \/ Unread2(i, r, clock)} = {}
    BY DEF Init, Unread1, Unread2
  <2> QED BY <2>1, FS_EmptySet, InputsAssumption DEF PendingCount
<1>2. QuotaInv => QuotaHolds
  BY DEF QuotaInv
<1> QED BY <1>1, <1>2, NextQuota, TypeCorrect, PTL DEF Spec

-----------------------------------------------------------------------------
(* The ledger of message IDs: V2Admission implements MessageIds.  The initial
   states agree, and a step of the tables is one step of the ledger or none. *)

\* The invariants the simulation uses, before and after a step.
Inv == TypeOK /\ OneProtocolPerId /\ RetryInv

LEMMA InvHolds == Spec => []Inv
<1>1. Init => OneProtocolPerId /\ RetryInv
  BY DEF Init, OneProtocolPerId, RetryInv, TablesAgree, RetryGetsTheSameReceipt
<1> QED
  BY <1>1, TypeCorrect, NextOneProtocol, NextRetryInv, PTL DEF Spec, Inv

\* An ID is accounted for by whichever table still records it.
LEMMA OwnerFacts ==
  ASSUME Inv, NEW i \in Ids
  PROVE  /\ v1[i] # None => Owner(i) = V1Message
         /\ v2[i] # None => Owner(i) = v2[i].env
         /\ adm[i] # None => Owner(i) = adm[i].env
         /\ arch[i] # None => Owner(i) = arch[i].env
         /\ v1[i] = None /\ v2[i] = None /\ adm[i] = None /\ arch[i] = None
               => Owner(i) = None
  BY DEF Inv, OneProtocolPerId, RetryInv, TablesAgree, Owner

\* A step that only removes rows keeps the owner of an ID or frees it.
LEMMA RemovalFrees ==
  ASSUME Inv, Inv', OnlyRemoves, NEW i \in Ids
  PROVE  Owner(i)' \in {Owner(i), None}
<1>1. CASE v1'[i] # None
  BY <1>1 DEF OnlyRemoves, Owner
<1>2. CASE v1'[i] = None /\ v2'[i] # None
  BY <1>2, OwnerFacts DEF OnlyRemoves, Owner
<1>3. CASE v1'[i] = None /\ v2'[i] = None /\ adm'[i] # None
  BY <1>3, OwnerFacts DEF OnlyRemoves, Owner
<1>4. CASE v1'[i] = None /\ v2'[i] = None /\ adm'[i] = None /\ arch'[i] # None
  BY <1>4, OwnerFacts DEF OnlyRemoves, Owner
<1>5. CASE v1'[i] = None /\ v2'[i] = None /\ adm'[i] = None /\ arch'[i] = None
  BY <1>5 DEF Owner
<1> QED BY <1>1, <1>2, <1>3, <1>4, <1>5

LEMMA RemovalIsRelease ==
  ASSUME Inv, Inv', OnlyRemoves, UNCHANGED <<clock, answers>>
  PROVE  \E S \in SUBSET Ids : Ledger!Release(S)
<1> DEFINE S == {i \in Ids : Owner(i)' = None}
<1>1. ASSUME NEW e \in Envs, e.id \in S, Ledger!Promised(e), answers[e] # {}
      PROVE  FALSE
  <2>1. e.id \in Ids /\ e.policy.compliance /\ clock < e.expiry
    BY <1>1 DEF Ledger!Promised
  <2>2. adm'[e.id] # None
    BY <1>1, <2>1 DEF Inv, RetryInv, RetryGetsTheSameReceipt
  <2>3. Owner(e.id)' = e
    BY <1>1, <2>1, <2>2
       DEF Inv, OneProtocolPerId, RetryInv, RetryGetsTheSameReceipt, TablesAgree, Owner
  <2> QED BY <1>1, <2>3, OwnersAssumption
<1>2. [i \in Ids |-> Owner(i)'] =
        [i \in Ids |-> IF i \in S THEN None ELSE [j \in Ids |-> Owner(j)][i]]
  BY RemovalFrees
<1>3. Ledger!Release(S)
  BY <1>1, <1>2 DEF Ledger!Release
<1> QED BY <1>3

\* A call that finds the row or the hash of its bytes repeats a receipt.
LEMMA AnswerIsRepeat ==
  ASSUME Inv, Inv', NEW e \in Envs, NEW receipt, Owner(e.id) = e,
         Answer(e, receipt), UNCHANGED <<clock, tables>>
  PROVE  Ledger!Repeat(e)
<1> USE DEF tables
<1>1. e.id \in Ids
  BY EnvelopeFields
<1>2. answers' = [answers EXCEPT ![e] = answers'[e]] /\ answers[e] \subseteq answers'[e]
  BY DEF Answer, Inv, TypeOK
<1>3. ASSUME Ledger!Promised(e), NEW r \in answers'[e], NEW s \in answers'[e] PROVE r = s
  BY <1>3 DEF Ledger!Promised, Inv, RetryInv, RetryGetsTheSameReceipt
<1>4. \A i \in Ids : Owner(i)' = Owner(i)
  BY DEF Owner
<1> QED BY <1>1, <1>2, <1>3, <1>4 DEF Ledger!Repeat, Ledger!Answer

LEMMA InsertIsAdmit ==
  ASSUME Inv, Inv', NEW o \in Ops, AdmitInsert(o), NEW e, e = ops[o].receipt.env
  PROVE  e \in Envs /\ Ledger!Admit(e)
<1>1. e \in Envs /\ e.id \in Ids /\ ops[o].receipt \in Receipt
  BY OpFields, EnvelopeFields DEF Inv, AdmitInsert, InTransaction
<1>2. v1[e.id] = None /\ v2[e.id] = None /\ adm[e.id] = None /\ arch[e.id] = None
  BY DEF AdmitInsert, InTransaction, Fresh
<1>3. Owner(e.id) = None
  BY <1>2 DEF Owner
<1>4. v1' = v1 /\ v2'[e.id] # None /\ v2'[e.id].env = e
  <2>1. v2'[e.id] = [env |-> e, receipt |-> ops[o].receipt, read |-> FALSE]
    BY <1>1 DEF AdmitInsert, Inv, TypeOK
  <2>2. v2'[e.id] \in V2Row
    BY <1>1, <2>1 DEF V2Row
  <2>3. v2'[e.id] # None
    BY <2>2, InputsAssumption
  <2>4. v1' = v1
    BY DEF AdmitInsert
  <2> QED BY <2>1, <2>3, <2>4
<1>5. Owner(e.id)' = e
  BY <1>2, <1>4 DEF Owner
<1>6. \A i \in Ids \ {e.id} : Owner(i)' = Owner(i)
  BY <1>1 DEF Owner, AdmitInsert, Inv, TypeOK
<1>7. answers' = [answers EXCEPT ![e] = answers'[e]] /\ answers[e] \subseteq answers'[e]
  BY <1>1 DEF AdmitInsert, Answer, Inv, TypeOK
<1>8. ASSUME Ledger!Promised(e), NEW r \in answers'[e], NEW s \in answers'[e] PROVE r = s
  BY <1>1, <1>8 DEF Ledger!Promised, Inv, RetryInv, RetryGetsTheSameReceipt, AdmitInsert
<1>9. Ledger!Admit(e)
  BY <1>1, <1>3, <1>5, <1>6, <1>7, <1>8 DEF Ledger!Admit, Ledger!Answer, AdmitInsert
<1> QED BY <1>1, <1>9

LEMMA StoreIsOccupy ==
  ASSUME Inv, NEW i \in Ids, NEW r \in Urns, NEW life \in Lifetimes, StoreV1(i, r, life)
  PROVE  Ledger!Occupy(i, V1Message)
<1>1. Owner(i) = None
  BY DEF StoreV1, FreeForV1, Owner
<1>2. v1'[i] # None
  <2>1. v1'[i] \in V1Row
    BY InputsAssumption DEF StoreV1, Inv, TypeOK, V1Row
  <2> QED BY <2>1, InputsAssumption
<1>3. Owner(i)' = V1Message
  BY <1>2 DEF Owner
<1>4. \A j \in Ids \ {i} : Owner(j)' = Owner(j)
  BY DEF Owner, StoreV1, Inv, TypeOK
<1> QED BY <1>1, <1>3, <1>4 DEF Ledger!Occupy, StoreV1

\* Every step of V2Admission is a step of the ledger or leaves it alone.
LEMMA StepSimulation ==
  ASSUME Inv, Inv', [Next]_vars
  PROVE  [Ledger!Next]_(Ledger!vars)
<1> USE DEF tables, retention
<1>1. ASSUME NEW o \in Ops, AdmitInsert(o) PROVE Ledger!Next
  BY <1>1, InsertIsAdmit DEF Ledger!Next
<1>2. ASSUME NEW i \in Ids, NEW r \in Urns, NEW life \in Lifetimes, StoreV1(i, r, life)
      PROVE  Ledger!Next
  BY <1>2, StoreIsOccupy DEF Ledger!Next
<1>3. ASSUME NEW e \in Envs, AdmitRetry(e) PROVE Ledger!Next
  <2>1. Owner(e.id) = e
    BY <1>3, OwnerFacts, EnvelopeFields DEF AdmitRetry, Found
  <2>2. Ledger!Repeat(e)
    BY <1>3, <2>1, AnswerIsRepeat DEF AdmitRetry
  <2> QED BY <2>2 DEF Ledger!Next
<1>4. ASSUME NEW o \in Ops, AdmitPrior(o) PROVE Ledger!Next
  <2> DEFINE e == ops[o].receipt.env
  <2>1. e \in Envs /\ e.id \in Ids
    BY <1>4, OpFields, EnvelopeFields DEF Inv, AdmitPrior, InTransaction
  <2>2. Owner(e.id) = e
    BY <1>4, <2>1, OwnerFacts DEF AdmitPrior
  <2>3. Ledger!Repeat(e)
    BY <1>4, <2>1, <2>2, AnswerIsRepeat DEF AdmitPrior
  <2> QED BY <2>1, <2>3 DEF Ledger!Next
<1>5. CASE Tick
  <2>1. \A i \in Ids : Owner(i)' = Owner(i)
    BY <1>5 DEF Tick, Owner
  <2> QED BY <1>5, <2>1 DEF Tick, Ledger!Next, Ledger!Tick
<1>6. CASE OnlyRemoves /\ UNCHANGED <<clock, answers>>
  BY <1>6, RemovalIsRelease DEF Ledger!Next
<1>7. CASE OnlyRemoves /\ ~Tick /\ ~(\E e \in Envs : AdmitRetry(e)) /\ ~(\E o \in Ops : AdmitPrior(o))
           /\ ~(\E o \in Ops : AdmitInsert(o))
  <2>1. UNCHANGED <<clock, answers>>
    BY <1>7 DEF Next, vars, Boot, AdmitBegin, AdmitEnter, AdmitRefuse, StoreV1, AckV1,
                AckV2, DeleteMessage, PurgeQueue, CleanMessages, CleanV2Messages,
                CleanAdmissions, CleanHistory, CleanArchive, SaveRetention,
                PurgeRetention, ApplyRetention, RollBackRetention, SaveOtherSetting
  <2> QED BY <1>6, <1>7, <2>1
<1> QED BY <1>1, <1>2, <1>3, <1>4, <1>5, <1>7, Removes DEF Inv

\* The tables implement the ledger, for any IDs, envelopes, policies, calls and
\* retention settings.
THEOREM Refinement == Spec => ImplementsMessageIds
<1>1. Init => Ledger!Init
  BY DEF Init, Ledger!Init, Owner
<1>2. Inv /\ Inv' /\ [Next]_vars => [Ledger!Next]_(Ledger!vars)
  BY StepSimulation
<1> QED BY <1>1, <1>2, InvHolds, PTL DEF Spec, Ledger!Spec, ImplementsMessageIds
=============================================================================
