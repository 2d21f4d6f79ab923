--------------------------- MODULE StoreLocksProofs ---------------------------
(***************************************************************************)
(* No set of calls waits for itself, for any number of threads and every   *)
(* selection of calls.  The argument is the order of the locks: every      *)
(* acquisition of the code is made under locks of smaller numbers only, so *)
(* a thread that is waited for waits, if at all, further up.               *)
(***************************************************************************)
EXTENDS StoreLocks, TLAPS

\* The acquisition is of a lock above all that are held meanwhile.
Ordered(a) == \A h \in a.under : h.lock < a.take.lock

Disciplined(code) ==
  /\ code \in Seq(Acquisitions)
  /\ Len(code) > 0
  /\ \A i \in 1..Len(code) : Ordered(code[i])

-----------------------------------------------------------------------------
(* The order, call by call.                                                *)

LEMMA DisciplinedConcat ==
  ASSUME NEW s, NEW u, Disciplined(s), Disciplined(u)
  PROVE  Disciplined(s \o u)
BY DEF Disciplined

\* The calls that are written out.
LEMMA PlainCalls ==
  /\ Disciplined(Callback) /\ Disciplined(NotifySubscribers)
  /\ Disciplined(RetrieveEntry) /\ Disciplined(OneReadUnderMu)
  /\ Disciplined(OneStatement) /\ Disciplined(AdmitV2)
  /\ Disciplined(EnrollManaged) /\ Disciplined(WriteUnderMu)
  /\ Disciplined(ChangeSubscribers) /\ Disciplined(UnderCompliance)
  /\ Disciplined(SetComplianceRetention) /\ Disciplined(UpdateStorage)
  /\ Disciplined(UpdatePolicy) /\ Disciplined(PreviewSettings)
  /\ Disciplined(WriteRegistry) /\ Disciplined(CleanRegistry)
<1> USE DEF Disciplined, Ordered, Acquisitions, Holds, Locks, Take, R, W, X,
            policyMu, complianceMu, mu, conn, regMu, regConn, auditMu
<1>1. Disciplined(NotifySubscribers)
  BY DEF NotifySubscribers
<1>2. Disciplined(RetrieveEntry)
  BY DEF RetrieveEntry
<1>3. Disciplined(OneReadUnderMu)
  BY DEF OneReadUnderMu
<1>4. Disciplined(OneStatement)
  BY DEF OneStatement
<1>5. Disciplined(AdmitV2)
  BY DEF AdmitV2
<1>6. Disciplined(EnrollManaged)
  BY DEF EnrollManaged, Peek
<1>7. Disciplined(WriteUnderMu)
  BY DEF WriteUnderMu
<1>8. Disciplined(ChangeSubscribers)
  BY DEF ChangeSubscribers
<1>9. Disciplined(UnderCompliance)
  BY DEF UnderCompliance
<1>10. Disciplined(SetComplianceRetention)
  BY DEF SetComplianceRetention
<1>11. Disciplined(UpdateStorage)
  BY DEF UpdateStorage
<1>12. Disciplined(UpdatePolicy)
  BY DEF UpdatePolicy
<1>13. Disciplined(PreviewSettings)
  BY DEF PreviewSettings
<1>14. Disciplined(WriteRegistry)
  BY DEF WriteRegistry
<1>15. Disciplined(CleanRegistry)
  BY DEF CleanRegistry
<1>16. Disciplined(Callback)
  BY DEF Callback
<1> QED
  BY <1>1, <1>2, <1>3, <1>4, <1>5, <1>6, <1>7, <1>8, <1>9, <1>10, <1>11, <1>12, <1>13, <1>14, <1>15, <1>16

\* The calls that are put together from others.
LEMMA ComposedCalls ==
  /\ Disciplined(StoreEnvelope) /\ Disciplined(StoreV2Frame) /\ Disciplined(Ack)
<1>1. /\ Disciplined(<<Peek, Take(X(conn), {}), Peek>>)
      /\ Disciplined(<<Peek, Peek>>)
      /\ Disciplined(<<Take(X(conn), {})>>)
      /\ Disciplined(<<Take(X(conn), {R(mu)})>>)
  BY DEF Disciplined, Ordered, Acquisitions, Holds, Locks, Take, R, X, mu, conn, Peek
<1>2. Disciplined(StoreEnvelope)
  <2>1. Disciplined(<<Peek, Take(X(conn), {}), Peek>> \o Callback)
    BY <1>1, PlainCalls, DisciplinedConcat
  <2>2. Disciplined((<<Peek, Take(X(conn), {}), Peek>> \o Callback)
                      \o <<Take(X(conn), {})>>)
    BY <1>1, <2>1, DisciplinedConcat
  <2> QED
    BY <2>2, PlainCalls, DisciplinedConcat DEF StoreEnvelope
<1>3. Disciplined(StoreV2Frame)
  <2>1. Disciplined(<<Peek, Peek>> \o Callback)
    BY <1>1, PlainCalls, DisciplinedConcat
  <2> QED
    BY <1>1, <2>1, DisciplinedConcat DEF StoreV2Frame
<1>4. Disciplined(Ack)
  BY <1>1, PlainCalls, DisciplinedConcat DEF Ack
<1> QED
  BY <1>2, <1>3, <1>4

LEMMA CodeDisciplined == \A code \in Code : Disciplined(code)
BY PlainCalls, ComposedCalls DEF Code, ReadRegistry

-----------------------------------------------------------------------------
(* Type correctness: a thread that is in a call is at an acquisition of it. *)

\* TypeOK is an invariant, for any threads and any selection of calls.
THEOREM TypeCorrect == Spec => []TypeOK
<1>1. Init => TypeOK
  BY DEF Init, TypeOK, InCall
<1>2. TypeOK /\ [Next]_vars => TypeOK'
  <2> SUFFICES ASSUME TypeOK, [Next]_vars
               PROVE  TypeOK'
    OBVIOUS
  <2> USE DEF TypeOK, InCall
  <2>1. ASSUME NEW t \in Threads, NEW code \in Served, Begin(t, code)
        PROVE  TypeOK'
    <3>1. code \in Code /\ 1 \in 1..Len(code)
      BY ServedAssumption, CodeDisciplined DEF Disciplined
    <3> QED
      BY <2>1, <3>1, NoneAssumption DEF Begin, Calls
  <2>2. ASSUME NEW t \in Threads, Announce(t)
        PROVE  TypeOK'
    BY <2>2, NoneAssumption DEF Announce, Calls
  <2>3. ASSUME NEW t \in Threads, Acquire(t)
        PROVE  TypeOK'
    BY <2>3, NoneAssumption DEF Acquire, Calls
  <2>4. ASSUME NEW t \in Threads, Proceed(t)
        PROVE  TypeOK'
    BY <2>4, NoneAssumption DEF Proceed, Calls
  <2>5. ASSUME NEW t \in Threads, Return(t)
        PROVE  TypeOK'
    BY <2>5 DEF Return
  <2>6. CASE UNCHANGED vars
    BY <2>6 DEF vars
  <2> QED
    BY <2>1, <2>2, <2>3, <2>4, <2>5, <2>6 DEF Next
<1> QED
  BY <1>1, <1>2, PTL DEF Spec

-----------------------------------------------------------------------------
(* Deadlock freedom.                                                       *)

Waits(t) == InCall(t) /\ call[t].phase # "got"

LEMMA CurrentFacts ==
  ASSUME TypeOK, NEW t \in Threads, InCall(t)
  PROVE  /\ Current(t) \in Acquisitions
         /\ Ordered(Current(t))
         /\ Wanted(t) \in Holds
         /\ Wanted(t).lock \in 1..7
<1>1. call[t].code \in Code /\ call[t].at \in 1..Len(call[t].code)
  BY DEF TypeOK, InCall, Calls
<1>2. Disciplined(call[t].code)
  BY <1>1, CodeDisciplined
<1>3. Current(t) \in Acquisitions /\ Ordered(Current(t))
  BY <1>1, <1>2 DEF Disciplined, Current
<1> QED
  BY <1>3 DEF Wanted, Acquisitions, Holds, Locks

\* A thread that waits while it holds a lock waits for a greater one.
LEMMA HolderWaitsAbove ==
  ASSUME TypeOK, NEW u \in Threads, Waits(u), NEW h \in Holding(u)
  PROVE  h.lock < Wanted(u).lock
BY CurrentFacts DEF Waits, Holding, Ordered, Wanted

\* One who announced is waited for only by those after the same lock, and
\* itself waits for holders only.
LEMMA SomeoneWaitsAbove ==
  ASSUME TypeOK, NEW S \in SUBSET Threads,
         \A t \in S : WaitsFor(t) \cap S # {},
         NEW t \in S
  PROVE  \E v \in S : Waits(v) /\ Wanted(t).lock < Wanted(v).lock
<1>1. \A v \in S : Waits(v)
  BY DEF WaitsFor, Waits
<1>2. PICK u \in S : u \in WaitsFor(t)
  OBVIOUS
<1>3. CASE \E h \in Holding(u) : h.lock = Wanted(t).lock
  BY <1>1, <1>3, HolderWaitsAbove
<1>4. CASE Announced(u) /\ Wanted(u).lock = Wanted(t).lock
  <2>1. PICK v \in S : v \in WaitsFor(u)
    OBVIOUS
  <2>2. \E h \in Holding(v) : h.lock = Wanted(u).lock
    BY <1>4, <2>1 DEF WaitsFor
  <2> QED
    BY <1>1, <1>4, <2>2, HolderWaitsAbove
<1> QED
  BY <1>2, <1>3, <1>4 DEF WaitsFor

\* There are seven locks, so the climb ends.
LEMMA OrderExcludesDeadlock == TypeOK => NoDeadlock
<1> SUFFICES ASSUME TypeOK, NEW S \in (SUBSET Threads) \ {{}},
                    ~ \E t \in S : WaitsFor(t) \cap S = {}
             PROVE  FALSE
  BY Zenon DEF NoDeadlock
<1>0. S \in SUBSET Threads /\ S # {} /\ \A t \in S : WaitsFor(t) \cap S # {}
  OBVIOUS
<1> DEFINE rank(t) == Wanted(t).lock
<1>1. \A t \in S : rank(t) \in 1..7
  BY <1>0, CurrentFacts DEF WaitsFor
<1>2. \A t \in S : \E v \in S : rank(t) < rank(v)
  BY <1>0, SomeoneWaitsAbove
<1> HIDE DEF rank
<1>3. \A t \in S : rank(t) # 7
  BY <1>1, <1>2
<1>4. \A t \in S : rank(t) # 6
  BY <1>1, <1>2, <1>3
<1>5. \A t \in S : rank(t) # 5
  BY <1>1, <1>2, <1>3, <1>4
<1>6. \A t \in S : rank(t) # 4
  BY <1>1, <1>2, <1>3, <1>4, <1>5
<1>7. \A t \in S : rank(t) # 3
  BY <1>1, <1>2, <1>3, <1>4, <1>5, <1>6
<1>8. \A t \in S : rank(t) # 2
  BY <1>1, <1>2, <1>3, <1>4, <1>5, <1>6, <1>7
<1> QED
  BY <1>0, <1>1, <1>2, <1>3, <1>4, <1>5, <1>6, <1>7, <1>8

\* No set of threads waits for itself, whatever the number of threads and
\* whichever calls they make.
THEOREM DeadlockFree == Spec => []NoDeadlock
<1>1. Spec => []TypeOK
  BY TypeCorrect
<1>2. TypeOK => NoDeadlock
  BY OrderExcludesDeadlock
<1> QED
  BY <1>1, <1>2, PTL
=============================================================================
