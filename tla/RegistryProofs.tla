---------------------------- MODULE RegistryProofs ----------------------------
(***************************************************************************)
(* Proofs about Registry.  The records of the table can go back in time    *)
(* only after the newer one is gone, and the cleanup worker removes it     *)
(* only when every signature that could replace it has left the admission  *)
(* window: that is the invariant GoneMeansClosed below, and where          *)
(* WindowAssumption is needed.                                             *)
(***************************************************************************)
EXTENDS Registry, TLAPS

LEMMA CallFields ==
  ASSUME TypeOK, NEW c \in Calls, calls[c] # None
  PROVE  /\ calls[c] \in Call
         /\ calls[c].urn \in Urns /\ calls[c].ts \in Nat
         /\ calls[c].stores \in BOOLEAN /\ calls[c].now \in Nat
BY DEF TypeOK, Call

LEMMA RowFields ==
  ASSUME TypeOK, NEW u \in Urns, rows[u] # None
  PROVE  /\ rows[u] \in Row
         /\ rows[u].ts \in Nat /\ rows[u].stores \in BOOLEAN
         /\ rows[u].authentic \in BOOLEAN /\ rows[u].expires \in Nat
BY DEF TypeOK, Row

-----------------------------------------------------------------------------
(* Types *)

\* Every reachable state is well typed.
THEOREM TypeCorrect == Spec => []TypeOK
<1>1. Init => TypeOK
  BY InputsAssumption DEF Init, TypeOK
<1>2. TypeOK /\ [Next]_vars => TypeOK'
  <2> SUFFICES ASSUME TypeOK, [Next]_vars PROVE TypeOK'
    OBVIOUS
  <2> USE DEF TypeOK
  <2>1. ASSUME NEW c \in Calls, NEW u \in Urns, NEW ts \in 1..(clock + Future),
               NEW stores \in BOOLEAN, RegisterCheck(c, u, ts, stores)
        PROVE  TypeOK'
    <3>1. ts \in Nat
      BY WindowAssumption
    <3> QED BY <2>1, <3>1 DEF RegisterCheck, Call
  <2>2. ASSUME NEW c \in Calls, RegisterWrite(c) PROVE TypeOK'
    <3>1. calls[c].urn \in Urns /\ calls[c].ts \in Nat
          /\ calls[c].stores \in BOOLEAN /\ calls[c].now + ttl \in Nat
      BY <2>2, CallFields, WindowAssumption DEF RegisterWrite
    <3>2. Upsert(calls[c]) \in Row
      BY <3>1 DEF Upsert, Row
    <3> QED BY <2>2, <3>1, <3>2 DEF RegisterWrite
  <2>3. ASSUME NEW c \in Calls, RegisterRefuse(c) \/ RegisterFail(c) PROVE TypeOK'
    BY <2>3 DEF RegisterRefuse, RegisterFail
  <2>4. ASSUME NEW q \in Resolves, NEW u \in Urns, ResolveCheck(q, u) PROVE TypeOK'
    BY <2>4 DEF ResolveCheck, Resolve
  <2>5. ASSUME NEW q \in Resolves, ResolveAnswer(q) PROVE TypeOK'
    <3>1. resolves[q] \in Resolve
      BY <2>5 DEF ResolveAnswer
    <3>2. [resolves[q] EXCEPT !.at = "answered",
             !.answer = IF Resolvable(rows[resolves[q].urn])
                        THEN rows[resolves[q].urn] ELSE None] \in Resolve
      BY <3>1 DEF Resolve, Resolvable
    <3> QED BY <2>5, <3>2 DEF ResolveAnswer
  <2>6. ASSUME NEW q \in Resolves, ResolveReturn(q) PROVE TypeOK'
    BY <2>6 DEF ResolveReturn
  <2>7. CASE SetForwarding
    BY <2>7 DEF SetForwarding, Resolve
  <2>8. ASSUME NEW gone \in SUBSET Urns, Remove(gone) PROVE TypeOK'
    BY <2>8 DEF Remove, Resolve
  <2>9. CASE Cleanup \/ Restart
    BY <2>9 DEF Cleanup, Restart
  <2>10. CASE Tick
    BY <2>10 DEF Tick
  <2>11. CASE UNCHANGED vars
    BY <2>11 DEF vars
  <2> QED
    BY <2>1, <2>2, <2>3, <2>4, <2>5, <2>6, <2>7, <2>8, <2>9, <2>10, <2>11
       DEF Next, EvictEntry, ClearAllEntries
<1> QED BY <1>1, <1>2, PTL DEF Spec

-----------------------------------------------------------------------------
(* Rollback *)

\* A call in progress is not stalled too long, and its signature was fresh when
\* it began.
CallsInWindow ==
    \A c \in Calls : calls[c] # None =>
        /\ calls[c].ts + Past >= calls[c].now
        /\ calls[c].ts <= calls[c].now + Future
        /\ clock <= calls[c].now + Stall

\* The newest accepted record of a URN is still in the table, in or past its
\* lease, or it is gone and no signature as old can be admitted any more.
GoneMeansClosed ==
    \A u \in Urns : newest[u] > 0 =>
        \/ /\ rows[u] # None /\ rows[u].authentic
           /\ rows[u].ts >= newest[u]
           /\ rows[u].expires > rows[u].ts + Past + Stall
        \/ clock > newest[u] + Past + Stall /\ rows[u] = None

RollbackInv == CallsInWindow /\ GoneMeansClosed

LEMMA NextCallsInWindow ==
  TypeOK /\ TypeOK' /\ CallsInWindow /\ [Next]_vars => CallsInWindow'
<1> SUFFICES ASSUME TypeOK, TypeOK', CallsInWindow, [Next]_vars,
                    NEW d \in Calls, calls'[d] # None
             PROVE  /\ calls'[d].ts + Past >= calls'[d].now
                    /\ calls'[d].ts <= calls'[d].now + Future
                    /\ clock' <= calls'[d].now + Stall
  BY DEF CallsInWindow
<1>1. ASSUME NEW c \in Calls, NEW u \in Urns, NEW ts \in 1..(clock + Future),
             NEW stores \in BOOLEAN, RegisterCheck(c, u, ts, stores), d = c
      PROVE  /\ calls'[d].ts + Past >= calls'[d].now
             /\ calls'[d].ts <= calls'[d].now + Future
             /\ clock' <= calls'[d].now + Stall
  BY <1>1, WindowAssumption DEF RegisterCheck, Fresh, TypeOK
<1>2. ASSUME calls'[d] = calls[d], clock' = clock
      PROVE  /\ calls'[d].ts + Past >= calls'[d].now
             /\ calls'[d].ts <= calls'[d].now + Future
             /\ clock' <= calls'[d].now + Stall
  BY <1>2 DEF CallsInWindow
<1>3. CASE Tick
  <2>1. calls[d] # None /\ clock < calls[d].now + Stall /\ calls'[d] = calls[d]
    BY <1>3 DEF Tick
  <2>2. clock + 1 <= calls[d].now + Stall
    BY <2>1, CallFields, WindowAssumption DEF TypeOK
  <2> QED BY <1>3, <2>1, <2>2 DEF CallsInWindow, Tick
<1>4. Tick \/ (calls'[d] = calls[d] /\ clock' = clock)
      \/ \E c \in Calls, u \in Urns, ts \in 1..(clock + Future), stores \in BOOLEAN :
           RegisterCheck(c, u, ts, stores) /\ d = c
  BY DEF Next, vars, TypeOK, RegisterCheck, RegisterWrite, RegisterRefuse, RegisterFail,
         ResolveCheck, ResolveAnswer, ResolveReturn, SetForwarding, EvictEntry,
         ClearAllEntries, Remove, Cleanup, Restart
<1> QED BY <1>1, <1>2, <1>3, <1>4

LEMMA NextGoneMeansClosed ==
  TypeOK /\ TypeOK' /\ RollbackInv /\ [Next]_vars => GoneMeansClosed'
<1> SUFFICES ASSUME TypeOK, TypeOK', RollbackInv, [Next]_vars,
                    NEW u \in Urns, newest'[u] > 0
             PROVE  \/ /\ rows'[u] # None /\ rows'[u].authentic
                       /\ rows'[u].ts >= newest'[u]
                       /\ rows'[u].expires > rows'[u].ts + Past + Stall
                    \/ clock' > newest'[u] + Past + Stall /\ rows'[u] = None
  BY DEF GoneMeansClosed
<1> DEFINE Closed == clock' > newest'[u] + Past + Stall /\ rows'[u] = None
           Held == /\ rows'[u] # None /\ rows'[u].authentic
                   /\ rows'[u].ts >= newest'[u]
                   /\ rows'[u].expires > rows'[u].ts + Past + Stall
<1>1. clock \in Nat /\ clock' \in Nat /\ clock' >= clock
      /\ newest[u] \in Nat /\ newest'[u] \in Nat
      /\ Past \in Nat /\ Future \in Nat /\ Stall \in Nat
  <2>1. clock' = clock \/ clock' = clock + 1
    BY DEF Next, vars, RegisterCheck, RegisterWrite, RegisterRefuse, RegisterFail,
           ResolveCheck, ResolveAnswer, ResolveReturn, SetForwarding, EvictEntry,
           ClearAllEntries, Remove, Cleanup, Restart, Tick
  <2> QED BY <2>1, WindowAssumption DEF TypeOK
<1>2. ASSUME newest[u] > 0
      PROVE  \/ /\ rows[u] # None /\ rows[u].authentic
                /\ rows[u].ts >= newest[u]
                /\ rows[u].expires > rows[u].ts + Past + Stall
             \/ clock > newest[u] + Past + Stall /\ rows[u] = None
  BY <1>2 DEF RollbackInv, GoneMeansClosed
<1>3. ASSUME rows'[u] = rows[u], newest'[u] = newest[u] PROVE Held \/ Closed
  BY <1>1, <1>2, <1>3
<1>4. ASSUME NEW c \in Calls, RegisterWrite(c), calls[c].urn = u PROVE Held
  <2> DEFINE r == calls[c]
  <2>1. /\ r.ts \in Nat /\ r.now \in Nat /\ ttl \in Nat
        /\ r.ts + Past >= r.now /\ r.ts <= r.now + Future /\ clock <= r.now + Stall
        /\ ttl > Past + Future + Stall
    BY <1>4, CallFields, WindowAssumption
       DEF RegisterWrite, RollbackInv, CallsInWindow, TypeOK
  <2>2. /\ rows'[u].ts = r.ts /\ rows'[u].authentic /\ rows'[u].expires = r.now + ttl
        /\ rows'[u] # None
    <3>1. rows'[u] = Upsert(r)
      BY <1>4 DEF RegisterWrite, TypeOK
    <3>2. Upsert(r) \in Row
      BY <1>4, <2>1, CallFields DEF RegisterWrite, Upsert, Row
    <3>3. Upsert(r) # None
      BY <3>2, InputsAssumption
    <3> QED BY <3>1, <3>3 DEF Upsert
  <2>3. r.ts >= newest[u]
    <3>1. CASE newest[u] = 0
      BY <2>1, <3>1
    <3>2. CASE newest[u] > 0 /\ rows[u] = None
      BY <1>1, <1>2, <2>1, <3>2
    <3>3. CASE newest[u] > 0 /\ rows[u] # None
      BY <1>1, <1>2, <1>4, <2>1, <3>3, RowFields DEF RegisterWrite, Older
    <3> QED BY <1>1, <3>1, <3>2, <3>3
  <2>4. newest'[u] = IF r.ts > newest[u] THEN r.ts ELSE newest[u]
    BY <1>4 DEF RegisterWrite, TypeOK
  <2>5. rows'[u].expires > rows'[u].ts + Past + Stall
    BY <1>1, <2>1, <2>2
  <2> QED BY <1>1, <2>1, <2>2, <2>3, <2>4, <2>5
<1>5. ASSUME NEW gone \in SUBSET Urns, Remove(gone), u \in gone PROVE FALSE
  BY <1>5 DEF Remove
<1>6. ASSUME Cleanup, rows[u] # None, Expired(rows[u]) PROVE Held \/ Closed
  <2>1. newest'[u] = newest[u] /\ rows'[u] = None /\ clock' = clock
    BY <1>6 DEF Cleanup
  <2>2. rows[u].ts >= newest[u] /\ rows[u].expires > rows[u].ts + Past + Stall
    BY <1>2, <1>6, <2>1
  <2>3. rows[u].expires < clock /\ rows[u].expires \in Nat /\ rows[u].ts \in Nat
    BY <1>6, RowFields DEF Expired
  <2> QED BY <1>1, <2>1, <2>2, <2>3
<1>7. \/ rows'[u] = rows[u] /\ newest'[u] = newest[u]
      \/ \E c \in Calls : RegisterWrite(c) /\ calls[c].urn = u
      \/ \E gone \in SUBSET Urns : Remove(gone) /\ u \in gone
      \/ Cleanup /\ rows[u] # None /\ Expired(rows[u])
  <2>1. ASSUME NEW c \in Calls, RegisterWrite(c), calls[c].urn # u
        PROVE  rows'[u] = rows[u] /\ newest'[u] = newest[u]
    BY <2>1 DEF RegisterWrite, TypeOK
  <2>2. ASSUME NEW gone \in SUBSET Urns, Remove(gone), u \notin gone
        PROVE  rows'[u] = rows[u] /\ newest'[u] = newest[u]
    BY <2>2 DEF Remove
  <2>3. ASSUME Cleanup, ~(rows[u] # None /\ Expired(rows[u]))
        PROVE  rows'[u] = rows[u] /\ newest'[u] = newest[u]
    BY <2>3 DEF Cleanup
  <2>4. \/ \E c \in Calls : RegisterWrite(c)
        \/ \E gone \in SUBSET Urns : Remove(gone)
        \/ Cleanup
        \/ UNCHANGED <<rows, newest>>
    BY DEF Next, vars, RegisterCheck, RegisterRefuse, RegisterFail, ResolveCheck,
           ResolveAnswer, ResolveReturn, SetForwarding, EvictEntry, ClearAllEntries,
           Restart, Tick
  <2> QED BY <2>1, <2>2, <2>3, <2>4
<1> QED BY <1>3, <1>4, <1>5, <1>6, <1>7

LEMMA RollbackInvariance == Spec => []RollbackInv
<1>1. Init => RollbackInv
  BY DEF Init, RollbackInv, CallsInWindow, GoneMeansClosed
<1>2. TypeOK /\ TypeOK' /\ RollbackInv /\ [Next]_vars => RollbackInv'
  BY NextCallsInWindow, NextGoneMeansClosed DEF RollbackInv
<1> QED BY <1>1, <1>2, TypeCorrect, PTL DEF Spec

\* What is served is never older than what was accepted before.
THEOREM NoRollback == Spec => []NeverRolledBack
<1>1. TypeOK /\ RollbackInv => NeverRolledBack
  <2> SUFFICES ASSUME TypeOK, RollbackInv, NEW u \in Urns, Resolvable(rows[u])
               PROVE  rows[u].ts >= newest[u]
    BY DEF NeverRolledBack
  <2>1. rows[u] # None /\ rows[u].ts \in Nat /\ newest[u] \in Nat
    BY RowFields DEF Resolvable, TypeOK
  <2> QED BY <2>1 DEF RollbackInv, GoneMeansClosed
<1> QED BY <1>1, TypeCorrect, RollbackInvariance, PTL

-----------------------------------------------------------------------------
(* Reads, leases and owners *)

\* The newest accepted timestamp falls only when an administrator removes the
\* row, and then no request remembers it.
ReadsInv ==
    ReadsNeverGoBack
    /\ \A q \in Resolves : resolves[q] # None => resolves[q].since <= newest[resolves[q].urn]

LEMMA NextReads ==
  TypeOK /\ TypeOK' /\ NeverRolledBack /\ ReadsInv /\ [Next]_vars => ReadsInv'
<1> SUFFICES ASSUME TypeOK, TypeOK', NeverRolledBack, ReadsInv, [Next]_vars,
                    NEW q \in Resolves, resolves'[q] # None
             PROVE  /\ resolves'[q].answer # None
                          => resolves'[q].answer.ts >= resolves'[q].since
                    /\ resolves'[q].since <= newest'[resolves'[q].urn]
  BY DEF ReadsInv, ReadsNeverGoBack
<1> DEFINE Goal == /\ resolves'[q].answer # None
                         => resolves'[q].answer.ts >= resolves'[q].since
                   /\ resolves'[q].since <= newest'[resolves'[q].urn]
<1>1. ASSUME resolves[q] # None
      PROVE  /\ resolves[q].answer # None => resolves[q].answer.ts >= resolves[q].since
             /\ resolves[q].since <= newest[resolves[q].urn]
             /\ resolves[q] \in Resolve
  BY <1>1 DEF ReadsInv, ReadsNeverGoBack, TypeOK
<1>2. ASSUME resolves'[q] = resolves[q], newest[resolves[q].urn] <= newest'[resolves[q].urn]
      PROVE  Goal
  <2>1. resolves[q].urn \in Urns /\ resolves[q].since \in Nat
    BY <1>1, <1>2 DEF Resolve
  <2>2. newest[resolves[q].urn] \in Nat /\ newest'[resolves[q].urn] \in Nat
    BY <2>1 DEF TypeOK
  <2> QED BY <1>1, <1>2, <2>1, <2>2
<1>3. ASSUME NEW u \in Urns, ResolveCheck(q, u) PROVE Goal
  BY <1>3 DEF ResolveCheck, TypeOK
<1>4. CASE ResolveAnswer(q)
  <2>1. resolves[q] \in Resolve /\ resolves[q].urn \in Urns /\ resolves[q].since \in Nat
    BY <1>4, <1>1 DEF ResolveAnswer, Resolve
  <2> DEFINE row == rows[resolves[q].urn]
  <2>2. /\ resolves'[q].since = resolves[q].since /\ resolves'[q].urn = resolves[q].urn
        /\ resolves'[q].answer = IF Resolvable(row) THEN row ELSE None
        /\ newest' = newest /\ resolves[q] # None
    BY <1>4, <2>1 DEF ResolveAnswer, Resolve, TypeOK
  <2>3. newest[resolves[q].urn] \in Nat
    BY <2>1 DEF TypeOK
  <2>4. ASSUME Resolvable(row) PROVE row.ts >= resolves[q].since
    <3>1. row.ts \in Nat /\ row.ts >= newest[resolves[q].urn]
      BY <2>1, <2>4, RowFields DEF Resolvable, NeverRolledBack
    <3> QED BY <1>1, <2>1, <2>2, <2>3, <3>1
  <2> QED BY <1>1, <2>2, <2>4
<1>5. CASE SetForwarding
  <2>1. resolves[q] # None /\ resolves[q] \in Resolve
    BY <1>5 DEF SetForwarding, TypeOK
  <2>2. /\ resolves'[q].since = resolves[q].since /\ resolves'[q].urn = resolves[q].urn
        /\ resolves'[q].answer = resolves[q].answer /\ newest' = newest
    BY <1>5, <2>1 DEF SetForwarding, Resolve
  <2> QED BY <1>1, <2>1, <2>2
<1>6. ASSUME NEW gone \in SUBSET Urns, Remove(gone) PROVE Goal
  <2>1. resolves[q] # None /\ resolves[q] \in Resolve /\ resolves[q].urn \in Urns
    BY <1>6 DEF Remove, TypeOK, Resolve
  <2>2. CASE resolves[q].urn \in gone
    <3>1. /\ resolves'[q].since = 0 /\ resolves'[q].urn = resolves[q].urn
          /\ resolves'[q].answer = resolves[q].answer
          /\ newest'[resolves[q].urn] = 0
      BY <1>6, <2>1, <2>2 DEF Remove, Resolve
    <3>2. resolves[q].answer # None => resolves[q].answer.ts \in Nat
      BY <2>1 DEF Resolve, Row
    <3> QED BY <3>1, <3>2
  <2>3. CASE resolves[q].urn \notin gone
    <3>1. newest'[resolves[q].urn] = newest[resolves[q].urn] /\ resolves'[q] = resolves[q]
      BY <1>6, <2>1, <2>3 DEF Remove
    <3> QED BY <1>1, <2>1, <3>1
  <2> QED BY <2>2, <2>3
<1>7. ASSUME NEW c \in Calls, RegisterWrite(c) PROVE Goal
  <2>1. resolves[q] # None /\ resolves'[q] = resolves[q] /\ resolves[q].urn \in Urns
    BY <1>7 DEF RegisterWrite, TypeOK, Resolve
  <2>2. calls[c].ts \in Nat /\ calls[c].urn \in Urns
    BY <1>7, CallFields DEF RegisterWrite
  <2>3. newest[resolves[q].urn] <= newest'[resolves[q].urn]
    BY <1>7, <2>1, <2>2 DEF RegisterWrite, TypeOK
  <2> QED BY <1>2, <2>1, <2>3
<1>8. \/ resolves'[q] = resolves[q] /\ newest' = newest
      \/ \E u \in Urns : ResolveCheck(q, u)
      \/ ResolveAnswer(q) \/ SetForwarding
      \/ \E gone \in SUBSET Urns : Remove(gone)
      \/ \E c \in Calls : RegisterWrite(c)
  BY DEF Next, vars, TypeOK, RegisterCheck, RegisterRefuse, RegisterFail, ResolveCheck,
         ResolveAnswer, ResolveReturn, EvictEntry, ClearAllEntries, Cleanup, Restart, Tick
<1>9. ASSUME resolves'[q] = resolves[q], newest' = newest PROVE Goal
  <2>1. resolves[q].urn \in Urns /\ resolves[q] # None
    BY <1>1, <1>9 DEF Resolve
  <2>2. newest[resolves[q].urn] \in Nat
    BY <2>1 DEF TypeOK
  <2> QED BY <1>2, <1>9, <2>2
<1> QED BY <1>3, <1>4, <1>5, <1>6, <1>7, <1>8, <1>9

\* A resolve request never answers with an older record than was accepted
\* before it arrived.
THEOREM MonotonicReads == Spec => []ReadsNeverGoBack
<1>1. Init => ReadsInv
  BY DEF Init, ReadsInv, ReadsNeverGoBack
<1>2. ReadsInv => ReadsNeverGoBack
  BY DEF ReadsInv
<1> QED BY <1>1, <1>2, NextReads, NoRollback, TypeCorrect, PTL DEF Spec

\* While a lease runs the row that earned it is in the table and lasts as long.
LeaseInv ==
    \A u \in Urns : clock < lease[u] =>
        rows[u] # None /\ rows[u].authentic /\ rows[u].expires >= lease[u]

LEMMA NextLease == TypeOK /\ TypeOK' /\ LeaseInv /\ [Next]_vars => LeaseInv'
<1> SUFFICES ASSUME TypeOK, TypeOK', LeaseInv, [Next]_vars,
                    NEW u \in Urns, clock' < lease'[u]
             PROVE  rows'[u] # None /\ rows'[u].authentic /\ rows'[u].expires >= lease'[u]
  BY DEF LeaseInv
<1>1. clock \in Nat /\ clock' \in Nat /\ clock' >= clock /\ lease[u] \in Nat /\ lease'[u] \in Nat
  <2>1. clock' = clock \/ clock' = clock + 1
    BY DEF Next, vars, RegisterCheck, RegisterWrite, RegisterRefuse, RegisterFail,
           ResolveCheck, ResolveAnswer, ResolveReturn, SetForwarding, EvictEntry,
           ClearAllEntries, Remove, Cleanup, Restart, Tick
  <2> QED BY <2>1 DEF TypeOK
<1>2. CASE rows'[u] = rows[u] /\ lease'[u] = lease[u]
  BY <1>1, <1>2 DEF LeaseInv
<1>3. ASSUME NEW c \in Calls, RegisterWrite(c), calls[c].urn = u
      PROVE  rows'[u] # None /\ rows'[u].authentic /\ rows'[u].expires >= lease'[u]
  <2>1. rows'[u] = Upsert(calls[c]) /\ lease'[u] = calls[c].now + ttl
    BY <1>3 DEF RegisterWrite, TypeOK
  <2>2. calls[c].now + ttl \in Nat
    BY <1>3, CallFields, WindowAssumption DEF RegisterWrite, TypeOK
  <2>3. Upsert(calls[c]) \in Row
    BY <1>3, <2>2, CallFields DEF RegisterWrite, Upsert, Row
  <2>4. Upsert(calls[c]) # None
    BY <2>3, InputsAssumption
  <2> QED BY <2>1, <2>2, <2>4 DEF Upsert
<1>4. ASSUME NEW gone \in SUBSET Urns, Remove(gone), u \in gone PROVE FALSE
  BY <1>1, <1>4 DEF Remove
<1>5. ASSUME Cleanup, rows[u] # None, Expired(rows[u]) PROVE FALSE
  <2>1. lease'[u] = lease[u] /\ clock' = clock
    BY <1>5 DEF Cleanup
  <2>2. rows[u].expires >= lease[u] /\ rows[u].expires < clock /\ rows[u].expires \in Nat
    BY <1>5, <2>1, RowFields DEF Expired, LeaseInv
  <2> QED BY <1>1, <2>1, <2>2
<1>6. \/ rows'[u] = rows[u] /\ lease'[u] = lease[u]
      \/ \E c \in Calls : RegisterWrite(c) /\ calls[c].urn = u
      \/ \E gone \in SUBSET Urns : Remove(gone) /\ u \in gone
      \/ Cleanup /\ rows[u] # None /\ Expired(rows[u])
  <2>1. ASSUME NEW c \in Calls, RegisterWrite(c), calls[c].urn # u
        PROVE  rows'[u] = rows[u] /\ lease'[u] = lease[u]
    BY <2>1 DEF RegisterWrite, TypeOK
  <2>2. ASSUME NEW gone \in SUBSET Urns, Remove(gone), u \notin gone
        PROVE  rows'[u] = rows[u] /\ lease'[u] = lease[u]
    BY <2>2 DEF Remove
  <2>3. ASSUME Cleanup, ~(rows[u] # None /\ Expired(rows[u]))
        PROVE  rows'[u] = rows[u] /\ lease'[u] = lease[u]
    BY <2>3 DEF Cleanup
  <2>4. \/ \E c \in Calls : RegisterWrite(c)
        \/ \E gone \in SUBSET Urns : Remove(gone)
        \/ Cleanup
        \/ UNCHANGED <<rows, lease>>
    BY DEF Next, vars, RegisterCheck, RegisterRefuse, RegisterFail, ResolveCheck,
           ResolveAnswer, ResolveReturn, SetForwarding, EvictEntry, ClearAllEntries,
           Restart, Tick
  <2> QED BY <2>1, <2>2, <2>3, <2>4
<1> QED BY <1>2, <1>3, <1>4, <1>5, <1>6

\* A lease is honoured to its end.
THEOREM LeaseHonoured == Spec => []LeaseKept
<1>1. Init => LeaseInv
  BY DEF Init, LeaseInv
<1>2. TypeOK /\ LeaseInv => LeaseKept
  <2> SUFFICES ASSUME TypeOK, LeaseInv, NEW u \in Urns, clock < lease[u]
               PROVE  Resolvable(rows[u])
    BY DEF LeaseKept
  <2>1. rows[u] # None /\ rows[u].authentic /\ rows[u].expires >= lease[u]
    BY DEF LeaseInv
  <2>2. rows[u].expires \in Nat /\ lease[u] \in Nat /\ clock \in Nat
    BY <2>1, RowFields DEF TypeOK
  <2> QED BY <2>1, <2>2 DEF Resolvable
<1> QED BY <1>1, <1>2, NextLease, TypeCorrect, PTL DEF Spec

\* Neither a poisoned row nor a race keeps an owner's record out.
THEOREM OwnersRecover == Spec => OwnerRecovers
<1>1. ASSUME TypeOK, [Next]_vars, NEW c \in Calls, RegisterWrite(c) \/ RegisterRefuse(c)
      PROVE  LET row == rows'[calls[c].urn]
             IN  row # None /\ row.authentic /\ row.ts >= calls[c].ts
  <2>1. calls[c] # None
    BY <1>1 DEF RegisterWrite, RegisterRefuse
  <2>2. calls[c].urn \in Urns /\ calls[c].ts \in Nat
    BY <1>1, <2>1, CallFields
  <2>3. CASE RegisterWrite(c)
    <3>1. rows'[calls[c].urn] = Upsert(calls[c])
      BY <1>1, <2>2, <2>3 DEF RegisterWrite, TypeOK
    <3>2. Upsert(calls[c]) \in Row
      BY <1>1, <2>1, CallFields, WindowAssumption DEF Upsert, Row, TypeOK
    <3>3. Upsert(calls[c]) # None
      BY <3>2, InputsAssumption
    <3> QED BY <2>2, <3>1, <3>3 DEF Upsert
  <2>4. CASE RegisterRefuse(c)
    <3>1. rows' = rows /\ rows[calls[c].urn] # None
      BY <2>4 DEF RegisterRefuse, Older
    <3>2. rows[calls[c].urn].ts \in Nat
      BY <1>1, <2>2, <3>1, RowFields
    <3> QED BY <2>2, <2>4, <3>1, <3>2 DEF RegisterRefuse, Older
  <2> QED BY <1>1, <2>3, <2>4
<1>2. TypeOK /\ [Next]_vars
      => [\A c \in Calls :
            RegisterWrite(c) \/ RegisterRefuse(c)
            => LET row == rows'[calls[c].urn]
               IN  row # None /\ row.authentic /\ row.ts >= calls[c].ts]_vars
  BY <1>1
<1> QED BY <1>2, TypeCorrect, PTL DEF Spec, OwnerRecovers

-----------------------------------------------------------------------------
(* The registry implements Directory.  A registration that is written is    *)
(* published, by RollbackInv not below the floor; everything that happens   *)
(* to rows nobody can resolve is invisible.                                 *)

\* A row that has not changed is served as before, while the clock stands.
LEMMA ServedSame ==
  ASSUME NEW u \in Urns, rows'[u] = rows[u], clock' = clock
  PROVE  Serves(u)' = Serves(u)
  BY DEF Serves, Resolvable

LEMMA AllServedSame ==
  ASSUME UNCHANGED <<clock, rows>>
  PROVE  [u \in Urns |-> Serves(u)'] = [u \in Urns |-> Serves(u)]
  BY ServedSame

LEMMA AllToldSame ==
  ASSUME UNCHANGED resolves
  PROVE  [q \in Resolves |-> Told(q)'] = [q \in Resolves |-> Told(q)]
  BY DEF Told

LEMMA WriteIsPublish ==
  ASSUME TypeOK, RollbackInv, NEW c \in Calls, RegisterWrite(c)
  PROVE  Dir!Publish(calls[c].urn)
<1> PICK u : u = calls[c].urn
  OBVIOUS
<1> DEFINE r == calls[c]
           new == Upsert(r)
<1>1. /\ u \in Urns /\ r.ts \in Nat /\ r.now \in Nat /\ ttl \in Nat /\ ttl > Past + Future + Stall
      /\ r.ts + Past >= r.now /\ clock <= r.now + Stall
      /\ clock \in Nat /\ newest[u] \in Nat /\ Past \in Nat /\ Future \in Nat /\ Stall \in Nat
  BY CallFields, WindowAssumption DEF RegisterWrite, TypeOK, RollbackInv, CallsInWindow
<1>2. rows' = [rows EXCEPT ![u] = new] /\ rows'[u] = new /\ UNCHANGED <<clock, resolves>>
  BY <1>1 DEF RegisterWrite, TypeOK
<1>3. new \in Row /\ new # None
  <2>1. calls[c].stores \in BOOLEAN
    BY CallFields DEF RegisterWrite
  <2>2. new \in Row
    BY <1>1, <2>1 DEF Upsert, Row
  <2> QED BY <2>2, InputsAssumption
<1>4. new.expires > clock /\ new.ts = r.ts /\ new.authentic
  BY <1>1 DEF Upsert
<1>5. Serves(u)' = new
  <2> HIDE DEF new
  <2> QED BY <1>2, <1>3, <1>4 DEF Serves, Resolvable
<1>6. ASSUME rows[u] # None, rows[u].authentic PROVE r.ts >= rows[u].ts
  BY <1>1, <1>6, RowFields DEF RegisterWrite, Older
<1>7. r.ts >= newest[u]
  <2>1. CASE newest[u] = 0
    BY <1>1, <2>1
  <2>2. CASE rows[u] # None /\ rows[u].authentic /\ rows[u].ts >= newest[u]
    BY <1>1, <1>6, <2>2, RowFields
  <2>3. CASE clock > newest[u] + Past + Stall
    BY <1>1, <2>3
  <2> QED BY <1>1, <2>1, <2>2, <2>3 DEF RollbackInv, GoneMeansClosed
<1>8. Serves(u) # None => new.ts >= Serves(u).ts
  BY <1>4, <1>6 DEF Serves, Resolvable
<1>9. [v \in Urns |-> Serves(v)'] = [[v \in Urns |-> Serves(v)] EXCEPT ![u] = new]
  <2>1. ASSUME NEW v \in Urns \ {u} PROVE Serves(v)' = Serves(v)
    BY <1>1, <1>2, <2>1, ServedSame DEF TypeOK
  <2> QED BY <1>1, <1>5, <2>1
<1>10. newest' = [newest EXCEPT ![u] = new.ts]
  <2>1. newest' = [newest EXCEPT ![u] = IF r.ts > newest[u] THEN r.ts ELSE newest[u]]
    BY DEF RegisterWrite
  <2>2. (IF r.ts > newest[u] THEN r.ts ELSE newest[u]) = new.ts
    BY <1>1, <1>4, <1>7
  <2> QED BY <2>1, <2>2
<1> QED
  BY <1>1, <1>2, <1>3, <1>4, <1>5, <1>7, <1>8, <1>9, <1>10, AllToldSame DEF Dir!Publish

LEMMA RemoveIsWithdraw ==
  ASSUME TypeOK, NEW gone \in SUBSET Urns, Remove(gone)
  PROVE  Dir!Withdraw(gone)
<1>1. ASSUME NEW u \in Urns PROVE Serves(u)' = IF u \in gone THEN None ELSE Serves(u)
  BY DEF Remove, Serves, Resolvable
<1>2. ASSUME NEW q \in Resolves PROVE Told(q)' = Told(q)
  <2>1. CASE resolves[q] = None
    BY <2>1 DEF Remove, Told
  <2>2. CASE resolves[q] # None
    <3>1. resolves[q] \in Resolve
      BY <2>2 DEF TypeOK
    <3>2. LET x == [resolves[q] EXCEPT !.since = 0]
          IN  /\ x \in Resolve
              /\ x.urn = resolves[q].urn
              /\ x.at = resolves[q].at /\ x.answer = resolves[q].answer
      BY <3>1 DEF Resolve
    <3>3. resolves'[q] = resolves[q] \/ resolves'[q] = [resolves[q] EXCEPT !.since = 0]
      BY <2>2 DEF Remove
    <3>4. /\ resolves'[q] # None /\ resolves'[q].urn = resolves[q].urn
          /\ resolves'[q].at = resolves[q].at /\ resolves'[q].answer = resolves[q].answer
      BY <2>2, <3>2, <3>3, InputsAssumption
    <3> QED BY <2>2, <3>4 DEF Told
  <2> QED BY <2>1, <2>2
<1> QED BY <1>1, <1>2 DEF Dir!Withdraw, Remove

LEMMA TickIsTick ==
  ASSUME TypeOK, Tick
  PROVE  Dir!Tick
<1>1. clock \in Nat /\ clock' = clock + 1 /\ UNCHANGED <<rows, resolves, newest>>
  BY DEF Tick, TypeOK
<1>2. ASSUME NEW u \in Urns
      PROVE  Serves(u)' = IF Serves(u) # None /\ Serves(u).expires <= clock'
                          THEN None ELSE Serves(u)
  <2>1. CASE rows[u] = None
    BY <1>1, <2>1 DEF Serves, Resolvable
  <2>2. CASE rows[u] # None
    BY <1>1, <2>2, RowFields DEF Serves, Resolvable
  <2> QED BY <2>1, <2>2
<1> QED BY <1>1, <1>2, AllToldSame DEF Dir!Tick

\* What the worker deletes was not served any more.
LEMMA CleanupIsInvisible ==
  ASSUME TypeOK, Cleanup
  PROVE  UNCHANGED Dir!vars
<1>1. ASSUME NEW u \in Urns PROVE Serves(u)' = Serves(u)
  <2>1. CASE rows[u] # None /\ Expired(rows[u])
    <3>1. rows[u].expires < clock /\ rows[u].expires \in Nat /\ clock \in Nat
      BY <2>1, RowFields DEF Expired, TypeOK
    <3> QED BY <2>1, <3>1 DEF Cleanup, Serves, Resolvable
  <2>2. CASE ~(rows[u] # None /\ Expired(rows[u]))
    BY <2>2, ServedSame DEF Cleanup
  <2> QED BY <2>1, <2>2
<1> QED BY <1>1, AllToldSame DEF Dir!vars, Cleanup

LEMMA ResolvesAreReads ==
  ASSUME TypeOK, NEW q \in Resolves,
         (\E u \in Urns : ResolveCheck(q, u)) \/ ResolveAnswer(q) \/ ResolveReturn(q)
  PROVE  Dir!Next
<1>1. [u \in Urns |-> Serves(u)'] = [u \in Urns |-> Serves(u)] /\ UNCHANGED <<clock, newest>>
  BY AllServedSame DEF ResolveCheck, ResolveAnswer, ResolveReturn
<1>2. ASSUME NEW p \in Resolves \ {q} PROVE Told(p)' = Told(p)
  BY <1>2 DEF ResolveCheck, ResolveAnswer, ResolveReturn, Told, TypeOK
<1>3. ASSUME NEW u \in Urns, ResolveCheck(q, u) PROVE Dir!Ask(q, u)
  <2>1. Told(q) = None
    BY <1>3 DEF ResolveCheck, Told
  <2>2. resolves'[q] # None
    <3>1. forward \in BOOLEAN /\ newest[u] \in Nat
      BY DEF TypeOK
    <3>2. resolves'[q] \in Resolve
      BY <1>3, <3>1 DEF ResolveCheck, Resolve, TypeOK
    <3> QED BY <3>2, InputsAssumption
  <2>3. Told(q)' = [urn |-> u, done |-> FALSE, answer |-> None]
    <3>1. PICK read \in BOOLEAN :
            resolves' = [resolves EXCEPT ![q] =
                           [urn |-> u, at |-> "checked", off |-> read /\ ~forward,
                            since |-> newest[u], answer |-> None]]
      BY <1>3 DEF ResolveCheck
    <3>2. /\ resolves'[q].urn = u /\ resolves'[q].at = "checked"
          /\ resolves'[q].answer = None
      BY <3>1 DEF TypeOK
    <3> QED BY <2>2, <3>2 DEF Told
  <2> QED BY <1>1, <1>2, <2>1, <2>3 DEF Dir!Ask
<1>4. CASE ResolveAnswer(q)
  <2>1. resolves[q] \in Resolve /\ resolves[q].urn \in Urns
    BY <1>4 DEF ResolveAnswer, TypeOK, Resolve
  <2>2. Told(q) = [urn |-> resolves[q].urn, done |-> FALSE, answer |-> resolves[q].answer]
    BY <1>4 DEF ResolveAnswer, Told
  <2>3. Told(q) # None
    <3>1. resolves[q].answer \in Row \cup {None}
      BY <2>1 DEF Resolve
    <3>2. Told(q) \in [urn : Urns, done : BOOLEAN, answer : Row \cup {None}]
      BY <2>1, <2>2, <3>1
    <3> QED BY <3>2, InputsAssumption
  <2>4. resolves'[q] = [resolves[q] EXCEPT !.at = "answered", !.answer = Serves(resolves[q].urn)]
    BY <1>4 DEF ResolveAnswer, Serves, TypeOK
  <2>5. Serves(resolves[q].urn) \in Row \cup {None}
    BY <2>1 DEF Serves, TypeOK
  <2>6. resolves'[q] \in Resolve /\ resolves'[q].at = "answered"
        /\ resolves'[q].urn = resolves[q].urn
        /\ resolves'[q].answer = Serves(resolves[q].urn)
    BY <2>1, <2>4, <2>5 DEF Resolve
  <2>7. Told(q)' = [urn |-> resolves[q].urn, done |-> TRUE,
                    answer |-> Serves(resolves[q].urn)]
    BY <2>6, InputsAssumption DEF Told
  <2>8. Dir!Answer(q)
    <3> DEFINE told == [p \in Resolves |-> Told(p)]
    <3>1. told[q] = Told(q) /\ told[q].urn = resolves[q].urn /\ ~told[q].done
      BY <2>2
    <3>2. [p \in Resolves |-> Told(p)'] = [told EXCEPT ![q] = Told(q)']
      BY <1>2
    <3>3. [u \in Urns |-> Serves(u)][told[q].urn] = Serves(resolves[q].urn)
      BY <2>1, <3>1
    <3> QED BY <1>1, <2>3, <2>7, <3>1, <3>2, <3>3 DEF Dir!Answer
  <2> QED BY <2>8 DEF Dir!Next
<1>5. CASE ResolveReturn(q)
  <2>1. Told(q)' = None
    BY <1>5 DEF ResolveReturn, Told, TypeOK
  <2>2. Dir!Forget({q})
    BY <1>1, <1>2, <2>1 DEF Dir!Forget
  <2> QED BY <2>2 DEF Dir!Next
<1> QED BY <1>3, <1>4, <1>5 DEF Dir!Next

LEMMA DirectorySimulation ==
  ASSUME TypeOK, RollbackInv, [Next]_vars
  PROVE  [Dir!Next]_(Dir!vars)
<1>1. ASSUME NEW c \in Calls, RegisterWrite(c) PROVE Dir!Next
  <2>1. calls[c].urn \in Urns
    BY <1>1, CallFields DEF RegisterWrite
  <2> QED BY <1>1, <2>1, WriteIsPublish DEF Dir!Next
<1>2. ASSUME NEW gone \in SUBSET Urns, Remove(gone) PROVE Dir!Next
  BY <1>2, RemoveIsWithdraw DEF Dir!Next
<1>3. ASSUME NEW q \in Resolves,
             (\E u \in Urns : ResolveCheck(q, u)) \/ ResolveAnswer(q) \/ ResolveReturn(q)
      PROVE  Dir!Next
  BY <1>3, ResolvesAreReads
<1>4. CASE SetForwarding
  <2>1. ASSUME NEW q \in Resolves PROVE Told(q)' = Told(q)
    <3>1. CASE resolves[q] = None
      BY <1>4, <3>1 DEF SetForwarding, Told
    <3>2. CASE resolves[q] # None
      <4>1. resolves[q] \in Resolve
        BY <3>2 DEF TypeOK
      <4>2. LET x == [resolves[q] EXCEPT !.off = FALSE]
            IN  /\ x \in Resolve
                /\ x.urn = resolves[q].urn
                /\ x.at = resolves[q].at /\ x.answer = resolves[q].answer
        BY <4>1 DEF Resolve
      <4> QED BY <1>4, <3>2, <4>2, InputsAssumption DEF SetForwarding, Told
    <3> QED BY <3>1, <3>2
  <2> QED BY <1>4, <2>1, AllServedSame DEF SetForwarding, Dir!vars
<1>5. CASE Cleanup
  BY <1>5, CleanupIsInvisible
<1>6. CASE Restart
  <2>1. \A q \in Resolves : Told(q)' = None
    BY <1>6 DEF Restart, Told
  <2>2. Dir!Forget(Resolves)
    BY <1>6, <2>1, AllServedSame DEF Restart, Dir!Forget
  <2> QED BY <2>2 DEF Dir!Next
<1>7. CASE Tick
  BY <1>7, TickIsTick DEF Dir!Next
<1>8. CASE UNCHANGED <<clock, rows, resolves, newest>>
  BY <1>8, AllServedSame, AllToldSame DEF Dir!vars
<1> QED
  BY <1>1, <1>2, <1>3, <1>4, <1>5, <1>6, <1>7, <1>8
     DEF Next, vars, RegisterCheck, RegisterRefuse, RegisterFail, EvictEntry, ClearAllEntries

\* The registry implements the directory of one record per URN: no clean-up,
\* restart, poisoned row, late, repeated or refused registration can be seen.
THEOREM Refinement == Spec => ImplementsDirectory
<1>1. Init => Dir!Init
  <2> SUFFICES ASSUME Init PROVE Dir!Init
    OBVIOUS
  <2>1. \A q \in Resolves : Told(q) = None
    BY DEF Init, Told
  <2>2. \A u \in Urns : Serves(u) # None => Serves(u).expires > clock
    BY DEF Serves, Resolvable
  <2> QED BY <2>1, <2>2 DEF Init, Dir!Init
<1>2. TypeOK /\ RollbackInv /\ [Next]_vars => [Dir!Next]_(Dir!vars)
  BY DirectorySimulation
<1> QED
  BY <1>1, <1>2, TypeCorrect, RollbackInvariance, PTL DEF Spec, Dir!Spec, ImplementsDirectory
=============================================================================
