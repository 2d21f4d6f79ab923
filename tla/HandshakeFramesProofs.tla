------------------------- MODULE HandshakeFramesProofs -------------------------
(***************************************************************************)
(* The properties of HandshakeFrames, for any frames, recipients, policies *)
(* and limits.                                                             *)
(***************************************************************************)
EXTENDS HandshakeFrames, FiniteSetTheorems, TLAPS

\* The calls that have not reached the transaction.
Posting ==
  \A c \in Calls : call[c] # None =>
    /\ Under[call[c].frame] = epoch
    /\ call[c].expiry <= now + Day
    /\ call[c].expiry <= PolicyExpiry[epoch] /\ call[c].expiry <= Deadline[call[c].frame]

\* The rows: within what admitted them, and what was acknowledged of them.
Bounded ==
  \A f \in Frames : rows[f] # None =>
    /\ rows[f].expiry <= PolicyExpiry[Under[f]] /\ rows[f].expiry <= Deadline[f]
    /\ rows[f].read => rows[f].at <= rows[f].readAt
    /\ rows[f].at <= now

IInv == TypeOK /\ Posting /\ Bounded

LEMMA EarlierFacts ==
  ASSUME NEW a \in Nat, NEW b \in Nat
  PROVE  Earlier(a, b) \in Nat /\ Earlier(a, b) <= a /\ Earlier(a, b) <= b
BY DEF Earlier

LEMMA ExpiryFacts ==
  ASSUME TypeOK, NEW f \in Frames
  PROVE  /\ Expiry(f) \in Nat /\ Expiry(f) <= now + Day
         /\ Expiry(f) <= PolicyExpiry[epoch] /\ Expiry(f) <= Deadline[f]
<1>1. now + Day \in Nat /\ PolicyExpiry[epoch] \in Nat /\ Deadline[f] \in Nat
  BY FramesAssumption, LimitsAssumption DEF TypeOK
<1> DEFINE e == Earlier(PolicyExpiry[epoch], Deadline[f])
<1>2. e \in Nat /\ e <= PolicyExpiry[epoch] /\ e <= Deadline[f]
  BY <1>1, EarlierFacts
<1>3. Expiry(f) = Earlier(now + Day, e)
  BY DEF Expiry
<1> HIDE DEF e
<1>4. Expiry(f) \in Nat /\ Expiry(f) <= now + Day /\ Expiry(f) <= e
  BY <1>1, <1>2, <1>3, EarlierFacts
<1> QED
  BY <1>1, <1>2, <1>4

LEMMA InsertFacts ==
  ASSUME TypeOK, NEW c \in Calls, Insert(c)
  PROVE  LET f == call[c].frame IN
         /\ f \in Frames /\ rows[f] = None /\ call[c] \in Call
         /\ \A g \in Frames : g # f => rows'[g] = rows[g]
         /\ rows'[f] = [bytes |-> call[c].bytes, expiry |-> call[c].expiry, at |-> now,
                        read |-> FALSE, readAt |-> 0]
         /\ rows'[f] \in Row /\ rows' \in [Frames -> Row \cup {None}]
         /\ WithinQuota(To[f], rows')
         /\ call' = [call EXCEPT ![c] = None]
         /\ UNCHANGED <<epoch, days, now, final, kept>>
<1> DEFINE f == call[c].frame
<1>1. call[c] \in Call /\ f \in Frames /\ now \in Nat
  BY LimitsAssumption DEF Insert, TypeOK, Call
<1>2. rows' = [rows EXCEPT ![f] =
        [bytes |-> call[c].bytes, expiry |-> call[c].expiry, at |-> now,
         read |-> FALSE, readAt |-> 0]]
  BY DEF Insert
<1>3. [bytes |-> call[c].bytes, expiry |-> call[c].expiry, at |-> now,
       read |-> FALSE, readAt |-> 0] \in Row
  BY <1>1 DEF Call, Row
<1>4. rows'[f] = [bytes |-> call[c].bytes, expiry |-> call[c].expiry, at |-> now,
                  read |-> FALSE, readAt |-> 0]
  BY <1>1, <1>2 DEF TypeOK
<1>5. rows' \in [Frames -> Row \cup {None}] /\ \A g \in Frames : g # f => rows'[g] = rows[g]
  BY <1>2, <1>3 DEF TypeOK
<1>6. rows[f] = None /\ WithinQuota(To[f], rows') /\ call' = [call EXCEPT ![c] = None]
      /\ UNCHANGED <<epoch, days, now, final, kept>>
  BY DEF Insert, Free
<1> QED
  BY <1>1, <1>3, <1>4, <1>5, <1>6

LEMMA AckFacts ==
  ASSUME TypeOK, NEW u \in Urns, NEW fs \in SUBSET Frames, AckV2Frames(u, fs)
  PROVE  /\ \A f \in Frames : f \notin Acked(u, fs) => rows'[f] = rows[f] /\ final'[f] = final[f]
         /\ \A f \in Acked(u, fs) :
              /\ f \in Frames /\ Unread(f) /\ rows'[f] \in Row
              /\ rows'[f].bytes = rows[f].bytes /\ rows'[f].expiry = rows[f].expiry
              /\ rows'[f].at = rows[f].at /\ rows'[f].read /\ rows'[f].readAt = now
              /\ final'[f] = rows[f].expiry
         /\ UNCHANGED <<call, epoch, days, now, kept>>
<1>1. \A f \in Acked(u, fs) : f \in Frames /\ Unread(f) /\ rows[f] \in Row
  BY DEF Acked, Pending, Unread, TypeOK
<1>2. now \in Nat
  BY LimitsAssumption DEF TypeOK
<1>3. \A f \in Acked(u, fs) :
        rows'[f] = [rows[f] EXCEPT !.read = TRUE, !.readAt = now] /\ final'[f] = rows[f].expiry
  BY <1>1 DEF AckV2Frames
<1>4. \A f \in Acked(u, fs) :
        /\ rows'[f] \in Row
        /\ rows'[f].bytes = rows[f].bytes /\ rows'[f].expiry = rows[f].expiry
        /\ rows'[f].at = rows[f].at /\ rows'[f].read /\ rows'[f].readAt = now
  BY <1>1, <1>2, <1>3 DEF Row
<1> QED
  BY <1>1, <1>3, <1>4 DEF AckV2Frames

LEMMA IInvInit == Init => IInv
BY FramesAssumption, LimitsAssumption DEF Init, IInv, TypeOK, Posting, Bounded, Epochs

\* A step that only deletes rows, and forgets what was final of some.
LEMMA Deleting ==
  ASSUME IInv, NEW fs, Delete(fs), UNCHANGED <<call, epoch, days, now, kept>>,
         final' \in [Frames -> Nat]
  PROVE  IInv'
<1>1. /\ rows' \in [Frames -> Row \cup {None}]
      /\ \A f \in Frames : rows'[f] # None => rows'[f] = rows[f]
  BY DEF Delete, IInv, TypeOK
<1>2. TypeOK'
  BY <1>1 DEF IInv, TypeOK
<1>3. Posting'
  BY DEF IInv, Posting
<1>4. Bounded'
  BY <1>1 DEF IInv, Bounded
<1> QED
  BY <1>2, <1>3, <1>4 DEF IInv

LEMMA IInvStep == IInv /\ [Next]_vars => IInv'
<1> SUFFICES ASSUME IInv, [Next]_vars PROVE IInv'
  OBVIOUS
<1> USE FramesAssumption, LimitsAssumption, NoneAssumption
<1>0. TypeOK /\ now \in Nat
  BY DEF IInv, TypeOK
<1>1. ASSUME NEW c \in Calls, NEW f \in Frames, NEW b \in Posted, Post(c, f, b) PROVE IInv'
  <2>1. /\ Expiry(f) \in Nat /\ Expiry(f) <= now + Day
        /\ Expiry(f) <= PolicyExpiry[epoch] /\ Expiry(f) <= Deadline[f]
    BY <1>0, ExpiryFacts
  <2> DEFINE new == [frame |-> f, bytes |-> b, expiry |-> Expiry(f)]
  <2>2. new \in Call /\ new.frame = f /\ new.expiry = Expiry(f)
    BY <2>1 DEF Call
  <2>3. call' = [call EXCEPT ![c] = new] /\ Under[f] = epoch
        /\ UNCHANGED <<rows, epoch, days, now, final, kept>>
    BY <1>1 DEF Post
  <2> HIDE DEF new
  <2>4. TypeOK'
    BY <2>2, <2>3 DEF IInv, TypeOK
  <2>5. Posting'
    BY <2>1, <2>2, <2>3 DEF IInv, Posting, TypeOK
  <2>6. Bounded'
    BY <2>3 DEF IInv, Bounded
  <2> QED
    BY <2>4, <2>5, <2>6 DEF IInv
<1>2. ASSUME NEW c \in Calls, Insert(c) PROVE IInv'
  <2> DEFINE f == call[c].frame
  <2>1. /\ f \in Frames /\ call[c] \in Call
        /\ \A g \in Frames : g # f => rows'[g] = rows[g]
        /\ rows'[f].expiry = call[c].expiry /\ rows'[f].at = now /\ rows'[f].read = FALSE
        /\ rows' \in [Frames -> Row \cup {None}]
        /\ call' = [call EXCEPT ![c] = None]
        /\ UNCHANGED <<epoch, days, now, final, kept>>
    <3>1. rows'[f] = [bytes |-> call[c].bytes, expiry |-> call[c].expiry, at |-> now,
                      read |-> FALSE, readAt |-> 0]
      BY <1>0, <1>2, InsertFacts, Zenon
    <3>2. rows'[f].expiry = call[c].expiry /\ rows'[f].at = now /\ rows'[f].read = FALSE
      BY <3>1
    <3> QED
      BY <1>0, <1>2, <3>2, InsertFacts, Zenon
  <2>2. call[c] # None
    BY <1>2 DEF Insert
  <2>3. TypeOK'
    BY <2>1, <2>2 DEF IInv, TypeOK, Posting
  <2>4. Posting'
    BY <2>1 DEF IInv, Posting, TypeOK
  <2>5. Bounded'
    BY <1>0, <2>1, <2>2 DEF IInv, Bounded, Posting
  <2> QED
    BY <2>3, <2>4, <2>5 DEF IInv
<1>3. ASSUME NEW c \in Calls, Return(c) PROVE IInv'
  BY <1>3 DEF Return, IInv, TypeOK, Posting, Bounded
<1>4. ASSUME NEW u \in Urns, NEW fs \in SUBSET Frames, AckV2Frames(u, fs) PROVE IInv'
  <2>1. /\ \A f \in Frames : f \notin Acked(u, fs) => rows'[f] = rows[f] /\ final'[f] = final[f]
        /\ \A f \in Acked(u, fs) :
             /\ f \in Frames /\ Unread(f) /\ rows'[f] \in Row
             /\ rows'[f].expiry = rows[f].expiry
             /\ rows'[f].at = rows[f].at /\ rows'[f].readAt = now
             /\ final'[f] = rows[f].expiry
        /\ UNCHANGED <<call, epoch, days, now, kept>>
    BY <1>0, <1>4, AckFacts
  <2>2. rows' \in [Frames -> Row \cup {None}] /\ final' \in [Frames -> Nat]
    <3>1. DOMAIN rows' = Frames /\ DOMAIN final' = Frames
          /\ rows' = [f \in Frames |-> rows'[f]] /\ final' = [f \in Frames |-> final'[f]]
      BY <1>4 DEF AckV2Frames
    <3>2. \A f \in Frames : rows'[f] \in Row \cup {None} /\ final'[f] \in Nat
      BY <2>1 DEF IInv, TypeOK, Unread, Row
    <3> QED
      BY <3>1, <3>2
  <2>3. TypeOK'
    BY <2>1, <2>2 DEF IInv, TypeOK, Unread
  <2>4. Posting'
    BY <2>1 DEF IInv, Posting
  <2>5. Bounded'
    BY <1>0, <2>1 DEF IInv, Bounded, Unread
  <2> QED
    BY <2>3, <2>4, <2>5 DEF IInv
<1>5. CASE CleanExpired \/ CleanHistory
  BY <1>5, Deleting DEF CleanExpired, CleanHistory, IInv, TypeOK
<1>6. ASSUME NEW u \in Urns, PurgeQueue(u) PROVE IInv'
  <2>1. final' \in [Frames -> Nat]
    BY <1>6 DEF PurgeQueue, IInv, TypeOK
  <2> QED
    BY <1>6, <2>1, Deleting DEF PurgeQueue
<1>7. ASSUME NEW d \in HistoryDays, SetHistoryRetentionDays(d) PROVE IInv'
  <2>1. (kept /\ d # 0) \in BOOLEAN
    OBVIOUS
  <2> QED
    BY <1>7, <2>1 DEF SetHistoryRetentionDays, IInv, TypeOK, Posting, Bounded
<1>8. ASSUME NEW e \in Epochs, Restart(e) PROVE IInv'
  BY <1>8 DEF Restart, IInv, TypeOK, Posting, Bounded
<1>9. CASE Tick
  <2>1. now' = now + 1 /\ now' \in 0..MaxTime /\ UNCHANGED <<rows, call, epoch, days, final, kept>>
    BY <1>0, <1>9 DEF Tick
  <2>2. TypeOK'
    BY <2>1 DEF IInv, TypeOK
  <2>3. Posting'
    <3>1. \A c \in Calls : call[c] # None => call[c].expiry \in Nat
      BY DEF IInv, TypeOK, Call
    <3> QED
      BY <1>0, <2>1, <3>1 DEF IInv, Posting
  <2>4. Bounded'
    <3>1. \A f \in Frames : rows[f] # None => rows[f].at \in Nat
      BY DEF IInv, TypeOK, Row
    <3> QED
      BY <1>0, <2>1, <3>1 DEF IInv, Bounded
  <2> QED
    BY <2>2, <2>3, <2>4 DEF IInv
<1>10. CASE UNCHANGED vars
  BY <1>10 DEF vars, IInv, TypeOK, Posting, Bounded
<1> QED
  BY <1>1, <1>2, <1>3, <1>4, <1>5, <1>6, <1>7, <1>8, <1>9, <1>10 DEF Next

LEMMA Invariant == Spec => []IInv
BY IInvInit, IInvStep, PTL DEF Spec

\* The rows and the calls keep their types, and no row lives longer than a day.
THEOREM TypeCorrect == Spec => []TypeOK
<1>1. IInv => TypeOK
  BY DEF IInv
<1> QED
  BY <1>1, Invariant, PTL

\* A frame is not delivered once the policy or the payload that admitted it
\* has ended, although no policy is looked at when it is read.
THEOREM FramesEndWithTheirPolicy == Spec => []NoneOutlivesItsPolicy
<1>1. IInv => NoneOutlivesItsPolicy
  <2> SUFFICES ASSUME IInv, NEW f \in Frames, Unread(f)
      PROVE  now < PolicyExpiry[Under[f]] /\ now < Deadline[f]
    BY DEF NoneOutlivesItsPolicy
  <2>1. rows[f] \in Row /\ now < rows[f].expiry
    BY DEF IInv, TypeOK, Unread
  <2>2. rows[f].expiry <= PolicyExpiry[Under[f]] /\ rows[f].expiry <= Deadline[f]
    BY <2>1, NoneAssumption DEF IInv, Bounded
  <2>3. /\ now \in Nat /\ rows[f].expiry \in Nat
        /\ PolicyExpiry[Under[f]] \in Nat /\ Deadline[f] \in Nat
    BY <2>1, FramesAssumption, LimitsAssumption DEF IInv, TypeOK, Row
  <2> QED
    BY <2>1, <2>2, <2>3
<1> QED
  BY <1>1, Invariant, PTL

-----------------------------------------------------------------------------
(* The quota.                                                              *)

LEMMA PendingFinite ==
  ASSUME NEW u
  PROVE  IsFiniteSet(Pending(u)) /\ IsFiniteSet(Pending(u)')
<1>1. Pending(u) \in SUBSET Frames /\ Pending(u)' \in SUBSET Frames
  BY DEF Pending
<1> QED
  BY <1>1, FS_Subset, FramesAssumption

\* The steps after which nothing new is pending.
LEMMA NothingNew ==
  ASSUME OneBatch, \A u \in Urns : Pending(u)' \subseteq Pending(u)
  PROVE  OneBatch'
<1> SUFFICES ASSUME NEW u \in Urns PROVE Cardinality(Pending(u)') <= Batch
  BY DEF OneBatch
<1>1. /\ Cardinality(Pending(u)') <= Cardinality(Pending(u))
      /\ Cardinality(Pending(u)) \in Nat /\ Cardinality(Pending(u)') \in Nat
  BY PendingFinite, FS_Subset, FS_CardinalityType
<1> QED
  BY <1>1, LimitsAssumption DEF OneBatch

LEMMA OneBatchStep == IInv /\ OneBatch /\ [Next]_vars => OneBatch'
<1> SUFFICES ASSUME IInv, OneBatch, [Next]_vars PROVE OneBatch'
  OBVIOUS
<1> USE FramesAssumption, LimitsAssumption
<1>0. TypeOK /\ now \in Nat
  BY DEF IInv, TypeOK
<1>1. ASSUME NEW c \in Calls, Insert(c) PROVE OneBatch'
  <2> DEFINE f == call[c].frame
  <2>1. /\ f \in Frames
        /\ \A g \in Frames : g # f => rows'[g] = rows[g]
        /\ WithinQuota(To[f], rows') /\ now' = now
    BY <1>0, <1>1, InsertFacts
  <2> SUFFICES ASSUME NEW u \in Urns PROVE Cardinality(Pending(u)') <= Batch
    BY DEF OneBatch
  <2>2. CASE u = To[f]
    <3>1. Pending(u)' = {g \in Frames : /\ To[g] = u /\ rows'[g] # None /\ ~rows'[g].read
                                        /\ now < rows'[g].expiry}
      BY <2>1 DEF Pending, Unread
    <3>2. Cardinality(Pending(u)') <= Quota
      BY <2>1, <2>2, <3>1 DEF WithinQuota
    <3>3. Cardinality(Pending(u)') \in Nat
      BY PendingFinite, FS_CardinalityType
    <3> QED
      BY <3>2, <3>3
  <2>3. CASE u # To[f]
    <3>1. Pending(u)' = Pending(u)
      BY <2>1, <2>3 DEF Pending, Unread
    <3> QED
      BY <3>1 DEF OneBatch
  <2> QED
    BY <2>2, <2>3
<1>2. ASSUME NEW fs, Delete(fs), now' = now PROVE OneBatch'
  <2>1. \A g \in Frames : rows'[g] # None => rows'[g] = rows[g]
    BY <1>2 DEF Delete
  <2> QED
    BY <1>2, <2>1, NothingNew DEF Pending, Unread
<1>3. CASE CleanExpired \/ CleanHistory \/ \E u \in Urns : PurgeQueue(u)
  BY <1>2, <1>3 DEF CleanExpired, CleanHistory, PurgeQueue
<1>4. ASSUME NEW u \in Urns, NEW fs \in SUBSET Frames, AckV2Frames(u, fs) PROVE OneBatch'
  <2>1. \A f \in Frames : Unread(f)' => Unread(f)
    BY <1>0, <1>4, AckFacts DEF Unread
  <2> QED
    BY <2>1, NothingNew DEF Pending
<1>5. CASE Tick
  <2>1. now' = now + 1 /\ rows' = rows
    BY <1>5 DEF Tick
  <2>2. \A f \in Frames : rows[f] # None => rows[f].expiry \in Nat
    BY DEF IInv, TypeOK, Row
  <2>3. \A f \in Frames : Unread(f)' => Unread(f)
    BY <1>0, <2>1, <2>2 DEF Unread
  <2> QED
    BY <2>3, NothingNew DEF Pending
<1>6. ASSUME UNCHANGED <<rows, now>> PROVE OneBatch'
  BY <1>6, NothingNew DEF Pending, Unread
<1> QED
  BY <1>1, <1>3, <1>4, <1>5, <1>6
     DEF Next, Post, Return, SetHistoryRetentionDays, Restart, vars

\* What is pending for a recipient fits one retrieve.
THEOREM OneRetrieve == Spec => []OneBatch
<1>1. Init => OneBatch
  <2> SUFFICES ASSUME Init, NEW u \in Urns PROVE Cardinality(Pending(u)) <= Batch
    BY DEF OneBatch
  <2>1. Pending(u) = {}
    BY DEF Init, Pending, Unread
  <2> QED
    BY <2>1, FS_EmptySet, LimitsAssumption
<1> QED
  BY <1>1, Invariant, OneBatchStep, PTL DEF Spec

-----------------------------------------------------------------------------
(* Retries and acknowledgements.                                           *)

LEMMA RetryStep ==
  IInv /\ [Next]_vars =>
    \A f \in Frames : rows[f] # None /\ rows'[f] # None =>
      /\ rows'[f].bytes = rows[f].bytes /\ rows'[f].expiry = rows[f].expiry
      /\ rows[f].read => rows'[f].read
<1> SUFFICES ASSUME IInv, [Next]_vars, NEW f \in Frames, rows[f] # None, rows'[f] # None
    PROVE  /\ rows'[f].bytes = rows[f].bytes /\ rows'[f].expiry = rows[f].expiry
           /\ rows[f].read => rows'[f].read
  OBVIOUS
<1>0. TypeOK
  BY DEF IInv
<1>1. ASSUME NEW c \in Calls, Insert(c) PROVE rows'[f] = rows[f]
  BY <1>0, <1>1, InsertFacts
<1>2. ASSUME NEW fs, Delete(fs) PROVE rows'[f] = rows[f]
  BY <1>2 DEF Delete
<1>3. ASSUME NEW u \in Urns, NEW fs \in SUBSET Frames, AckV2Frames(u, fs)
      PROVE  /\ rows'[f].bytes = rows[f].bytes /\ rows'[f].expiry = rows[f].expiry
             /\ rows[f].read => rows'[f].read
  BY <1>0, <1>3, AckFacts
<1>4. ASSUME UNCHANGED rows PROVE rows'[f] = rows[f]
  BY <1>4
<1> QED
  BY <1>1, <1>2, <1>3, <1>4
     DEF Next, CleanExpired, CleanHistory, PurgeQueue,
         Post, Return, SetHistoryRetentionDays, Restart, Tick, vars

\* INSERT OR IGNORE: while its row lives, a frame keeps the bytes and the
\* expiry it was first stored with, and stays read (v2_store.go:400-417).
THEOREM RetriesAreHarmless == Spec => RetryChangesNothing
BY Invariant, RetryStep, PTL DEF Spec, RetryChangesNothing

\* A row that was read is the one whose expiry is final.
Settled ==
  \A f \in Frames : rows[f] # None /\ rows[f].read => final[f] = rows[f].expiry

FinalInv == Settled /\ AckIsFinal /\ (kept => days # 0)

LEMMA DaysLast ==
  ASSUME NEW d \in Int, d >= 1, NEW x \in Nat
  PROVE  x <= d * x
OBVIOUS

LEMMA FinalStep == IInv /\ FinalInv /\ [Next]_vars => FinalInv'
<1> SUFFICES ASSUME IInv, FinalInv, [Next]_vars PROVE FinalInv'
  OBVIOUS
<1> USE FramesAssumption, LimitsAssumption, NoneAssumption DEF FinalInv
<1>0. /\ TypeOK /\ now \in Nat /\ days \in Int
      /\ \A f \in Frames : final[f] \in Nat /\ (rows[f] # None => rows[f] \in Row)
  BY DEF IInv, TypeOK
<1>1. ASSUME NEW c \in Calls, Insert(c) PROVE FinalInv'
  <2> DEFINE f == call[c].frame
  <2>1. /\ f \in Frames /\ rows[f] = None
        /\ \A g \in Frames : g # f => rows'[g] = rows[g]
        /\ rows'[f] = [bytes |-> call[c].bytes, expiry |-> call[c].expiry, at |-> now,
                       read |-> FALSE, readAt |-> 0]
        /\ UNCHANGED <<epoch, days, now, final, kept>>
    BY <1>0, <1>1, InsertFacts, Zenon
  <2>2. rows'[f].read = FALSE
    BY <2>1
  <2>3. Settled'
    BY <2>1, <2>2 DEF Settled
  <2>4. AckIsFinal'
    BY <2>1 DEF AckIsFinal
  <2> QED
    BY <2>1, <2>3, <2>4
<1>2. ASSUME NEW fs, Delete(fs), UNCHANGED <<now, days, kept>>,
             \A f \in Frames : final'[f] = final[f] \/ final'[f] = 0,
             \A f \in Frames : rows'[f] # None => final'[f] = final[f],
             kept => \A f \in Frames :
               rows'[f] = None /\ rows[f] # None /\ rows[f].read =>
                 rows[f].expiry <= now \/ final'[f] = 0
      PROVE  FinalInv'
  <2>1. \A f \in Frames : rows'[f] # None => rows'[f] = rows[f]
    BY <1>2 DEF Delete
  <2>2. Settled'
    BY <1>2, <2>1 DEF Settled
  <2>3. AckIsFinal'
    <3> SUFFICES ASSUME kept, NEW f \in Frames, now < final'[f]
        PROVE  rows'[f] # None /\ rows'[f].read
      BY <1>2 DEF AckIsFinal
    <3>1. final'[f] = final[f] /\ rows[f] # None /\ rows[f].read
      BY <1>0, <1>2 DEF AckIsFinal
    <3>2. final[f] = rows[f].expiry /\ rows[f].expiry \in Nat
      BY <1>0, <3>1 DEF Settled, Row
    <3> QED
      BY <1>0, <1>2, <2>1, <3>1, <3>2
  <2> QED
    BY <1>2, <2>2, <2>3
<1>3. CASE CleanExpired
  <2>1. \A f \in Frames : rows'[f] = None /\ rows[f] # None => rows[f].expiry <= now
    BY <1>3 DEF CleanExpired, Delete, Expired
  <2> QED
    BY <1>2, <1>3, <2>1 DEF CleanExpired
<1>4. CASE CleanHistory
  <2>1. ASSUME kept, NEW f \in Frames, rows'[f] = None, rows[f] # None
        PROVE  rows[f].expiry <= now
    <3>1. /\ rows[f].read /\ rows[f].readAt <= now - days * Day /\ days >= 0 /\ days # 0
      BY <1>4, <2>1 DEF CleanHistory, Delete, Past
    <3>2. Day <= days * Day /\ days * Day \in Int
      BY <1>0, <3>1, DaysLast
    <3>3. /\ rows[f].expiry <= rows[f].at + Day /\ rows[f].at <= rows[f].readAt
          /\ rows[f].expiry \in Nat /\ rows[f].at \in Nat /\ rows[f].readAt \in Nat
      BY <1>0, <2>1, <3>1 DEF IInv, TypeOK, Bounded, Row
    <3> DEFINE past == days * Day
    <3>4. past \in Int /\ Day <= past /\ rows[f].readAt <= now - past
      BY <3>1, <3>2
    <3> HIDE DEF past
    <3> QED
      BY <1>0, <3>3, <3>4
  <2> QED
    BY <1>2, <1>4, <2>1 DEF CleanHistory
<1>5. ASSUME NEW u \in Urns, PurgeQueue(u) PROVE FinalInv'
  <2>1. /\ \A f \in Frames : final'[f] = IF To[f] = u THEN 0 ELSE final[f]
        /\ \A f \in Frames : rows'[f] = IF To[f] = u THEN None ELSE rows[f]
    BY <1>5 DEF PurgeQueue, Delete
  <2> QED
    BY <1>2, <1>5, <2>1 DEF PurgeQueue
<1>6. ASSUME NEW u \in Urns, NEW fs \in SUBSET Frames, AckV2Frames(u, fs) PROVE FinalInv'
  <2>1. /\ \A f \in Frames : f \notin Acked(u, fs) => rows'[f] = rows[f] /\ final'[f] = final[f]
        /\ \A f \in Acked(u, fs) : /\ rows'[f] \in Row /\ rows'[f].read
                                   /\ rows'[f].expiry = rows[f].expiry
                                   /\ final'[f] = rows[f].expiry
        /\ UNCHANGED <<now, days, kept>>
    BY <1>0, <1>6, AckFacts
  <2>2. Settled'
    BY <2>1 DEF Settled
  <2>3. AckIsFinal'
    BY <2>1 DEF AckIsFinal
  <2> QED
    BY <2>1, <2>2, <2>3
<1>7. ASSUME NEW d \in HistoryDays, SetHistoryRetentionDays(d) PROVE FinalInv'
  BY <1>7 DEF SetHistoryRetentionDays, Settled, AckIsFinal
<1>8. CASE Tick
  <2>1. now' = now + 1 /\ UNCHANGED <<rows, days, final, kept>>
    BY <1>8 DEF Tick
  <2> QED
    BY <1>0, <2>1 DEF Settled, AckIsFinal
<1>9. ASSUME UNCHANGED <<rows, days, now, final, kept>> PROVE FinalInv'
  BY <1>9 DEF Settled, AckIsFinal
<1> QED
  BY <1>1, <1>3, <1>4, <1>5, <1>6, <1>7, <1>8, <1>9 DEF Next, Post, Return, Restart, vars

\* Until the expiry it was accepted under, an acknowledged frame is not
\* delivered again: its row outlives every retention of a day or more.
THEOREM AcksAreFinal == Spec => []AckIsFinal
<1>1. Init => FinalInv
  <2>1. Init => (kept => days # 0)
    BY Zenon DEF Init
  <2>2. Init => Settled /\ AckIsFinal
    BY DEF Init, Settled, AckIsFinal
  <2> QED
    BY <2>1, <2>2 DEF FinalInv
<1>2. FinalInv => AckIsFinal
  BY DEF FinalInv
<1> QED
  BY <1>1, <1>2, Invariant, FinalStep, PTL DEF Spec
=============================================================================
