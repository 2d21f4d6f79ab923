---------------------------- MODULE HandshakeFrames ----------------------------
(***************************************************************************)
(* The handshake frames of v2 (table v2_handshake_frames, v2_store.go and  *)
(* the handlers of v2_http.go): a bounded mailbox of signed Init, Accept   *)
(* and Finished frames.  A frame is admitted under the policy it was       *)
(* signed for; it is read and acknowledged without a look at any policy.   *)
(*                                                                         *)
(* A frame's ID is its hash, which fixes its recipient, its policy and the *)
(* deadline in its payload; the bytes that were posted are told apart, as  *)
(* the table does.  A store is two steps, since time passes and other      *)
(* calls run between the handler's checks and the transaction.  The        *)
(* statements of a cleanup are steps of their own.  Signatures have been   *)
(* verified (external).                                                    *)
(***************************************************************************)
EXTENDS Integers, FiniteSets

CONSTANTS
  Frames, Urns, Posted, Calls, None,
  To,              \* recipient_urn of a frame
  Under,           \* epoch of the policy a frame is bound to
  Deadline,        \* payload.Expiry of Init and Accept; for Finished no bound
  PolicyExpiry,    \* expires_at of the policy of each epoch
  Quota,           \* `pending > 100`
  Batch,           \* `LIMIT 100`
  Day,             \* 24 hours
  HistoryDays,     \* mq retention settings the administrator chooses from
  MaxEpoch, MaxTime    \* bounds of the model

Epochs == 1..MaxEpoch

ASSUME FramesAssumption ==
  /\ To \in [Frames -> Urns]
  /\ Under \in [Frames -> Epochs]
  /\ Deadline \in [Frames -> Nat]
  /\ PolicyExpiry \in [Epochs -> Nat]
  /\ IsFiniteSet(Frames)

ASSUME LimitsAssumption ==
  /\ Quota \in Nat /\ Batch \in Nat /\ Quota <= Batch
  /\ Day \in Nat /\ HistoryDays \subseteq Int
  /\ MaxEpoch \in Nat \ {0} /\ MaxTime \in Nat

VARIABLES
  rows,       \* v2_handshake_frames
  call,       \* stores between the handler's checks and the transaction
  epoch,      \* of the policy the platform runs under
  days,       \* historyRetentionDays
  now,
  final,      \* history: the expiry under which a frame was acknowledged
  kept        \* history: the retention was never 0 days

vars == <<rows, call, epoch, days, now, final, kept>>

Row  == [bytes : Posted, expiry : Nat, at : Nat, read : BOOLEAN, readAt : Nat]
Call == [frame : Frames, bytes : Posted, expiry : Nat]

ASSUME NoneAssumption == None \notin Row \cup Call

Current == now < PolicyExpiry[epoch]

\* WHERE read_at=0 AND expiry>now
Unread(f)  == rows[f] # None /\ ~rows[f].read /\ now < rows[f].expiry
Pending(u) == {f \in Frames : To[f] = u /\ Unread(f)}

Init ==
  /\ rows = [f \in Frames |-> None]
  /\ call = [c \in Calls |-> None]
  /\ epoch = 1 /\ now = 0
  /\ days \in HistoryDays
  /\ final = [f \in Frames |-> 0]
  /\ kept = (days # 0)

-----------------------------------------------------------------------------
(* Storing.                                                                *)

Earlier(a, b) == IF a <= b THEN a ELSE b

\* Variants: the handler forgets that the policy ends; or the bound of a day.
ExpiryOfPayload(f) == Earlier(now + Day, Deadline[f])

ExpiryOfPolicy(f) == Earlier(PolicyExpiry[epoch], Deadline[f])

Expiry(f) == Earlier(now + Day, Earlier(PolicyExpiry[epoch], Deadline[f]))

\* The handler, and StoreV2Frame up to BeginTx.
Post(c, f, b) ==
  /\ call[c] = None
  /\ Current /\ Under[f] = epoch
  /\ now < Expiry(f)
  /\ call' = [call EXCEPT ![c] = [frame |-> f, bytes |-> b, expiry |-> Expiry(f)]]
  /\ UNCHANGED <<rows, epoch, days, now, final, kept>>

\* Variant: INSERT OR REPLACE.
FreeOrReplaced(f) == TRUE

\* INSERT OR IGNORE
Free(f) == rows[f] = None

\* Variant: the pending frames are counted before the insertion.
OthersWithinQuota(u, table) ==
  Cardinality({f \in Frames : To[f] = u /\ Unread(f)}) <= Quota

\* The rows that count when the new one is in the table.
WithinQuota(u, table) ==
  Cardinality({f \in Frames : /\ To[f] = u /\ table[f] # None /\ ~table[f].read
                              /\ now < table[f].expiry}) <= Quota

\* The transaction commits a new row.
Insert(c) ==
  /\ call[c] # None
  /\ Current
  /\ LET f == call[c].frame IN
     /\ Free(f)
     /\ rows' = [rows EXCEPT ![f] =
          [bytes |-> call[c].bytes, expiry |-> call[c].expiry, at |-> now,
           read |-> FALSE, readAt |-> 0]]
     /\ WithinQuota(To[f], rows')
  /\ call' = [call EXCEPT ![c] = None]
  /\ UNCHANGED <<epoch, days, now, final, kept>>

\* Every other outcome rolls back: a retry of what is stored, a conflict, a
\* full queue, a policy that has ended, a failing statement.
Return(c) ==
  /\ call[c] # None
  /\ call' = [call EXCEPT ![c] = None]
  /\ UNCHANGED <<rows, epoch, days, now, final, kept>>

-----------------------------------------------------------------------------
(* Reading changes nothing; a recipient acknowledges any of its frames.    *)

Acked(u, fs) == fs \cap Pending(u)

AckV2Frames(u, fs) ==
  /\ Acked(u, fs) # {}
  /\ rows' = [f \in Frames |->
       IF f \in Acked(u, fs) THEN [rows[f] EXCEPT !.read = TRUE, !.readAt = now]
                             ELSE rows[f]]
  /\ final' = [f \in Frames |-> IF f \in Acked(u, fs) THEN rows[f].expiry ELSE final[f]]
  /\ UNCHANGED <<call, epoch, days, now, kept>>

-----------------------------------------------------------------------------
(* Cleanup and the administrator.                                          *)

Delete(fs) == rows' = [f \in Frames |-> IF f \in fs THEN None ELSE rows[f]]

Expired == {f \in Frames : rows[f] # None /\ rows[f].expiry <= now}

CleanExpired ==
  /\ Delete(Expired)
  /\ UNCHANGED <<call, epoch, days, now, final, kept>>

\* Variant: read rows are dropped on the day they were read.
PastOnTheDay == {f \in Frames : /\ rows[f] # None /\ rows[f].read
                                /\ rows[f].readAt <= now - (days - 1) * Day}

Past == {f \in Frames : /\ rows[f] # None /\ rows[f].read
                        /\ rows[f].readAt <= now - days * Day}

CleanHistory ==
  /\ days >= 0
  /\ Delete(Past)
  /\ UNCHANGED <<call, epoch, days, now, final, kept>>

SetHistoryRetentionDays(d) ==
  /\ days' = d
  /\ kept' = (kept /\ d # 0)
  /\ UNCHANGED <<rows, call, epoch, now, final>>

\* What is purged may be sent again.
PurgeQueue(u) ==
  /\ Delete({f \in Frames : To[f] = u})
  /\ final' = [f \in Frames |-> IF To[f] = u THEN 0 ELSE final[f]]
  /\ UNCHANGED <<call, epoch, days, now, kept>>

\* The process ends, at any point, and starts under the same or a newer policy.
Restart(e) ==
  /\ e >= epoch /\ now < PolicyExpiry[e]
  /\ epoch' = e
  /\ call' = [c \in Calls |-> None]
  /\ UNCHANGED <<rows, days, now, final, kept>>

Tick ==
  /\ now < MaxTime
  /\ now' = now + 1
  /\ UNCHANGED <<rows, call, epoch, days, final, kept>>

Next ==
  \/ \E c \in Calls :
       Insert(c) \/ Return(c) \/ \E f \in Frames, b \in Posted : Post(c, f, b)
  \/ \E u \in Urns : PurgeQueue(u) \/ \E fs \in SUBSET Frames : AckV2Frames(u, fs)
  \/ CleanExpired \/ CleanHistory
  \/ \E d \in HistoryDays : SetHistoryRetentionDays(d)
  \/ \E e \in Epochs : Restart(e)
  \/ Tick

Spec == Init /\ [][Next]_vars

-----------------------------------------------------------------------------
(* Properties.                                                             *)

\* The types; no row is made to live longer than a day.
TypeOK ==
  /\ rows \in [Frames -> Row \cup {None}]
  /\ \A f \in Frames : rows[f] # None => rows[f].expiry <= rows[f].at + Day
  /\ call \in [Calls -> Call \cup {None}]
  /\ epoch \in Epochs /\ days \in HistoryDays
  /\ now \in 0..MaxTime
  /\ final \in [Frames -> Nat]
  /\ kept \in BOOLEAN

\* One retrieve returns all that is pending, whatever stores raced for the
\* last place and however rows expired and were purged (v2_store.go:420-426,
\* :438): nothing waits behind frames nobody acknowledges.
OneBatch == \A u \in Urns : Cardinality(Pending(u)) <= Batch

\* Frames are read without a look at the policy: their row's expiry has to
\* keep a frame from outliving the policy and the payload that admitted it,
\* also when a newer policy is installed (v2_store.go:438, v2_http.go:138-160).
NoneOutlivesItsPolicy ==
  \A f \in Frames : Unread(f) => now < PolicyExpiry[Under[f]] /\ now < Deadline[f]

\* "A frame retry cannot replace bytes under the same ID", nor lengthen the
\* life of the row, nor make a frame unread that was acknowledged.
RetryChangesNothing ==
  [][\A f \in Frames : rows[f] # None /\ rows'[f] # None =>
       /\ rows'[f].bytes = rows[f].bytes /\ rows'[f].expiry = rows[f].expiry
       /\ rows[f].read => rows'[f].read]_vars

\* A frame that was acknowledged is not delivered again before the expiry it
\* was accepted under, over retries, cleanups and restarts, unless the queue
\* is purged or the retention of 0 days is chosen.
AckIsFinal ==
  kept => \A f \in Frames : now < final[f] => rows[f] # None /\ rows[f].read
=============================================================================
