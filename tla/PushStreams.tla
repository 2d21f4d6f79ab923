------------------------------ MODULE PushStreams ------------------------------
(***************************************************************************)
(* The push streams of the v1 mailbox.  handleSubscribe registers a        *)
(* channel under the recipient's URN and copies what arrives on it to the  *)
(* client as server-sent events; StoreEnvelope, after its transaction      *)
(* committed, offers the new envelope to every channel of the recipient    *)
(* without waiting for any.  What a stream misses the client has to find   *)
(* with a retrieve.                                                        *)
(*                                                                         *)
(* The tables and the certificates are as much of ManagedMailbox as the    *)
(* streams depend on: an envelope is named by its stamp (stored_at_ns,     *)
(* distinct per row), and a certificate by the number of its enrolment,    *)
(* which a renewal keeps, and by the first stamp in its validity.          *)
(* Time is counted in heartbeats, per stream.                              *)
(***************************************************************************)
EXTENDS Integers, Sequences, FiniteSets

CONSTANTS Urns, Ids, Streams, Stores,
          None,
          Strict,          \* the policy requires v2: managed traffic only
          Buffer,          \* make(chan, 4)
          MaxPerUrn,       \* maxSubscribersPerURN
          MaxTotal,        \* maxSubscribers
          Heartbeat,       \* period of the keepalive comment
          WriteTimeout,    \* http.Server.WriteTimeout, from the request's headers on
          MaxStamp, MaxEra, MaxAge    \* bounds of the model

ASSUME LimitsAssumption ==
  /\ Strict \in BOOLEAN
  /\ Buffer \in Nat /\ MaxPerUrn \in Nat /\ MaxTotal \in Nat
  /\ Heartbeat \in Nat /\ WriteTimeout \in Nat
  /\ MaxStamp \in Nat /\ MaxEra \in Nat /\ MaxAge \in Nat

VARIABLES
  subs,     \* s.subscribers: the streams registered under each URN
  count,    \* s.subscriberCount
  stream,   \* the handlers of handleSubscribe
  rows,     \* the table messages
  call,     \* StoreEnvelope calls from their commit on
  era,      \* how often the recipient was enrolled
  live,     \* the latest certificate is not revoked
  from,     \* its not_before, as the first stamp it admits
  last,     \* the latest stamp
  missed    \* history: what was not offered to a stream, or hidden from its client

vars == <<subs, count, stream, rows, call, era, live, from, last, missed>>

Stamps == 1..MaxStamp

Stream == [urn    : Urns,
           chan   : Seq(Stamps),      \* ch
           online : BOOLEAN,          \* the client has not gone away
           failed : BOOLEAN,          \* a write failed: the server cancelled the request
           age    : 0..MaxAge,        \* heartbeats since the headers were read
           taken  : SUBSET Stamps,    \* history: what was taken off ch
           known  : SUBSET Stamps,    \* history: what was retrieved
           fetched : BOOLEAN]         \* history: it has retrieved since it subscribed

Row == [urn : Urns, stamp : Stamps, era : 0..MaxEra, read : BOOLEAN]

Call == [urn : Urns, stamp : Stamps, era : 0..MaxEra,
         phase : {"committed", "sending"},
         todo : SUBSET Streams]       \* what is left of chansCopy

ASSUME NoneAssumption == None \notin Stream \cup Row \cup Call

Open(s)      == stream[s] # None
Queued(s)    == {stream[s].chan[i] : i \in 1..Len(stream[s].chan)}
Sending(c)   == call[c] # None /\ call[c].phase = "sending"

\* Variant: the writers of s.mu do not wait for a notification.
LockIgnored == TRUE

\* s.mu is held for reading from NotifyBegin to NotifyEnd.
Lockable == \A c \in Stores : ~Sending(c)

\* The row is of the enrolment that is valid now, through all its renewals.
Certified(u, e) == live[u] /\ era[u] = e

\* permits(), of a row of u that has stamp n.
Permits(u, e, n) == Certified(u, e) /\ n >= from[u]
Passes(u, e, n)  == ~Strict \/ Permits(u, e, n)

Init ==
  /\ subs = [u \in Urns |-> {}]
  /\ count = 0
  /\ stream = [s \in Streams |-> None]
  /\ rows = [i \in Ids |-> None]
  /\ call = [c \in Stores |-> None]
  /\ era = [u \in Urns |-> 0]
  /\ live = [u \in Urns |-> FALSE]
  /\ from = [u \in Urns |-> 1]
  /\ last = 0
  /\ missed = [s \in Streams |-> {}]

-----------------------------------------------------------------------------
(* Subscribing, under s.mu.Lock.                                           *)

\* Variant: off by one at the limit of a URN.
HasRoomForOneMore(u) == Cardinality(subs[u]) <= MaxPerUrn /\ count < MaxTotal

HasRoom(u) == Cardinality(subs[u]) < MaxPerUrn /\ count < MaxTotal

Register(s, u) ==
  /\ ~Open(s) /\ Lockable /\ HasRoom(u)
  /\ stream' = [stream EXCEPT ![s] =
       [urn |-> u, chan |-> <<>>, online |-> TRUE, failed |-> FALSE, age |-> 0,
        taken |-> {}, known |-> {}, fetched |-> FALSE]]
  /\ subs' = [subs EXCEPT ![u] = @ \cup {s}]
  /\ count' = count + 1
  /\ UNCHANGED <<rows, call, era, live, from, last, missed>>

\* r.Context().Done(), or the error of a write.
Over(s) == ~stream[s].online \/ stream[s].failed

\* The handler returns; UnregisterSubscriber is deferred.
Leave(s) ==
  /\ Open(s) /\ Over(s) /\ Lockable
  /\ subs' = [subs EXCEPT ![stream[s].urn] = @ \ {s}]
  /\ count' = count - 1
  /\ stream' = [stream EXCEPT ![s] = None]
  /\ missed' = [missed EXCEPT ![s] = {}]
  /\ UNCHANGED <<rows, call, era, live, from, last>>

-----------------------------------------------------------------------------
(* The loop of a stream.                                                   *)

\* The connection takes bytes until the write deadline, which no handler moves.
Writes(s) == stream[s].online /\ stream[s].age < WriteTimeout

Push(s) ==
  /\ Open(s) /\ stream[s].chan # <<>>
  /\ LET n == Head(stream[s].chan) IN
     stream' = [stream EXCEPT
       ![s].chan = Tail(@),
       ![s].taken = @ \cup {n},
       ![s].failed = @ \/ ~Writes(s)]
  /\ UNCHANGED <<subs, count, rows, call, era, live, from, last, missed>>

Ping(s) ==
  /\ Open(s) /\ stream[s].age >= Heartbeat
  /\ stream' = [stream EXCEPT ![s].failed = @ \/ ~Writes(s)]
  /\ UNCHANGED <<subs, count, rows, call, era, live, from, last, missed>>

Age(s) ==
  /\ Open(s) /\ stream[s].age < MaxAge
  /\ stream' = [stream EXCEPT ![s].age = @ + 1]
  /\ UNCHANGED <<subs, count, rows, call, era, live, from, last, missed>>

Disconnect(s) ==
  /\ Open(s)
  /\ stream' = [stream EXCEPT ![s].online = FALSE]
  /\ UNCHANGED <<subs, count, rows, call, era, live, from, last, missed>>

-----------------------------------------------------------------------------
(* Storing and telling the subscribers.                                    *)

\* Variant: a retry of a stored message notifies again.
AnnouncesRetries(new) == TRUE

Announces(new) == new

\* The transaction of StoreEnvelope, up to its commit, for a new ID or a retry.
Store(c, i, u) ==
  /\ call[c] = None
  /\ Strict => live[u]
  /\ LET new == rows[i] = None IN
     /\ IF new THEN last < MaxStamp ELSE rows[i].urn = u
     /\ last' = IF new THEN last + 1 ELSE last
     /\ rows' = IF new
                THEN [rows EXCEPT ![i] = [urn |-> u, stamp |-> last + 1,
                                          era |-> era[u], read |-> FALSE]]
                ELSE rows
     /\ call' = IF Announces(new)
                THEN [call EXCEPT ![c] = [urn |-> u, stamp |-> rows'[i].stamp,
                                          era |-> rows'[i].era,
                                          phase |-> "committed", todo |-> {}]]
                ELSE call
  /\ UNCHANGED <<subs, count, stream, era, live, from, missed>>

\* RLock; the certificates are looked up and the list is copied under it.
NotifyBegin(c) ==
  /\ call[c] # None /\ call[c].phase = "committed"
  /\ Passes(call[c].urn, call[c].era, call[c].stamp)
  /\ call' = [call EXCEPT ![c].phase = "sending", ![c].todo = subs[call[c].urn]]
  /\ UNCHANGED <<subs, count, stream, rows, era, live, from, last, missed>>

\* What the streams of S have missed when n is not offered to them.
Missing(S, n) == [s \in Streams |-> IF s \in S THEN missed[s] \cup {n} ELSE missed[s]]

\* The return before the list is copied: the row stays and nobody is told.
GiveUp(c) ==
  /\ call[c] # None /\ call[c].phase = "committed"
  /\ missed' = Missing(subs[call[c].urn], call[c].stamp)
  /\ call' = [call EXCEPT ![c] = None]
  /\ UNCHANGED <<subs, count, stream, rows, era, live, from, last>>

\* Revoked meanwhile, or renewed with a later beginning.
NotifyRefused(c) == GiveUp(c) /\ ~Passes(call[c].urn, call[c].era, call[c].stamp)

\* senderErr or recipientErr: a certificate could not be looked up.
NotifyFailed(c) == GiveUp(c) /\ Strict

\* Variant: a full channel ends the loop over the subscribers.
AfterFullReturn(todo, s) == {}

AfterFull(todo, s) == todo \ {s}

\* Variant: room for one more than the channel was made for.
FitsOneMore(s) == Len(stream[s].chan) <= Buffer

Fits(s) == Len(stream[s].chan) < Buffer

\* select { case ch <- env: default: }
NotifySend(c) ==
  /\ Sending(c)
  /\ \E s \in call[c].todo :
       IF Fits(s)
       THEN /\ stream' = [stream EXCEPT ![s].chan = Append(@, call[c].stamp)]
            /\ call' = [call EXCEPT ![c].todo = @ \ {s}]
            /\ UNCHANGED missed
       ELSE /\ missed' = Missing({s}, call[c].stamp)
            /\ call' = [call EXCEPT ![c].todo = AfterFull(@, s)]
            /\ UNCHANGED stream
  /\ UNCHANGED <<subs, count, rows, era, live, from, last>>

NotifyEnd(c) ==
  /\ Sending(c) /\ call[c].todo = {}
  /\ call' = [call EXCEPT ![c] = None]
  /\ UNCHANGED <<subs, count, stream, rows, era, live, from, last, missed>>

-----------------------------------------------------------------------------
(* What else happens to the rows and the certificates.                     *)

\* The unread rows of u that its certificate covers, now or when it is renewed.
Waiting(u) == {i \in Ids : /\ rows[i] # None /\ rows[i].urn = u /\ ~rows[i].read
                           /\ ~Strict \/ Certified(u, rows[i].era)}

\* The rows RetrieveEntry answers with.
Pending(u) == {i \in Waiting(u) : Passes(u, rows[i].era, rows[i].stamp)}

\* The client of a stream retrieves, and a lookup that fails gives it nothing.
\* One time is enough for NoGap, which only gets weaker with every further one.
Retrieve(s) ==
  /\ Open(s) /\ stream[s].online /\ ~stream[s].fetched
  /\ LET u == stream[s].urn
         Names(I) == {rows[i].stamp : i \in I}
     IN  /\ stream' = [stream EXCEPT ![s].known = @ \cup Names(Pending(u)),
                                     ![s].fetched = TRUE]
         /\ missed' = [missed EXCEPT ![s] = @ \cup Names(Waiting(u) \ Pending(u))]
  /\ UNCHANGED <<subs, count, rows, call, era, live, from, last>>

Ack(u, i) ==
  /\ i \in Pending(u)
  /\ rows' = [rows EXCEPT ![i].read = TRUE]
  /\ UNCHANGED <<subs, count, stream, call, era, live, from, last, missed>>

\* DeleteMessage, and cleanup of an expired or old row.
Remove(i) ==
  /\ rows[i] # None
  /\ rows' = [rows EXCEPT ![i] = None]
  /\ UNCHANGED <<subs, count, stream, call, era, live, from, last, missed>>

\* A first enrolment or one after a revocation: later than every row.
EnrollManaged(u) ==
  /\ ~live[u] /\ era[u] < MaxEra
  /\ era' = [era EXCEPT ![u] = @ + 1]
  /\ live' = [live EXCEPT ![u] = TRUE]
  /\ from' = [from EXCEPT ![u] = last + 1]
  /\ UNCHANGED <<subs, count, stream, rows, call, last, missed>>

\* A renewal keeps the time of the enrolment and brings a not_before of its
\* own.  It takes no lock that a notification holds.
RenewManaged(u) ==
  /\ live[u]
  /\ \E n \in 1..(last + 1) : from' = [from EXCEPT ![u] = n]
  /\ UNCHANGED <<subs, count, stream, rows, call, era, live, last, missed>>

\* Under s.mu.Lock.
RevokeManaged(u) ==
  /\ live[u] /\ Lockable
  /\ live' = [live EXCEPT ![u] = FALSE]
  /\ UNCHANGED <<subs, count, stream, rows, call, era, from, last, missed>>

\* The process dies: the table and the certificates survive.
Crash ==
  /\ subs' = [u \in Urns |-> {}] /\ count' = 0
  /\ stream' = [s \in Streams |-> None]
  /\ call' = [c \in Stores |-> None]
  /\ missed' = [s \in Streams |-> {}]
  /\ UNCHANGED <<rows, era, live, from, last>>

Loop(s)   == Push(s) \/ Ping(s) \/ Age(s) \/ Disconnect(s) \/ Leave(s) \/ Retrieve(s)
Notify(c) ==
  \/ NotifyBegin(c) \/ NotifyRefused(c) \/ NotifyFailed(c)
  \/ NotifySend(c) \/ NotifyEnd(c)

Next ==
  \/ \E s \in Streams : Loop(s) \/ \E u \in Urns : Register(s, u)
  \/ \E c \in Stores : Notify(c) \/ \E i \in Ids, u \in Urns : Store(c, i, u)
  \/ \E i \in Ids : Remove(i) \/ \E u \in Urns : Ack(u, i)
  \/ \E u \in Urns : EnrollManaged(u) \/ RenewManaged(u) \/ RevokeManaged(u)
  \/ Crash

Spec == Init /\ [][Next]_vars

-----------------------------------------------------------------------------
(* Properties.                                                             *)

\* Every variable has its type, and no channel more than it was made for.
TypeOK ==
  /\ subs \in [Urns -> SUBSET Streams]
  /\ count \in Int
  /\ stream \in [Streams -> Stream \cup {None}]
  /\ \A s \in Streams : Open(s) => Len(stream[s].chan) <= Buffer
  /\ rows \in [Ids -> Row \cup {None}]
  /\ call \in [Stores -> Call \cup {None}]
  /\ era \in [Urns -> 0..MaxEra]
  /\ live \in [Urns -> BOOLEAN]
  /\ from \in [Urns -> 1..(MaxStamp + 1)]
  /\ last \in 0..MaxStamp
  /\ missed \in [Streams -> SUBSET Stamps]

\* The lists, the counter and the handlers tell of the same streams, and
\* both limits hold, over refused registrations, broken streams and crashes
\* (store.go:287-289, :303-311).
SlotsAgree ==
  /\ \A u \in Urns : subs[u] = {s \in Streams : Open(s) /\ stream[s].urn = u}
  /\ count = Cardinality({s \in Streams : Open(s)})
  /\ \A u \in Urns : Cardinality(subs[u]) <= MaxPerUrn
  /\ count <= MaxTotal

\* A stream is offered a stored message once, however often the sender
\* retries and whatever became of the row in between (store.go:196, :249).
PushedOnce ==
  \A s \in Streams : Open(s) =>
    /\ \A i, j \in 1..Len(stream[s].chan) :
         stream[s].chan[i] = stream[s].chan[j] => i = j
    /\ Queued(s) \cap stream[s].taken = {}

\* Once RevokeManaged has returned nothing more is put on a channel under
\* the revoked certificate: it waits for the notifications that looked the
\* certificate up before (v2_store.go:548, store.go:319).
NoPushAfterRevocation ==
  \A c \in Stores : Sending(c) /\ Strict => Certified(call[c].urn, call[c].era)

\* A committed notification that has not come to the stream yet.
InFlight(s, n) ==
  \E c \in Stores : /\ call[c] # None /\ call[c].stamp = n
                    /\ call[c].phase = "sending" => s \in call[c].todo

\* A client that subscribes and then retrieves has no gap that it cannot know
\* of: every message that it may see, now or after a renewal, was retrieved or
\* taken to be sent, is on its channel or on its way there, or was missed, and
\* that only because the channel was full, a lookup failed (store.go:325), or
\* a renewed certificate hid it when it was offered or retrieved.
NoGap ==
  \A s \in Streams : Open(s) /\ stream[s].fetched =>
    \A i \in Waiting(stream[s].urn) :
      \/ rows[i].stamp \in stream[s].taken \cup stream[s].known \cup missed[s]
      \/ rows[i].stamp \in Queued(s)
      \/ InFlight(s, rows[i].stamp)

\* "Comment frames open the stream and keep it alive": the server does not
\* end the stream of a client that is still there.
KeptAlive == \A s \in Streams : Open(s) /\ stream[s].online => ~stream[s].failed
=============================================================================
