--------------------------- MODULE PushStreamsProofs ---------------------------
(***************************************************************************)
(* The safety properties of PushStreams, for any recipients, streams,      *)
(* calls and limits.                                                       *)
(***************************************************************************)
EXTENDS PushStreams, FiniteSetTheorems, TLAPS

OpenStreams == {s \in Streams : Open(s)}

-----------------------------------------------------------------------------
(* Channels.                                                               *)

LEMMA AppendFacts ==
  ASSUME NEW q \in Seq(Stamps), NEW n \in Stamps
  PROVE  /\ Append(q, n) \in Seq(Stamps)
         /\ Len(Append(q, n)) = Len(q) + 1
         /\ \A i \in 1..Len(q) : Append(q, n)[i] = q[i]
         /\ Append(q, n)[Len(q) + 1] = n
OBVIOUS

LEMMA TailFacts ==
  ASSUME NEW q \in Seq(Stamps), q # <<>>
  PROVE  /\ Head(q) \in Stamps /\ Head(q) = q[1]
         /\ Tail(q) \in Seq(Stamps)
         /\ Len(q) > 0 /\ Len(Tail(q)) = Len(q) - 1
         /\ \A i \in 1..Len(Tail(q)) : i + 1 \in 1..Len(q) /\ Tail(q)[i] = q[i + 1]
         /\ \A i \in 1..Len(q) : i = 1 \/ (i - 1 \in 1..Len(Tail(q)) /\ q[i] = Tail(q)[i - 1])
OBVIOUS

-----------------------------------------------------------------------------
(* The steps of a stream that leave everything but its record alone.       *)

Within(s) == Push(s) \/ Ping(s) \/ Age(s) \/ Disconnect(s) \/ Retrieve(s)

\* The steps in which no stream leaves.
Remembers ==
  /\ missed' \in [Streams -> SUBSET Stamps]
  /\ \A s \in Streams : missed[s] \subseteq missed'[s]

\* What the stream was offered and, so far, did not lose.
Offered(s) == Queued(s) \cup stream[s].taken

\* The body of PushedOnce.
Distinct(s) ==
  /\ \A i, j \in 1..Len(stream[s].chan) :
       stream[s].chan[i] = stream[s].chan[j] => i = j
  /\ Queued(s) \cap stream[s].taken = {}

LEMMA WithinFacts ==
  ASSUME TypeOK, NEW s \in Streams, Within(s)
  PROVE  /\ UNCHANGED <<subs, count, rows, call, era, live, from, last>>
         /\ Open(s)
         /\ stream' = [stream EXCEPT ![s] = stream'[s]]
         /\ stream'[s] \in Stream
         /\ stream'[s].urn = stream[s].urn
         /\ Len(stream'[s].chan) <= Len(stream[s].chan)
         /\ stream[s].known \subseteq stream'[s].known
         /\ \/ stream'[s].fetched = stream[s].fetched
            \/ \A i \in Waiting(stream[s].urn) :
                 rows[i].stamp \in stream'[s].known \cup missed'[s]
         /\ Remembers
         /\ Offered(s)' = Offered(s)
         /\ Distinct(s) => Distinct(s)'
<1> USE NoneAssumption DEF TypeOK, Open
<1>0. stream[s] \in Stream
  BY DEF Within, Push, Ping, Age, Disconnect, Retrieve
<1>1. stream[s] \in Stream /\ Len(stream[s].chan) \in Nat
  BY <1>0 DEF Stream
<1>10. missed' = missed => Remembers
  BY DEF Remembers
<1>2. CASE Push(s)
  <2> DEFINE q == stream[s].chan
  <2>1. q \in Seq(Stamps) /\ q # <<>>
    BY <1>1, <1>2 DEF Push, Stream
  <2>2. /\ Tail(q) \in Seq(Stamps) /\ Head(q) \in Stamps
        /\ Len(Tail(q)) <= Len(q)
    BY <1>1, <2>1, TailFacts
  <2>3. stream' = [stream EXCEPT ![s] = [stream[s] EXCEPT
          !.chan = Tail(q), !.taken = @ \cup {Head(q)}, !.failed = @ \/ ~Writes(s)]]
    BY <1>2, Zenon DEF Push
  <2>4. stream'[s] = [stream[s] EXCEPT
          !.chan = Tail(q), !.taken = @ \cup {Head(q)}, !.failed = @ \/ ~Writes(s)]
    BY <2>3
  <2>5. (stream[s].failed \/ ~Writes(s)) \in BOOLEAN
    OBVIOUS
  <2>6. /\ stream'[s].urn = stream[s].urn
        /\ stream'[s].chan = Tail(q)
        /\ stream'[s].taken = stream[s].taken \cup {Head(q)}
        /\ stream'[s].known = stream[s].known
        /\ stream'[s].fetched = stream[s].fetched
    BY <1>0, <2>4, Zenon DEF Stream
  <2>7. stream'[s] \in Stream
    <3> DEFINE f == stream[s].failed \/ ~Writes(s)
               r == stream[s]
    <3>1. f \in BOOLEAN /\ r \in Stream
      BY <1>0, <2>5
    <3>2. stream'[s] = [r EXCEPT !.chan = Tail(q), !.taken = @ \cup {Head(q)}, !.failed = f]
      BY <2>4
    <3> HIDE DEF f, r, q
    <3>3. r.taken \cup {Head(q)} \in SUBSET Stamps
      BY <2>2, <3>1 DEF Stream
    <3> QED
      BY <2>2, <3>1, <3>2, <3>3 DEF Stream
  <2>8. Queued(s) = Queued(s)' \cup {Head(q)}
    <3>1. Queued(s) = {q[i] : i \in 1..Len(q)}
      BY DEF Queued
    <3>2. Queued(s)' = {Tail(q)[i] : i \in 1..Len(Tail(q))}
      BY <2>6 DEF Queued
    <3>3. \A i \in 1..Len(Tail(q)) : Tail(q)[i] \in Queued(s)
      BY <2>1, <3>1, TailFacts
    <3>4. \A i \in 1..Len(q) : q[i] \in Queued(s)' \cup {Head(q)}
      <4>1. TAKE i \in 1..Len(q)
      <4>2. CASE i = 1
        BY <2>1, <4>2, TailFacts
      <4>3. CASE i # 1
        <5>1. i - 1 \in 1..Len(Tail(q)) /\ q[i] = Tail(q)[i - 1]
          BY <2>1, <4>3, TailFacts
        <5> QED
          BY <3>2, <5>1
      <4> QED
        BY <4>2, <4>3
    <3>5. Head(q) \in Queued(s)
      <4>1. 1 \in 1..Len(q) /\ Head(q) = q[1]
        BY <2>1, TailFacts
      <4> QED
        BY <3>1, <4>1
    <3>6. Queued(s) \subseteq Queued(s)' \cup {Head(q)}
      BY <3>1, <3>4, Zenon
    <3>7. Queued(s)' \subseteq Queued(s)
      BY <3>2, <3>3, Zenon
    <3> QED
      BY <3>5, <3>6, <3>7, Zenon
  <2>9. Distinct(s) => Distinct(s)'
    <3>1. HAVE Distinct(s)
    <3>2. \A i \in 1..Len(Tail(q)) : Tail(q)[i] # Head(q)
      <4>1. TAKE i \in 1..Len(Tail(q))
      <4>2. i + 1 \in 1..Len(q) /\ 1 \in 1..Len(q) /\ i + 1 # 1
        BY <2>1, TailFacts
      <4> QED
        BY <2>1, <3>1, <4>2, TailFacts DEF Distinct
    <3>3. \A i, j \in 1..Len(Tail(q)) : Tail(q)[i] = Tail(q)[j] => i = j
      <4>1. TAKE i, j \in 1..Len(Tail(q))
      <4>2. i + 1 \in 1..Len(q) /\ j + 1 \in 1..Len(q)
        BY <2>1, TailFacts
      <4>3. Tail(q)[i] = q[i + 1] /\ Tail(q)[j] = q[j + 1]
        BY <2>1, TailFacts
      <4> QED
        BY <3>1, <4>2, <4>3 DEF Distinct
    <3>4. Head(q) \notin Queued(s)'
      BY <2>6, <3>2 DEF Queued
    <3>5. Queued(s)' \cap stream'[s].taken = {}
      BY <2>6, <2>8, <3>1, <3>4 DEF Distinct
    <3> QED
      BY <2>6, <3>3, <3>5 DEF Distinct
  <2>10. Offered(s)' = Offered(s)
    BY <2>6, <2>8 DEF Offered
  <2>11. /\ UNCHANGED <<subs, count, rows, call, era, live, from, last>> /\ Open(s)
         /\ missed' = missed
    BY <1>2 DEF Push
  <2>13. Remembers
    BY <1>10, <2>11
  <2>12. stream' = [stream EXCEPT ![s] = stream'[s]]
    BY <2>3, <2>4, Zenon
  <2> QED
    BY <2>2, <2>6, <2>7, <2>9, <2>10, <2>11, <2>12, <2>13, Zenon
<1>3. ASSUME Ping(s) \/ Age(s) \/ Disconnect(s) \/ Retrieve(s),
             stream'[s].chan = stream[s].chan, stream'[s].taken = stream[s].taken
      PROVE  Offered(s)' = Offered(s) /\ (Distinct(s) => Distinct(s)')
  BY <1>3 DEF Offered, Queued, Distinct
<1>4. CASE Ping(s)
  <2>1. stream' = [stream EXCEPT ![s] = [stream[s] EXCEPT !.failed = @ \/ ~Writes(s)]]
    BY <1>4, Zenon DEF Ping
  <2>2. stream'[s] = [stream[s] EXCEPT !.failed = @ \/ ~Writes(s)]
    BY <2>1
  <2>3. /\ stream'[s] \in Stream /\ stream'[s].urn = stream[s].urn
        /\ stream'[s].chan = stream[s].chan /\ stream'[s].taken = stream[s].taken
        /\ stream'[s].known = stream[s].known /\ stream'[s].fetched = stream[s].fetched
    BY <1>0, <2>2, Zenon DEF Stream
  <2>4. stream' = [stream EXCEPT ![s] = stream'[s]]
    BY <2>1, <2>2, Zenon
  <2> QED
    BY <1>1, <1>3, <1>4, <1>10, <2>3, <2>4 DEF Ping
<1>5. CASE Age(s)
  <2>1. stream'[s] = [stream[s] EXCEPT !.age = @ + 1]
    BY <1>5 DEF Age
  <2>2. stream[s].age + 1 \in 0..MaxAge
    BY <1>0, <1>5, LimitsAssumption DEF Age, Stream
  <2>3. /\ stream'[s] \in Stream /\ stream'[s].urn = stream[s].urn
        /\ stream'[s].chan = stream[s].chan /\ stream'[s].taken = stream[s].taken
        /\ stream'[s].known = stream[s].known /\ stream'[s].fetched = stream[s].fetched
    BY <1>0, <2>1, <2>2 DEF Stream
  <2>4. stream' = [stream EXCEPT ![s] = stream'[s]]
    BY <1>5, <2>1, Zenon DEF Age
  <2> QED
    BY <1>1, <1>3, <1>5, <1>10, <2>3, <2>4 DEF Age
<1>6. CASE Disconnect(s)
  <2>1. stream'[s] = [stream[s] EXCEPT !.online = FALSE]
    BY <1>6 DEF Disconnect
  <2>2. /\ stream'[s] \in Stream /\ stream'[s].urn = stream[s].urn
        /\ stream'[s].chan = stream[s].chan /\ stream'[s].taken = stream[s].taken
        /\ stream'[s].known = stream[s].known /\ stream'[s].fetched = stream[s].fetched
    BY <1>0, <2>1 DEF Stream
  <2>3. stream' = [stream EXCEPT ![s] = stream'[s]]
    BY <1>6, <2>1, Zenon DEF Disconnect
  <2> QED
    BY <1>1, <1>3, <1>6, <1>10, <2>2, <2>3 DEF Disconnect
<1>7. CASE Retrieve(s)
  <2> DEFINE u == stream[s].urn
             got == {rows[i].stamp : i \in Pending(u)}
             hid == {rows[i].stamp : i \in Waiting(u) \ Pending(u)}
  <2>1. got \in SUBSET Stamps /\ hid \in SUBSET Stamps
    BY DEF Pending, Waiting, Row
  <2>2. /\ stream'[s] = [stream[s] EXCEPT !.known = @ \cup got, !.fetched = TRUE]
        /\ missed' = [missed EXCEPT ![s] = @ \cup hid]
    BY <1>7 DEF Retrieve
  <2>3. /\ stream'[s] \in Stream /\ stream'[s].urn = stream[s].urn
        /\ stream'[s].chan = stream[s].chan /\ stream'[s].taken = stream[s].taken
        /\ stream'[s].known = stream[s].known \cup got
    <3> HIDE DEF got
    <3> QED
      BY <1>0, <2>1, <2>2 DEF Stream
  <2>4. stream' = [stream EXCEPT ![s] = stream'[s]]
    BY <1>7, <2>2, Zenon DEF Retrieve
  <2>5. /\ Remembers
        /\ missed'[s] = missed[s] \cup hid
    BY <2>1, <2>2 DEF Remembers
  <2>6. \A i \in Waiting(u) : rows[i].stamp \in stream'[s].known \cup missed'[s]
    BY <2>3, <2>5
  <2>7. UNCHANGED <<subs, count, rows, call, era, live, from, last>> /\ Open(s)
    BY <1>7 DEF Retrieve
  <2>8. Offered(s)' = Offered(s) /\ (Distinct(s) => Distinct(s)')
    BY <1>3, <1>7, <2>3
  <2>9. /\ Len(stream'[s].chan) <= Len(stream[s].chan)
        /\ stream[s].known \subseteq stream'[s].known
    BY <1>1, <2>3
  <2> QED
    BY <2>3, <2>4, <2>5, <2>6, <2>7, <2>8, <2>9, Zenon
<1> QED
  BY <1>2, <1>4, <1>5, <1>6, <1>7 DEF Within

-----------------------------------------------------------------------------
(* The lists of the subscribers and the notifications that copied them.    *)

Lists == \A u \in Urns : subs[u] = {s \in Streams : Open(s) /\ stream[s].urn = u}

\* Nobody leaves while a notification is being sent.
Targets ==
  \A c \in Stores : Sending(c) =>
    \A s \in call[c].todo : Open(s) /\ stream[s].urn = call[c].urn

LEMMA MissingFacts ==
  ASSUME TypeOK, NEW S \in SUBSET Streams, NEW n \in Stamps, missed' = Missing(S, n)
  PROVE  Remembers /\ \A s \in S : n \in missed'[s]
BY DEF TypeOK, Missing, Remembers

LEMMA NotifySendFacts ==
  ASSUME TypeOK, Targets, NEW c \in Stores, NotifySend(c)
  PROVE  \E s \in call[c].todo :
           /\ s \in Streams /\ Open(s)
           /\ call' = [call EXCEPT ![c] = call'[c]] /\ call'[c] \in Call
           /\ call'[c].urn = call[c].urn /\ call'[c].stamp = call[c].stamp
           /\ call'[c].era = call[c].era /\ call'[c].phase = "sending"
           /\ call'[c].todo = call[c].todo \ {s}
           /\ stream' = [stream EXCEPT ![s] = stream'[s]] /\ stream'[s] \in Stream
           /\ stream'[s].urn = stream[s].urn /\ stream'[s].taken = stream[s].taken
           /\ stream'[s].fetched = stream[s].fetched
           /\ stream'[s].known = stream[s].known /\ Remembers
           /\ \/ Fits(s) /\ stream'[s].chan = Append(stream[s].chan, call[c].stamp)
              \/ /\ stream'[s].chan = stream[s].chan
                 /\ call[c].stamp \in missed'[s]
           /\ UNCHANGED <<subs, count, rows, era, live, from, last>>
<1> USE NoneAssumption
<1>1. PICK s \in call[c].todo :
         IF Fits(s)
         THEN /\ stream' = [stream EXCEPT ![s].chan = Append(@, call[c].stamp)]
              /\ call' = [call EXCEPT ![c].todo = @ \ {s}]
              /\ UNCHANGED missed
         ELSE /\ missed' = Missing({s}, call[c].stamp)
              /\ call' = [call EXCEPT ![c].todo = AfterFull(@, s)]
              /\ UNCHANGED stream
  BY DEF NotifySend
<1>2. /\ call[c] \in Call /\ s \in Streams /\ Open(s) /\ call[c].phase = "sending"
      /\ UNCHANGED <<subs, count, rows, era, live, from, last>>
  BY DEF NotifySend, Sending, TypeOK, Call, Targets
<1>3. stream[s] \in Stream
  BY <1>2 DEF Open, TypeOK
<1>4. call' = [call EXCEPT ![c] = [call[c] EXCEPT !.todo = @ \ {s}]]
  BY <1>1 DEF AfterFull
<1>5. call'[c] = [call[c] EXCEPT !.todo = @ \ {s}]
  BY <1>4 DEF TypeOK
<1>6. /\ call'[c] \in Call
      /\ call'[c].urn = call[c].urn /\ call'[c].stamp = call[c].stamp
      /\ call'[c].era = call[c].era /\ call'[c].phase = "sending"
      /\ call'[c].todo = call[c].todo \ {s}
  BY <1>2, <1>5 DEF Call
<1>7. call' = [call EXCEPT ![c] = call'[c]]
  BY <1>4, <1>5, Zenon
<1>8. call[c].stamp \in Stamps
  BY <1>2 DEF Call
<1>9. CASE Fits(s)
  <2>1. stream'[s] = [stream[s] EXCEPT !.chan = Append(@, call[c].stamp)]
    BY <1>1, <1>2, <1>9 DEF TypeOK
  <2>2. Append(stream[s].chan, call[c].stamp) \in Seq(Stamps)
    BY <1>3, <1>8, AppendFacts DEF Stream
  <2>3. /\ stream'[s] \in Stream
        /\ stream'[s].urn = stream[s].urn /\ stream'[s].taken = stream[s].taken
        /\ stream'[s].fetched = stream[s].fetched
        /\ stream'[s].chan = Append(stream[s].chan, call[c].stamp)
        /\ stream'[s].known = stream[s].known
    BY <1>3, <2>1, <2>2 DEF Stream
  <2>4. stream' = [stream EXCEPT ![s] = stream'[s]]
    BY <1>1, <1>9, <2>1, Zenon
  <2>5. Remembers
    BY <1>1, <1>9 DEF Remembers, TypeOK
  <2> QED
    BY <1>2, <1>6, <1>7, <1>9, <2>3, <2>4, <2>5, Zenon
<1>10. CASE ~Fits(s)
  <2>1. stream' = stream /\ missed' = Missing({s}, call[c].stamp)
    BY <1>1, <1>10
  <2>2. Remembers /\ call[c].stamp \in missed'[s]
    BY <1>2, <1>8, <2>1, MissingFacts
  <2>3. stream' = [stream EXCEPT ![s] = stream'[s]]
    BY <1>2, <2>1 DEF TypeOK
  <2> QED
    BY <1>2, <1>3, <1>6, <1>7, <2>1, <2>2, <2>3, Zenon
<1> QED
  BY <1>9, <1>10

\* A notification that returns before it copied the list.
LEMMA GiveUpFacts ==
  ASSUME TypeOK, NEW c \in Stores, GiveUp(c)
  PROVE  /\ call[c] \in Call /\ call' = [call EXCEPT ![c] = None]
         /\ UNCHANGED <<subs, count, stream, rows, era, live, from, last>>
         /\ Remembers
         /\ \A s \in subs[call[c].urn] : call[c].stamp \in missed'[s]
<1>1. /\ call[c] \in Call /\ call' = [call EXCEPT ![c] = None]
      /\ missed' = Missing(subs[call[c].urn], call[c].stamp)
      /\ UNCHANGED <<subs, count, stream, rows, era, live, from, last>>
  BY DEF GiveUp, TypeOK
<1>2. subs[call[c].urn] \in SUBSET Streams /\ call[c].stamp \in Stamps
  BY <1>1 DEF TypeOK, Call
<1> QED
  BY <1>1, <1>2, MissingFacts

\* The commit of a new envelope.
LEMMA StoreFacts ==
  ASSUME TypeOK, NEW c \in Stores, NEW i \in Ids, NEW u \in Urns, Store(c, i, u)
  PROVE  /\ call[c] = None /\ UNCHANGED <<subs, count, stream, era, live, from, missed>>
         /\ \/ UNCHANGED <<rows, call, last>>
            \/ /\ rows[i] = None /\ last < MaxStamp /\ last' = last + 1
               /\ last' \in Stamps
               /\ rows' = [rows EXCEPT ![i] = rows'[i]] /\ rows'[i] \in Row
               /\ rows'[i].urn = u /\ rows'[i].stamp = last + 1 /\ rows'[i].era = era[u]
               /\ call' = [call EXCEPT ![c] = call'[c]] /\ call'[c] \in Call
               /\ call'[c].urn = u /\ call'[c].stamp = last + 1 /\ call'[c].era = era[u]
               /\ call'[c].phase = "committed"
<1> USE LimitsAssumption
<1>1. CASE rows[i] # None
  BY <1>1 DEF Store, Announces
<1>2. CASE rows[i] = None
  <2> DEFINE row == [urn |-> u, stamp |-> last + 1, era |-> era[u], read |-> FALSE]
             new == [urn |-> u, stamp |-> last + 1, era |-> era[u],
                     phase |-> "committed", todo |-> {}]
  <2>1. /\ last < MaxStamp /\ last' = last + 1 /\ rows' = [rows EXCEPT ![i] = row]
    BY <1>2 DEF Store
  <2>2. rows'[i] = row
    BY <2>1 DEF TypeOK
  <2>3. call' = [call EXCEPT ![c] = new]
    <3>1. call' = [call EXCEPT ![c] = [urn |-> u, stamp |-> rows'[i].stamp,
                                       era |-> rows'[i].era,
                                       phase |-> "committed", todo |-> {}]]
      BY <1>2 DEF Store, Announces
    <3>2. rows'[i].stamp = last + 1 /\ rows'[i].era = era[u]
      BY <2>2
    <3> QED
      BY <3>1, <3>2, Zenon
  <2>4. last + 1 \in Stamps /\ era[u] \in 0..MaxEra
    BY <2>1 DEF TypeOK, Stamps
  <2>5. row \in Row /\ new \in Call
    BY <2>4 DEF Row, Call
  <2>6. call'[c] = new
    BY <2>3 DEF TypeOK
  <2>7. /\ rows'[i].urn = u /\ rows'[i].stamp = last + 1 /\ rows'[i].era = era[u]
        /\ call'[c].urn = u /\ call'[c].stamp = last + 1 /\ call'[c].era = era[u]
        /\ call'[c].phase = "committed"
    BY <2>2, <2>6
  <2>8. call[c] = None /\ UNCHANGED <<subs, count, stream, era, live, from, missed>>
    BY DEF Store
  <2>9. /\ rows' = [rows EXCEPT ![i] = rows'[i]] /\ rows'[i] \in Row
        /\ call' = [call EXCEPT ![c] = call'[c]] /\ call'[c] \in Call
    BY <2>1, <2>2, <2>3, <2>5, <2>6, Zenon
  <2>10. last' \in Stamps
    BY <2>1, <2>4
  <2> QED
    BY <1>2, <2>1, <2>7, <2>8, <2>9, <2>10, Zenon
<1> QED
  BY <1>1, <1>2

-----------------------------------------------------------------------------
(* Types, lists and targets are preserved together: a notification appends *)
(* to channels, so its targets have to be open.                            *)

Core == TypeOK /\ Lists /\ Targets

LEMMA CoreInit == Init => Core
BY LimitsAssumption, NoneAssumption DEF Init, Core, TypeOK, Lists, Targets, Open, Sending

LEMMA CoreStep == Core /\ [Next]_vars => Core'
<1> SUFFICES ASSUME Core, [Next]_vars PROVE Core'
  OBVIOUS
<1> USE LimitsAssumption, NoneAssumption DEF Core
<1>1. ASSUME NEW s \in Streams, Within(s) PROVE Core'
  <2>1. /\ UNCHANGED <<subs, count, rows, call, era, live, from, last>> /\ Remembers
        /\ stream' = [stream EXCEPT ![s] = stream'[s]]
        /\ stream'[s] \in Stream /\ stream'[s].urn = stream[s].urn
        /\ Len(stream'[s].chan) <= Len(stream[s].chan) /\ Open(s)
    BY <1>1, WithinFacts
  <2>2. stream' \in [Streams -> Stream \cup {None}]
    BY <2>1 DEF TypeOK
  <2>3. \A t \in Streams : Open(t)' = Open(t) /\ (Open(t) => stream'[t].urn = stream[t].urn)
    BY <2>1 DEF TypeOK, Open
  <2>4. ASSUME NEW t \in Streams, Open(t)' PROVE Len(stream'[t].chan) <= Buffer
    <3>1. CASE t = s
      <4>1. Len(stream[s].chan) \in Nat /\ Len(stream'[s].chan) \in Nat
        BY <2>1 DEF TypeOK, Open, Stream
      <4> QED
        BY <2>1, <3>1, <4>1 DEF TypeOK
    <3>2. CASE t # s
      BY <2>1, <2>4, <3>2 DEF TypeOK, Open
    <3> QED
      BY <3>1, <3>2
  <2>5. TypeOK'
    BY <2>1, <2>2, <2>4 DEF TypeOK, Remembers
  <2>6. Lists'
    BY <2>1, <2>3 DEF Lists
  <2>7. \A c \in Stores : Sending(c)' = Sending(c) /\ (Sending(c) => call[c].todo \subseteq Streams)
    BY <2>1 DEF Sending, TypeOK, Call
  <2>8. Targets'
    BY <2>1, <2>3, <2>7 DEF Targets
  <2> QED
    BY <2>5, <2>6, <2>8
<1>2. ASSUME NEW s \in Streams, NEW u \in Urns, Register(s, u) PROVE Core'
  <2>1. stream'[s] \in Stream /\ Len(stream'[s].chan) = 0 /\ stream'[s].urn = u
    BY <1>2 DEF Register, TypeOK, Stream
  <2>2. stream' \in [Streams -> Stream \cup {None}]
    BY <1>2, <2>1 DEF Register, TypeOK
  <2>3. \A t \in Streams : t # s => stream'[t] = stream[t]
    BY <1>2 DEF Register, TypeOK
  <2>4. TypeOK'
    BY <1>2, <2>1, <2>2, <2>3 DEF Register, TypeOK, Open
  <2>5. Lists'
    <3>1. \A v \in Urns : subs'[v] = IF v = u THEN subs[u] \cup {s} ELSE subs[v]
      BY <1>2 DEF Register, TypeOK
    <3>2. stream[s] = None /\ stream'[s] # None
      BY <1>2, <2>1 DEF Register, Open
    <3> QED
      BY <2>1, <2>3, <3>1, <3>2 DEF Lists, Open
  <2>6. Targets'
    BY <1>2 DEF Register, Lockable, Targets, Sending
  <2> QED
    BY <2>4, <2>5, <2>6
<1>3. ASSUME NEW s \in Streams, Leave(s) PROVE Core'
  <2>0. /\ \A t \in Streams : stream'[t] = IF t = s THEN None ELSE stream[t]
        /\ \A v \in Urns : subs'[v] = IF v = stream[s].urn THEN subs[v] \ {s} ELSE subs[v]
        /\ UNCHANGED <<rows, call, era, live, from, last>>
        /\ missed' = [missed EXCEPT ![s] = {}]
    BY <1>3 DEF Leave, TypeOK
  <2>1. TypeOK'
    <3>0. subs' \in [Urns -> SUBSET Streams]
      BY <1>3 DEF Leave, TypeOK
    <3>1. stream' \in [Streams -> Stream \cup {None}] /\ count' \in Int
      BY <1>3 DEF Leave, TypeOK
    <3>2. \A t \in Streams : Open(t)' => Open(t) /\ stream'[t] = stream[t]
      BY <2>0 DEF Open
    <3> QED
      BY <2>0, <3>0, <3>1, <3>2 DEF TypeOK
  <2>2. Lists'
    <3>1. \A t \in Streams : Open(t)' <=> Open(t) /\ t # s
      BY <2>0 DEF Open
    <3>2. \A v \in Urns : s \in subs[v] => v = stream[s].urn
      BY DEF Lists
    <3>3. \A v \in Urns : subs'[v] = subs[v] \ {s}
      BY <2>0, <3>2
    <3> QED
      BY <2>0, <3>1, <3>3 DEF Lists
  <2>3. Targets'
    BY <1>3 DEF Leave, Lockable, Targets, Sending
  <2> QED
    BY <2>1, <2>2, <2>3
<1>4. ASSUME NEW c \in Stores, NotifyBegin(c) PROVE Core'
  <2>1. call[c] \in Call /\ UNCHANGED <<subs, count, stream, rows, era, live, from, last, missed>>
    BY <1>4 DEF NotifyBegin, TypeOK
  <2>2. call'[c] \in Call /\ call'[c].urn = call[c].urn
        /\ call'[c].todo = subs[call[c].urn]
    BY <1>4, <2>1 DEF NotifyBegin, TypeOK, Call
  <2>3. \A d \in Stores : d # c => call'[d] = call[d]
    BY <1>4 DEF NotifyBegin, TypeOK
  <2>4. call' \in [Stores -> Call \cup {None}]
    BY <1>4, <2>2, <2>3 DEF NotifyBegin, TypeOK
  <2>5. TypeOK' /\ Lists'
    BY <2>1, <2>4 DEF TypeOK, Lists, Open
  <2>6. Targets'
    <3>1. \A t \in subs[call[c].urn] : Open(t) /\ stream[t].urn = call[c].urn
      BY <2>1 DEF Lists, Call
    <3> QED
      BY <2>1, <2>2, <2>3, <3>1 DEF Targets, Sending, Open
  <2> QED
    BY <2>5, <2>6
<1>5. ASSUME NEW c \in Stores, NotifyRefused(c) \/ NotifyFailed(c) \/ NotifyEnd(c)
      PROVE  Core'
  <2>1. /\ UNCHANGED <<subs, count, stream, rows, era, live, from, last>>
        /\ call' = [call EXCEPT ![c] = None]
    BY <1>5 DEF NotifyRefused, NotifyFailed, GiveUp, NotifyEnd
  <2>2. missed' \in [Streams -> SUBSET Stamps]
    <3>1. CASE GiveUp(c)
      BY <3>1, GiveUpFacts DEF Remembers
    <3>2. CASE NotifyEnd(c)
      BY <3>2 DEF NotifyEnd, TypeOK
    <3> QED
      BY <1>5, <3>1, <3>2 DEF NotifyRefused, NotifyFailed
  <2> QED
    BY <2>1, <2>2 DEF TypeOK, Lists, Targets, Sending, Open
<1>6. ASSUME NEW c \in Stores, NotifySend(c) PROVE Core'
  <2>1. PICK s \in Streams :
           /\ Open(s)
           /\ call' = [call EXCEPT ![c] = call'[c]] /\ call'[c] \in Call
           /\ call'[c].urn = call[c].urn
           /\ call'[c].todo = call[c].todo \ {s}
           /\ stream' = [stream EXCEPT ![s] = stream'[s]] /\ stream'[s] \in Stream
           /\ stream'[s].urn = stream[s].urn
           /\ \/ Fits(s) /\ stream'[s].chan = Append(stream[s].chan, call[c].stamp)
              \/ stream'[s].chan = stream[s].chan
           /\ UNCHANGED <<subs, count, rows, era, live, from, last>> /\ Remembers
    BY <1>6, NotifySendFacts
  <2>2. \A t \in Streams : Open(t)' = Open(t) /\ (Open(t) => stream'[t].urn = stream[t].urn)
    BY <2>1 DEF TypeOK, Open
  <2>3. Len(stream'[s].chan) <= Buffer
    <3>1. call[c].stamp \in Stamps /\ stream[s].chan \in Seq(Stamps)
      BY <1>6, <2>1 DEF NotifySend, Sending, TypeOK, Call, Stream, Open
    <3> QED
      BY <2>1, <3>1, AppendFacts DEF Fits, TypeOK
  <2>4. stream' \in [Streams -> Stream \cup {None}] /\ call' \in [Stores -> Call \cup {None}]
    BY <2>1 DEF TypeOK
  <2>5. TypeOK'
    BY <2>1, <2>3, <2>4 DEF TypeOK, Open, Remembers
  <2>6. Lists'
    BY <2>1, <2>2 DEF Lists
  <2>7. Targets'
    <3>1. Sending(c) /\ call[c].todo \subseteq Streams
      BY <1>6 DEF NotifySend, Sending, TypeOK, Call
    <3>2. ASSUME NEW d \in Stores, Sending(d)'
          PROVE  Sending(d) /\ call'[d].urn = call[d].urn /\ call'[d].todo \subseteq call[d].todo
      BY <2>1, <3>1, <3>2 DEF Sending, TypeOK
    <3>3. \A d \in Stores : Sending(d) => call[d].todo \subseteq Streams
      BY DEF Sending, TypeOK, Call
    <3> QED
      BY <2>2, <3>2, <3>3 DEF Targets
  <2> QED
    BY <2>5, <2>6, <2>7
<1>7. ASSUME NEW c \in Stores, NEW i \in Ids, NEW u \in Urns, Store(c, i, u) PROVE Core'
  <2>1. /\ call[c] = None /\ UNCHANGED <<subs, count, stream, era, live, from, missed>>
        /\ \/ UNCHANGED <<rows, call, last>>
           \/ /\ last' \in Stamps
              /\ rows' = [rows EXCEPT ![i] = rows'[i]] /\ rows'[i] \in Row
              /\ call' = [call EXCEPT ![c] = call'[c]] /\ call'[c] \in Call
              /\ call'[c].phase = "committed"
    BY <1>7, StoreFacts
  <2>2. CASE UNCHANGED <<rows, call, last>>
    BY <2>1, <2>2 DEF TypeOK, Lists, Targets, Sending, Open
  <2>3. CASE ~UNCHANGED <<rows, call, last>>
    <3>1. TypeOK'
      <4>1. rows' \in [Ids -> Row \cup {None}] /\ call' \in [Stores -> Call \cup {None}]
        BY <2>1, <2>3 DEF TypeOK
      <4>2. last' \in 0..MaxStamp
        BY <2>1, <2>3 DEF Stamps
      <4> QED
        BY <2>1, <4>1, <4>2 DEF TypeOK, Open
    <3>2. \A d \in Stores : Sending(d)' => Sending(d) /\ call'[d] = call[d]
      BY <2>1, <2>3 DEF TypeOK, Sending
    <3>3. Lists' /\ Targets'
      BY <2>1, <3>2 DEF Lists, Targets, Open
    <3> QED
      BY <3>1, <3>3
  <2> QED
    BY <2>2, <2>3
<1>8. ASSUME NEW i \in Ids, Remove(i) PROVE Core'
  BY <1>8 DEF Remove, TypeOK, Lists, Targets, Sending, Open
<1>9. ASSUME NEW i \in Ids, NEW u \in Urns, Ack(u, i) PROVE Core'
  <2>1. [rows[i] EXCEPT !.read = TRUE] \in Row
    BY <1>9 DEF Ack, Pending, Waiting, TypeOK, Row
  <2> QED
    BY <1>9, <2>1 DEF Ack, TypeOK, Lists, Targets, Sending, Open
<1>10. ASSUME NEW u \in Urns, EnrollManaged(u) PROVE Core'
  BY <1>10 DEF EnrollManaged, TypeOK, Lists, Targets, Sending, Open
<1>11. ASSUME NEW u \in Urns, RevokeManaged(u) PROVE Core'
  BY <1>11 DEF RevokeManaged, TypeOK, Lists, Targets, Sending, Open
<1>12. ASSUME Crash PROVE Core'
  BY <1>12 DEF Crash, TypeOK, Lists, Targets, Sending, Open
<1>13. CASE UNCHANGED vars
  BY <1>13 DEF vars, TypeOK, Lists, Targets, Sending, Open
<1>14. ASSUME NEW u \in Urns, RenewManaged(u) PROVE Core'
  <2>1. from' \in [Urns -> 1..(MaxStamp + 1)]
    BY <1>14 DEF RenewManaged, TypeOK
  <2> QED
    BY <1>14, <2>1 DEF RenewManaged, TypeOK, Lists, Targets, Sending, Open
<1> QED
  BY <1>1, <1>2, <1>3, <1>4, <1>5, <1>6, <1>7, <1>8, <1>9, <1>10, <1>11, <1>12, <1>13, <1>14
     DEF Next, Loop, Notify, Within

\* The handlers, their channels, the rows and the calls keep their types; a
\* channel never holds more than it was made for.
THEOREM TypeCorrect == Spec => []TypeOK
<1>1. Spec => []Core
  BY CoreInit, CoreStep, PTL DEF Spec
<1>2. Core => TypeOK
  BY DEF Core
<1> QED
  BY <1>1, <1>2, PTL

-----------------------------------------------------------------------------
(* Revocation.                                                             *)

LEMMA RevocationStep == Core /\ NoPushAfterRevocation /\ [Next]_vars => NoPushAfterRevocation'
<1> SUFFICES ASSUME Core, NoPushAfterRevocation, [Next]_vars PROVE NoPushAfterRevocation'
  OBVIOUS
<1> USE DEF Core, NoPushAfterRevocation
<1>1. ASSUME UNCHANGED <<call, era, live>> PROVE NoPushAfterRevocation'
  BY <1>1 DEF Sending, Certified
<1>2. ASSUME NEW s \in Streams, Within(s) PROVE NoPushAfterRevocation'
  BY <1>1, <1>2, WithinFacts
<1>3. ASSUME NEW c \in Stores, NotifyBegin(c) PROVE NoPushAfterRevocation'
  <2>1. call[c] \in Call
    BY <1>3 DEF NotifyBegin, TypeOK
  <2>2. call'[c].urn = call[c].urn /\ call'[c].era = call[c].era
    BY <1>3, <2>1 DEF NotifyBegin, TypeOK, Call
  <2>3. \A d \in Stores : d # c => call'[d] = call[d]
    BY <1>3 DEF NotifyBegin, TypeOK
  <2> QED
    BY <1>3, <2>2, <2>3 DEF NotifyBegin, Sending, Passes, Permits, Certified
<1>4. ASSUME NEW c \in Stores, NotifyRefused(c) \/ NotifyFailed(c) \/ NotifyEnd(c)
      PROVE  NoPushAfterRevocation'
  <2>1. call' = [call EXCEPT ![c] = None] /\ UNCHANGED <<era, live>>
    BY <1>4 DEF NotifyRefused, NotifyFailed, GiveUp, NotifyEnd
  <2> QED
    BY <2>1 DEF TypeOK, Sending, Certified
<1>5. ASSUME NEW c \in Stores, NotifySend(c) PROVE NoPushAfterRevocation'
  <2>1. /\ call' = [call EXCEPT ![c] = call'[c]] /\ UNCHANGED <<era, live>>
        /\ call'[c].urn = call[c].urn /\ call'[c].era = call[c].era
    BY <1>5, NotifySendFacts
  <2>2. Sending(c)
    BY <1>5 DEF NotifySend
  <2> QED
    BY <2>1, <2>2 DEF TypeOK, Sending, Certified
<1>6. ASSUME NEW c \in Stores, NEW i \in Ids, NEW u \in Urns, Store(c, i, u)
      PROVE  NoPushAfterRevocation'
  <2>1. /\ UNCHANGED <<era, live>>
        /\ \/ UNCHANGED call
           \/ call' = [call EXCEPT ![c] = call'[c]] /\ call'[c].phase = "committed"
    BY <1>6, StoreFacts
  <2> QED
    BY <2>1 DEF TypeOK, Sending, Certified
<1>7. ASSUME NEW u \in Urns, EnrollManaged(u) PROVE NoPushAfterRevocation'
  <2>1. \A v \in Urns : Strict /\ live[v] => v # u
    BY <1>7 DEF EnrollManaged
  <2>2. \A c \in Stores : Sending(c) => call[c].urn \in Urns
    BY DEF TypeOK, Sending, Call
  <2> QED
    BY <1>7, <2>1, <2>2 DEF EnrollManaged, TypeOK, Sending, Certified
<1>8. ASSUME NEW u \in Urns, RevokeManaged(u) PROVE NoPushAfterRevocation'
  BY <1>8 DEF RevokeManaged, Lockable, Sending
<1>9. CASE Crash
  BY <1>9 DEF Crash, Sending
<1>10. CASE UNCHANGED vars
  BY <1>1, <1>10 DEF vars
<1> QED
  BY <1>1, <1>2, <1>3, <1>4, <1>5, <1>6, <1>7, <1>8, <1>9, <1>10
     DEF Next, Loop, Notify, Within, Register, Leave, Ack, Remove, RenewManaged

\* RevokeManaged waits for the notifications under way, and what comes later
\* looks the certificate up again (v2_store.go:548, store.go:319-325).
THEOREM NothingPushedAfterRevocation == Spec => []NoPushAfterRevocation
<1>1. Init => NoPushAfterRevocation
  BY DEF Init, NoPushAfterRevocation, Sending
<1> QED
  BY <1>1, CoreInit, CoreStep, RevocationStep, PTL DEF Spec

-----------------------------------------------------------------------------
(* The counter.                                                            *)

Counted ==
  /\ IsFiniteSet(OpenStreams)
  /\ count = Cardinality(OpenStreams) /\ count <= MaxTotal
  /\ \A u \in Urns : Cardinality(subs[u]) <= MaxPerUrn

LEMMA CountedInit == Init => Counted
<1> SUFFICES ASSUME Init PROVE Counted
  OBVIOUS
<1>1. OpenStreams = {} /\ \A u \in Urns : subs[u] = {}
  BY DEF Init, OpenStreams, Open
<1> QED
  BY <1>1, FS_EmptySet, LimitsAssumption DEF Init, Counted

LEMMA CountedStep == Core /\ Counted /\ [Next]_vars => Counted'
<1> SUFFICES ASSUME Core, Counted, [Next]_vars PROVE Counted'
  OBVIOUS
<1> USE LimitsAssumption, NoneAssumption DEF Core
<1>1. ASSUME UNCHANGED <<subs, count>>, OpenStreams' = OpenStreams PROVE Counted'
  BY <1>1 DEF Counted
<1>2. ASSUME UNCHANGED <<subs, count, stream>> PROVE Counted'
  BY <1>1, <1>2 DEF OpenStreams, Open
<1>3. ASSUME NEW s \in Streams, Open(s), UNCHANGED <<subs, count>>,
             stream' = [stream EXCEPT ![s] = stream'[s]], stream'[s] \in Stream
      PROVE  Counted'
  <2>1. OpenStreams' = OpenStreams
    BY <1>3 DEF OpenStreams, Open, TypeOK
  <2> QED
    BY <1>1, <1>3, <2>1
<1>4. ASSUME NEW s \in Streams, Within(s) PROVE Counted'
  BY <1>3, <1>4, WithinFacts
<1>5. ASSUME NEW c \in Stores, NotifySend(c) PROVE Counted'
  <2>1. PICK s \in Streams :
          /\ Open(s) /\ UNCHANGED <<subs, count>>
          /\ stream' = [stream EXCEPT ![s] = stream'[s]] /\ stream'[s] \in Stream
    BY <1>5, NotifySendFacts
  <2> QED
    BY <1>3, <2>1
<1>6. ASSUME NEW s \in Streams, NEW u \in Urns, Register(s, u) PROVE Counted'
  <2>1. OpenStreams' = OpenStreams \cup {s} /\ s \notin OpenStreams
    <3>1. stream'[s] \in Stream
      BY <1>6 DEF Register, TypeOK, Stream
    <3>2. \A t \in Streams : t # s => stream'[t] = stream[t]
      BY <1>6 DEF Register, TypeOK
    <3> QED
      BY <1>6, <3>1, <3>2 DEF Register, OpenStreams, Open
  <2>2. IsFiniteSet(OpenStreams') /\ Cardinality(OpenStreams') = Cardinality(OpenStreams) + 1
    BY <2>1, FS_AddElement DEF Counted
  <2>3. count' = Cardinality(OpenStreams') /\ count' <= MaxTotal
    <3>1. count' = count + 1 /\ count < MaxTotal /\ count \in Int
      BY <1>6 DEF Register, HasRoom, TypeOK
    <3> QED
      BY <2>2, <3>1 DEF Counted
  <2>4. ASSUME NEW v \in Urns PROVE Cardinality(subs'[v]) <= MaxPerUrn
    <3>1. CASE v # u
      BY <1>6, <3>1 DEF Register, TypeOK, Counted
    <3>2. CASE v = u
      <4>1. IsFiniteSet(subs[u]) /\ s \notin subs[u]
        <5>1. subs[u] \subseteq OpenStreams
          BY DEF Lists, OpenStreams
        <5> QED
          BY <2>1, <5>1, FS_Subset DEF Counted
      <4>2. subs'[u] = subs[u] \cup {s} /\ Cardinality(subs[u]) < MaxPerUrn
        BY <1>6 DEF Register, HasRoom, TypeOK
      <4>3. Cardinality(subs'[u]) = Cardinality(subs[u]) + 1 /\ Cardinality(subs[u]) \in Nat
        BY <4>1, <4>2, FS_AddElement, FS_CardinalityType
      <4> QED
        BY <3>2, <4>2, <4>3
    <3> QED
      BY <3>1, <3>2
  <2> QED
    BY <2>2, <2>3, <2>4 DEF Counted
<1>7. ASSUME NEW s \in Streams, Leave(s) PROVE Counted'
  <2>1. OpenStreams' = OpenStreams \ {s} /\ s \in OpenStreams
    <3>1. \A t \in Streams : stream'[t] = IF t = s THEN None ELSE stream[t]
      BY <1>7 DEF Leave, TypeOK
    <3> QED
      BY <1>7, <3>1 DEF Leave, OpenStreams, Open
  <2>2. IsFiniteSet(OpenStreams') /\ Cardinality(OpenStreams') = Cardinality(OpenStreams) - 1
    BY <2>1, FS_RemoveElement DEF Counted
  <2>3. count' = Cardinality(OpenStreams') /\ count' <= MaxTotal
    <3>1. count' = count - 1 /\ count \in Int
      BY <1>7 DEF Leave, TypeOK
    <3> QED
      BY <2>2, <3>1 DEF Counted
  <2>4. ASSUME NEW v \in Urns PROVE Cardinality(subs'[v]) <= MaxPerUrn
    <3>1. subs[v] \subseteq OpenStreams
      BY DEF Lists, OpenStreams
    <3>2. IsFiniteSet(subs[v])
      BY <3>1, FS_Subset DEF Counted
    <3>3. subs'[v] \in SUBSET subs[v]
      BY <1>7 DEF Leave, TypeOK
    <3>4. /\ Cardinality(subs'[v]) <= Cardinality(subs[v]) /\ Cardinality(subs[v]) \in Nat
          /\ Cardinality(subs'[v]) \in Nat
      BY <3>2, <3>3, FS_Subset, FS_CardinalityType
    <3> QED
      BY <3>4 DEF Counted
  <2> QED
    BY <2>2, <2>3, <2>4 DEF Counted
<1>8. CASE Crash
  <2>1. OpenStreams' = {} /\ count' = 0 /\ \A u \in Urns : subs'[u] = {}
    BY <1>8 DEF Crash, OpenStreams, Open
  <2> QED
    BY <2>1, FS_EmptySet DEF Counted
<1> QED
  BY <1>2, <1>4, <1>5, <1>6, <1>7, <1>8
     DEF Next, Loop, Notify, Within, vars, NotifyBegin, NotifyRefused, NotifyEnd,
         NotifyFailed, GiveUp, Store, Ack, Remove, EnrollManaged, RenewManaged,
         RevokeManaged

\* The lists, the counter and the handlers agree and both limits hold
\* (store.go:286-292, :303-314).
THEOREM SlotsHold == Spec => []SlotsAgree
<1>1. Core /\ Counted => SlotsAgree
  BY DEF Core, Lists, Counted, SlotsAgree, OpenStreams
<1> QED
  BY <1>1, CoreInit, CoreStep, CountedInit, CountedStep, PTL DEF Spec

-----------------------------------------------------------------------------
(* Stamps: what is on its way to a stream was not offered to it yet.       *)

Offers == \A s \in Streams : Open(s) => Offered(s) \subseteq 1..last

Calls ==
  /\ \A c \in Stores : call[c] # None => call[c].stamp \in 1..last
  /\ \A c, d \in Stores :
       call[c] # None /\ call[d] # None /\ call[c].stamp = call[d].stamp => c = d

\* c may still put its envelope on the channel of s.
Towards(c, s) == call[c] # None /\ (call[c].phase = "sending" => s \in call[c].todo)

Ahead ==
  \A c \in Stores, s \in Streams :
    Towards(c, s) /\ Open(s) => call[c].stamp \notin Offered(s)

Rows ==
  \A i \in Ids : rows[i] # None =>
    /\ rows[i].stamp \in 1..last /\ rows[i].era <= era[rows[i].urn]
    /\ \A c \in Stores : call[c] # None /\ call[c].stamp = rows[i].stamp =>
         call[c].urn = rows[i].urn /\ call[c].era = rows[i].era

Order == Offers /\ Calls /\ Ahead /\ Rows /\ PushedOnce

LEMMA OrderInit == Init => Order
BY DEF Init, Order, Offers, Calls, Ahead, Towards, Rows, PushedOnce, Open

\* The steps that offer nothing and commit nothing.
LEMMA Quiet ==
  ASSUME Core, Core', Order,
         last' = last,
         \A s \in Streams : Open(s)' =>
           \/ Open(s) /\ Offered(s)' = Offered(s) /\ (Distinct(s) => Distinct(s)')
           \/ Offered(s)' = {} /\ Distinct(s)',
         \A c \in Stores : call'[c] # None =>
           /\ call[c] # None /\ call'[c].stamp = call[c].stamp
           /\ call'[c].urn = call[c].urn /\ call'[c].era = call[c].era
           /\ \A s \in Streams : Towards(c, s)' /\ Open(s) => Towards(c, s),
         \A i \in Ids : rows'[i] # None =>
           /\ rows[i] # None /\ rows'[i].stamp = rows[i].stamp
           /\ rows'[i].urn = rows[i].urn /\ rows'[i].era = rows[i].era
           /\ era[rows[i].urn] <= era'[rows[i].urn]
  PROVE  Order'
<1>1. Offers' /\ Ahead'
  BY DEF Order, Offers, Ahead, Towards
<1>2. Calls'
  BY DEF Order, Calls
<1>3. Rows'
  <2> SUFFICES ASSUME NEW i \in Ids, rows'[i] # None
      PROVE  /\ rows'[i].stamp \in 1..last' /\ rows'[i].era <= era'[rows'[i].urn]
             /\ \A c \in Stores : call'[c] # None /\ call'[c].stamp = rows'[i].stamp =>
                  call'[c].urn = rows'[i].urn /\ call'[c].era = rows'[i].era
    BY DEF Rows
  <2>1. rows[i] \in Row
    BY DEF Core, TypeOK
  <2>2. rows[i].stamp \in 1..last /\ rows[i].era <= era[rows[i].urn]
        /\ era[rows[i].urn] <= era'[rows[i].urn]
    BY DEF Order, Rows
  <2> QED
    <3>1. era[rows[i].urn] \in Nat /\ era'[rows[i].urn] \in Nat /\ rows[i].era \in Nat
      BY <2>1 DEF Core, TypeOK, Row
    <3>2. rows'[i].era <= era'[rows'[i].urn]
      BY <2>2, <3>1
    <3> QED
      BY <2>2, <3>2 DEF Order, Rows
<1>4. PushedOnce'
  BY DEF Order, PushedOnce, Distinct
<1> QED
  BY <1>1, <1>2, <1>3, <1>4 DEF Order

LEMMA OrderStep == Core /\ Order /\ [Next]_vars => Order'
<1> SUFFICES ASSUME Core, Order, [Next]_vars PROVE Order'
  OBVIOUS
<1>0. Core'
  BY CoreStep
<1> USE LimitsAssumption, NoneAssumption
<1>1. \A i \in Ids : rows[i] # None => era[rows[i].urn] <= era[rows[i].urn]
  BY DEF Core, TypeOK, Row
<1>2. ASSUME NEW s \in Streams, Within(s) PROVE Order'
  <2>1. /\ UNCHANGED <<subs, count, rows, call, era, live, from, last>>
        /\ Open(s) /\ stream' = [stream EXCEPT ![s] = stream'[s]]
        /\ Offered(s)' = Offered(s) /\ (Distinct(s) => Distinct(s)')
    BY <1>2, WithinFacts DEF Core
  <2>2. \A t \in Streams : t # s => stream'[t] = stream[t]
    BY <2>1 DEF Core, TypeOK
  <2>3. \A t \in Streams : Open(t)' =>
          Open(t) /\ Offered(t)' = Offered(t) /\ (Distinct(t) => Distinct(t)')
    <3>1. ASSUME NEW t \in Streams, t # s, Open(t)'
          PROVE  Open(t) /\ Offered(t)' = Offered(t) /\ (Distinct(t) => Distinct(t)')
      BY <2>2, <3>1 DEF Open, Offered, Queued, Distinct
    <3> QED
      BY <2>1, <3>1
  <2> QED
    BY <1>0, <1>1, <2>1, <2>3, Quiet DEF Towards
<1>3. ASSUME NEW s \in Streams, NEW u \in Urns, Register(s, u) PROVE Order'
  <2>1. /\ UNCHANGED <<rows, call, era, last>>
        /\ stream'[s].chan = <<>> /\ stream'[s].taken = {}
        /\ \A t \in Streams : t # s => stream'[t] = stream[t]
    BY <1>3 DEF Register, Core, TypeOK
  <2>2. Offered(s)' = {} /\ Distinct(s)'
    <3>1. 1..Len(stream'[s].chan) = {}
      BY <2>1
    <3>2. Queued(s)' = {}
      BY <3>1 DEF Queued
    <3> QED
      BY <2>1, <3>1, <3>2 DEF Offered, Distinct
  <2>3. \A t \in Streams : t # s /\ Open(t)' =>
          Open(t) /\ Offered(t)' = Offered(t) /\ (Distinct(t) => Distinct(t)')
    BY <2>1 DEF Open, Offered, Queued, Distinct
  <2> QED
    BY <1>0, <1>1, <2>1, <2>2, <2>3, Quiet DEF Towards
<1>4. ASSUME UNCHANGED <<stream, call, last>> \/ (\E s \in Streams : Leave(s)) \/ Crash,
             \A i \in Ids : rows'[i] # None =>
               /\ rows[i] # None /\ rows'[i].stamp = rows[i].stamp
               /\ rows'[i].urn = rows[i].urn /\ rows'[i].era = rows[i].era
               /\ era[rows[i].urn] <= era'[rows[i].urn]
      PROVE  Order'
  <2>1. /\ last' = last
        /\ \A t \in Streams : Open(t)' => stream'[t] = stream[t]
        /\ \A c \in Stores : call'[c] # None => call'[c] = call[c]
    BY <1>4 DEF Leave, Crash, Open, Core, TypeOK
  <2>2. \A t \in Streams : Open(t)' =>
          Open(t) /\ Offered(t)' = Offered(t) /\ (Distinct(t) => Distinct(t)')
    BY <2>1 DEF Open, Offered, Queued, Distinct
  <2> QED
    BY <1>0, <1>4, <2>1, <2>2, Quiet DEF Towards
<1>5. ASSUME NEW c \in Stores, NotifyBegin(c) PROVE Order'
  <2>1. call[c] \in Call /\ UNCHANGED <<stream, rows, era, last>>
    BY <1>5 DEF NotifyBegin, Core, TypeOK
  <2>2. /\ call'[c].urn = call[c].urn /\ call'[c].era = call[c].era
        /\ call'[c].stamp = call[c].stamp
    BY <1>5, <2>1 DEF NotifyBegin, Core, TypeOK, Call
  <2>3. \A d \in Stores : d # c => call'[d] = call[d]
    BY <1>5 DEF NotifyBegin, Core, TypeOK
  <2>4. call[c] # None /\ call[c].phase = "committed"
    BY <1>5 DEF NotifyBegin
  <2>5. \A t \in Streams : Open(t)' =>
          Open(t) /\ Offered(t)' = Offered(t) /\ (Distinct(t) => Distinct(t)')
    BY <2>1 DEF Open, Offered, Queued, Distinct
  <2> QED
    BY <1>0, <1>1, <2>1, <2>2, <2>3, <2>4, <2>5, Quiet DEF Towards
<1>6. ASSUME NEW c \in Stores, NotifyRefused(c) \/ NotifyFailed(c) \/ NotifyEnd(c)
      PROVE  Order'
  <2>1. /\ UNCHANGED <<stream, rows, era, last>>
        /\ call' = [call EXCEPT ![c] = None]
    BY <1>6 DEF NotifyRefused, NotifyFailed, GiveUp, NotifyEnd
  <2>2. \A d \in Stores : call'[d] # None => call'[d] = call[d]
    BY <2>1 DEF Core, TypeOK
  <2>3. \A t \in Streams : Open(t)' =>
          Open(t) /\ Offered(t)' = Offered(t) /\ (Distinct(t) => Distinct(t)')
    BY <2>1 DEF Open, Offered, Queued, Distinct
  <2> QED
    BY <1>0, <1>1, <2>1, <2>2, <2>3, Quiet DEF Towards
<1>7. ASSUME NEW c \in Stores, NotifySend(c) PROVE Order'
  <2>1. PICK s \in call[c].todo :
           /\ s \in Streams /\ Open(s)
           /\ call' = [call EXCEPT ![c] = call'[c]] /\ call'[c] \in Call
           /\ call'[c].urn = call[c].urn /\ call'[c].stamp = call[c].stamp
           /\ call'[c].era = call[c].era /\ call'[c].phase = "sending"
           /\ call'[c].todo = call[c].todo \ {s}
           /\ stream' = [stream EXCEPT ![s] = stream'[s]]
           /\ stream'[s].taken = stream[s].taken
           /\ \/ stream'[s].chan = Append(stream[s].chan, call[c].stamp)
              \/ stream'[s].chan = stream[s].chan
           /\ UNCHANGED <<subs, count, rows, era, live, from, last>>
    BY <1>7, NotifySendFacts DEF Core
  <2>2. /\ call[c] # None /\ call[c].phase = "sending" /\ call[c] \in Call
        /\ call'[c] # None
    BY <1>7, <2>1 DEF NotifySend, Sending, Core, TypeOK
  <2>3. \A d \in Stores : d # c => call'[d] = call[d]
    BY <2>1 DEF Core, TypeOK
  <2>4. \A t \in Streams : t # s => stream'[t] = stream[t]
    BY <2>1 DEF Core, TypeOK
  <2>5. \A t \in Streams : t # s /\ Open(t)' =>
          Open(t) /\ Offered(t)' = Offered(t) /\ (Distinct(t) => Distinct(t)')
    BY <2>4 DEF Open, Offered, Queued, Distinct
  <2>6. CASE stream'[s].chan = stream[s].chan
    <3>1. Offered(s)' = Offered(s) /\ (Distinct(s) => Distinct(s)')
      BY <2>1, <2>6 DEF Offered, Queued, Distinct
    <3> QED
      BY <1>0, <1>1, <2>1, <2>2, <2>3, <2>5, <3>1, Quiet DEF Towards
  <2>7. CASE stream'[s].chan = Append(stream[s].chan, call[c].stamp)
    <3> DEFINE q == stream[s].chan
               n == call[c].stamp
    <3>1. /\ q \in Seq(Stamps) /\ n \in Stamps
          /\ Append(q, n) \in Seq(Stamps) /\ Len(Append(q, n)) = Len(q) + 1
          /\ Len(q) \in Nat
      <4>1. q \in Seq(Stamps) /\ n \in Stamps
        BY <2>1, <2>2 DEF Core, TypeOK, Open, Stream, Call
      <4> QED
        BY <4>1, AppendFacts
    <3>2. Queued(s)' = Queued(s) \cup {n}
      <4>1. Queued(s)' = {Append(q, n)[i] : i \in 1..(Len(q) + 1)}
        BY <2>7, <3>1 DEF Queued
      <4>2. Queued(s) = {q[i] : i \in 1..Len(q)}
        BY DEF Queued
      <4>3. /\ 1..(Len(q) + 1) = 1..Len(q) \cup {Len(q) + 1}
            /\ \A i \in 1..Len(q) : Append(q, n)[i] = q[i]
            /\ Append(q, n)[Len(q) + 1] = n
        BY <3>1, AppendFacts
      <4> QED
        BY <4>1, <4>2, <4>3
    <3>3. n \notin Offered(s)
      BY <2>1, <2>2 DEF Order, Ahead, Towards
    <3>4. Distinct(s)'
      <4>1. Distinct(s)
        BY <2>1 DEF Order, PushedOnce, Distinct
      <4>2. \A i \in 1..Len(q) : q[i] # n
        BY <3>3 DEF Offered, Queued
      <4>3. \A i, j \in 1..(Len(q) + 1) : Append(q, n)[i] = Append(q, n)[j] => i = j
        <5>1. TAKE i, j \in 1..(Len(q) + 1)
        <5>2. i \in 1..Len(q) \/ i = Len(q) + 1
          BY <3>1
        <5>3. j \in 1..Len(q) \/ j = Len(q) + 1
          BY <3>1
        <5>4. /\ \A k \in 1..Len(q) : Append(q, n)[k] = q[k]
              /\ Append(q, n)[Len(q) + 1] = n
          BY <3>1, AppendFacts
        <5> QED
          BY <4>1, <4>2, <5>2, <5>3, <5>4 DEF Distinct
      <4>4. Queued(s)' \cap stream'[s].taken = {}
        BY <2>1, <3>2, <3>3, <4>1 DEF Distinct, Offered
      <4> QED
        BY <2>7, <3>1, <4>3, <4>4 DEF Distinct
    <3>5. Offered(s)' = Offered(s) \cup {n}
      BY <2>1, <3>2 DEF Offered
    <3>6. Calls'
      BY <2>1, <2>2, <2>3 DEF Order, Calls
    <3>7. Offers'
      BY <2>1, <2>2, <2>5, <3>5 DEF Order, Offers, Calls
    <3>8. PushedOnce'
      <4>1. \A t \in Streams : Open(t)' => Distinct(t)'
        BY <2>5, <3>4 DEF Order, PushedOnce, Distinct
      <4> QED
        BY <4>1 DEF PushedOnce, Distinct
    <3>9. Ahead'
      <4> SUFFICES ASSUME NEW d \in Stores, NEW t \in Streams, Towards(d, t)', Open(t)'
          PROVE  call'[d].stamp \notin Offered(t)'
        BY DEF Ahead
      <4>1. CASE d = c
        <5>1. t # s /\ Towards(c, t)
          BY <2>1, <2>2, <4>1 DEF Towards
        <5> QED
          BY <2>1, <2>5, <4>1, <5>1 DEF Order, Ahead
      <4>2. CASE d # c
        <5>1. Towards(d, t) /\ call'[d] = call[d] /\ call[d].stamp # n
          BY <2>2, <2>3, <4>2 DEF Towards, Order, Calls
        <5>2. CASE t = s
          BY <2>1, <3>5, <5>1, <5>2 DEF Order, Ahead
        <5>3. CASE t # s
          BY <2>5, <5>1, <5>3 DEF Order, Ahead
        <5> QED
          BY <5>2, <5>3
      <4> QED
        BY <4>1, <4>2
    <3>10. Rows'
      BY <2>1, <2>2, <2>3 DEF Order, Rows
    <3> QED
      BY <3>6, <3>7, <3>8, <3>9, <3>10 DEF Order
  <2> QED
    BY <2>1, <2>6, <2>7
<1>8. ASSUME NEW c \in Stores, NEW i \in Ids, NEW u \in Urns, Store(c, i, u) PROVE Order'
  <2>1. /\ call[c] = None /\ UNCHANGED <<subs, count, stream, era, live>>
        /\ \/ UNCHANGED <<rows, call, last>>
           \/ /\ last' = last + 1
              /\ rows' = [rows EXCEPT ![i] = rows'[i]]
              /\ rows'[i].urn = u /\ rows'[i].stamp = last + 1 /\ rows'[i].era = era[u]
              /\ call' = [call EXCEPT ![c] = call'[c]]
              /\ call'[c].urn = u /\ call'[c].stamp = last + 1 /\ call'[c].era = era[u]
              /\ call'[c].phase = "committed"
    BY <1>8, StoreFacts DEF Core
  <2>2. CASE UNCHANGED <<rows, call, last>>
    BY <1>1, <1>4, <2>1, <2>2
  <2>3. CASE ~UNCHANGED <<rows, call, last>>
    <3>1. /\ \A d \in Stores : d # c => call'[d] = call[d]
          /\ \A j \in Ids : j # i => rows'[j] = rows[j]
          /\ last \in Nat /\ last' = last + 1
          /\ \A k \in 1..last : k \in 1..last' /\ k # last + 1
          /\ last + 1 \in 1..last'
      BY <2>1, <2>3 DEF Core, TypeOK
    <3>2. \A t \in Streams : Open(t)' = Open(t) /\ Offered(t)' = Offered(t)
                             /\ (Distinct(t) => Distinct(t)')
      BY <2>1 DEF Open, Offered, Queued, Distinct
    <3>3. Offers' /\ PushedOnce'
      BY <3>1, <3>2 DEF Order, Offers, PushedOnce, Distinct
    <3>4. Calls'
      BY <2>1, <2>3, <3>1 DEF Order, Calls
    <3>5. Ahead'
      <4> SUFFICES ASSUME NEW d \in Stores, NEW t \in Streams, Towards(d, t)', Open(t)'
          PROVE  call'[d].stamp \notin Offered(t)'
        BY DEF Ahead
      <4>1. CASE d = c
        BY <2>1, <2>3, <3>1, <3>2, <4>1 DEF Order, Offers
      <4>2. CASE d # c
        <5>1. Towards(d, t) /\ call'[d] = call[d]
          BY <3>1, <4>2 DEF Towards
        <5> QED
          BY <3>2, <5>1 DEF Order, Ahead
      <4> QED
        BY <4>1, <4>2
    <3>6. Rows'
      <4> SUFFICES ASSUME NEW j \in Ids, rows'[j] # None
          PROVE  /\ rows'[j].stamp \in 1..last' /\ rows'[j].era <= era'[rows'[j].urn]
                 /\ \A d \in Stores : call'[d] # None /\ call'[d].stamp = rows'[j].stamp =>
                      call'[d].urn = rows'[j].urn /\ call'[d].era = rows'[j].era
        BY DEF Rows
      <4>1. CASE j = i
        <5>1. \A d \in Stores : call'[d] # None /\ call'[d].stamp = last + 1 => d = c
          BY <3>1 DEF Order, Calls
        <5>2. era[u] <= era[u]
          BY DEF Core, TypeOK
        <5> QED
          BY <2>1, <2>3, <3>1, <4>1, <5>1, <5>2
      <4>2. CASE j # i
        <5>1. rows'[j] = rows[j] /\ rows[j].stamp # last + 1
          BY <3>1, <4>2 DEF Order, Rows
        <5> QED
          BY <2>1, <2>3, <3>1, <5>1 DEF Order, Rows
      <4> QED
        BY <4>1, <4>2
    <3> QED
      BY <3>3, <3>4, <3>5, <3>6 DEF Order
  <2> QED
    BY <2>2, <2>3
<1>9. ASSUME NEW i \in Ids, NEW u \in Urns, Ack(u, i) PROVE Order'
  <2>1. rows[i] \in Row /\ UNCHANGED <<stream, call, era, last>>
    BY <1>9 DEF Ack, Pending, Waiting, Core, TypeOK
  <2>2. /\ \A j \in Ids : j # i => rows'[j] = rows[j]
        /\ rows'[i].stamp = rows[i].stamp
        /\ rows'[i].urn = rows[i].urn /\ rows'[i].era = rows[i].era
    BY <1>9, <2>1 DEF Ack, Core, TypeOK, Row
  <2>3. rows[i] # None
    BY <1>9 DEF Ack, Pending, Waiting
  <2> QED
    BY <1>1, <1>4, <2>1, <2>2, <2>3
<1>10. ASSUME NEW i \in Ids, Remove(i) PROVE Order'
  <2>1. /\ UNCHANGED <<stream, call, era, last>>
        /\ \A j \in Ids : rows'[j] # None => rows'[j] = rows[j]
    BY <1>10 DEF Remove, Core, TypeOK
  <2> QED
    BY <1>1, <1>4, <2>1
<1>11. ASSUME NEW u \in Urns, EnrollManaged(u) PROVE Order'
  <2>1. /\ UNCHANGED <<stream, call, rows, last>>
        /\ \A v \in Urns : era[v] <= era'[v]
    BY <1>11 DEF EnrollManaged, Core, TypeOK
  <2>2. \A i \in Ids : rows[i] # None => rows[i].urn \in Urns
    BY DEF Core, TypeOK, Row
  <2> QED
    BY <1>4, <2>1, <2>2
<1>12. ASSUME (\E s \in Streams : Leave(s)) \/ (\E u \in Urns : RenewManaged(u) \/ RevokeManaged(u))
              \/ Crash \/ UNCHANGED vars
       PROVE  Order'
  <2>1. UNCHANGED <<rows, era>>
    BY <1>12 DEF Leave, RenewManaged, RevokeManaged, Crash, vars
  <2>2. UNCHANGED <<stream, call, last>> \/ (\E s \in Streams : Leave(s)) \/ Crash
    BY <1>12 DEF RenewManaged, RevokeManaged, vars
  <2> QED
    BY <1>1, <1>4, <2>1, <2>2
<1> QED
  BY <1>2, <1>3, <1>5, <1>6, <1>7, <1>8, <1>9, <1>10, <1>11, <1>12
     DEF Next, Loop, Notify, Within

\* A stream is offered a stored message once, however often the sender
\* retries (store.go:196-198, :249, :268).
THEOREM Once == Spec => []PushedOnce
<1>1. Order => PushedOnce
  BY DEF Order
<1> QED
  BY <1>1, CoreInit, CoreStep, OrderInit, OrderStep, PTL DEF Spec

-----------------------------------------------------------------------------
(* Subscribing, then retrieving, leaves no gap.                            *)

\* What has become known of messages to the stream.
Accounted(s) == Offered(s) \cup stream[s].known \cup missed[s]

\* The body of NoGap for one stream and one row.
Covered(s, i) ==
  \/ rows[i].stamp \in Accounted(s)
  \/ InFlight(s, rows[i].stamp)

LEMMA CoveredIsNoGap ==
  NoGap <=> \A s \in Streams : Open(s) /\ stream[s].fetched =>
              \A i \in Waiting(stream[s].urn) : Covered(s, i)
BY DEF NoGap, Covered, Accounted, Offered

\* The steps that add no waiting row and no stream, and lose nothing.
LEMMA NoLoss ==
  ASSUME NoGap,
         \A s \in Streams : Open(s)' /\ stream'[s].fetched =>
           /\ Open(s) /\ stream[s].fetched /\ stream'[s].urn = stream[s].urn
           /\ \A i \in Waiting(stream[s].urn)' :
                /\ i \in Waiting(stream[s].urn) /\ rows'[i].stamp = rows[i].stamp
                /\ Covered(s, i) => Covered(s, i)'
  PROVE  NoGap'
BY CoveredIsNoGap DEF NoGap, Covered, Accounted, Offered, Waiting

LEMMA NoGapStep == Core /\ Order /\ NoGap /\ [Next]_vars => NoGap'
<1> SUFFICES ASSUME Core, Order, NoGap, [Next]_vars PROVE NoGap'
  OBVIOUS
<1> USE LimitsAssumption, NoneAssumption
<1>1. ASSUME UNCHANGED <<rows, era, live>>,
             \A s \in Streams : Open(s)' /\ stream'[s].fetched =>
               /\ Open(s) /\ stream[s].fetched /\ stream'[s].urn = stream[s].urn
               /\ \A i \in Waiting(stream[s].urn) : Covered(s, i) => Covered(s, i)'
      PROVE  NoGap'
  <2>1. \A u : Waiting(u)' = Waiting(u)
    BY <1>1 DEF Waiting, Certified
  <2> QED
    BY <1>1, <2>1, NoLoss DEF Waiting
<1>2. ASSUME NEW s \in Streams, Within(s) PROVE NoGap'
  <2>1. /\ UNCHANGED <<subs, count, rows, call, era, live, from, last>> /\ Remembers
        /\ Open(s) /\ stream' = [stream EXCEPT ![s] = stream'[s]]
        /\ stream'[s].urn = stream[s].urn
        /\ stream[s].known \subseteq stream'[s].known
        /\ \/ stream'[s].fetched = stream[s].fetched
           \/ \A i \in Waiting(stream[s].urn) :
                rows[i].stamp \in stream'[s].known \cup missed'[s]
        /\ Offered(s)' = Offered(s)
    BY <1>2, WithinFacts DEF Core
  <2>2. \A t \in Streams : t # s => stream'[t] = stream[t]
    BY <2>1 DEF Core, TypeOK
  <2>3. \A u : Waiting(u)' = Waiting(u)
    BY <2>1 DEF Waiting, Certified
  <2>4. \A t \in Streams : \A n : InFlight(t, n)' = InFlight(t, n)
    BY <2>1 DEF InFlight
  <2>5. ASSUME NEW t \in Streams, Open(t)', stream'[t].fetched,
               NEW i \in Waiting(stream[t].urn)'
        PROVE  Covered(t, i)'
    <3>1. CASE t # s
      <4>1. Open(t) /\ stream[t].fetched /\ i \in Waiting(stream[t].urn)
        BY <2>2, <2>3, <2>5, <3>1 DEF Open
      <4>2. Covered(t, i)
        BY <4>1, CoveredIsNoGap
      <4> QED
        BY <2>1, <2>2, <2>4, <3>1, <4>2 DEF Covered, Accounted, Offered, Queued, Remembers
    <3>2. CASE t = s
      <4>1. i \in Waiting(stream[s].urn)
        BY <2>1, <2>3, <2>5, <3>2
      <4>2. CASE rows[i].stamp \in stream'[s].known \cup missed'[s]
        BY <2>1, <3>2, <4>2 DEF Covered, Accounted
      <4>3. CASE stream'[s].fetched = stream[s].fetched
        <5>1. Covered(s, i)
          BY <2>1, <2>5, <3>2, <4>1, <4>3, CoveredIsNoGap
        <5> QED
          BY <2>1, <2>4, <3>2, <5>1 DEF Covered, Accounted, Remembers
      <4> QED
        BY <2>1, <4>1, <4>2, <4>3
    <3> QED
      BY <3>1, <3>2
  <2> QED
    BY <2>5, CoveredIsNoGap DEF NoGap, Covered, Accounted, Offered, Waiting
<1>3. ASSUME NEW s \in Streams, NEW u \in Urns, Register(s, u) PROVE NoGap'
  <2>1. /\ UNCHANGED <<rows, call, era, live, missed>> /\ stream'[s].fetched = FALSE
        /\ \A t \in Streams : t # s => stream'[t] = stream[t]
    BY <1>3 DEF Register, Core, TypeOK
  <2>2. \A t \in Streams, i \in Ids : t # s /\ Covered(t, i) => Covered(t, i)'
    BY <2>1 DEF Covered, Accounted, Offered, Queued, InFlight
  <2>3. \A t \in Streams : t # s /\ Open(t)' => Open(t)
    BY <2>1 DEF Open
  <2> QED
    BY <1>1, <2>1, <2>2, <2>3 DEF Waiting
<1>4. ASSUME NEW s \in Streams, Leave(s) PROVE NoGap'
  <2>1. /\ UNCHANGED <<rows, call, era, live>>
        /\ \A t \in Streams : stream'[t] = IF t = s THEN None ELSE stream[t]
        /\ \A t \in Streams : t # s => missed'[t] = missed[t]
    BY <1>4 DEF Leave, Core, TypeOK
  <2>2. \A t \in Streams, i \in Ids : t # s /\ Covered(t, i) => Covered(t, i)'
    BY <2>1 DEF Covered, Accounted, Offered, Queued, InFlight
  <2>3. \A t \in Streams : Open(t)' => t # s /\ Open(t)
    BY <2>1 DEF Open
  <2> QED
    BY <1>1, <2>1, <2>2, <2>3 DEF Waiting
<1>5. ASSUME NEW c \in Stores, NotifyBegin(c) PROVE NoGap'
  <2>1. call[c] \in Call /\ UNCHANGED <<subs, stream, rows, era, live, missed>>
    BY <1>5 DEF NotifyBegin, Core, TypeOK
  <2>2. /\ call[c] # None /\ call'[c] # None
        /\ call'[c].stamp = call[c].stamp /\ call'[c].todo = subs[call[c].urn]
    BY <1>5, <2>1 DEF NotifyBegin, Core, TypeOK, Call
  <2>3. \A d \in Stores : d # c => call'[d] = call[d]
    BY <1>5 DEF NotifyBegin, Core, TypeOK
  <2>4. ASSUME NEW t \in Streams, Open(t), NEW i \in Waiting(stream[t].urn), Covered(t, i)
        PROVE  Covered(t, i)'
    <3>1. rows[i] # None /\ i \in Ids /\ rows[i].urn = stream[t].urn
      BY <2>4 DEF Waiting
    <3>2. rows'[i].stamp = rows[i].stamp /\ stream'[t] = stream[t] /\ Offered(t)' = Offered(t)
      BY <2>1 DEF Offered, Queued
    <3>3. ASSUME InFlight(t, rows[i].stamp) PROVE InFlight(t, rows[i].stamp)'
      <4>1. PICK d \in Stores : /\ call[d] # None /\ call[d].stamp = rows[i].stamp
                                /\ call[d].phase = "sending" => t \in call[d].todo
        BY <3>3 DEF InFlight
      <4>2. CASE d # c
        BY <2>1, <2>3, <4>1, <4>2 DEF InFlight
      <4>3. CASE d = c
        <5>1. call[c].urn = rows[i].urn
          BY <3>1, <4>1, <4>3 DEF Order, Rows
        <5>2. t \in subs[call[c].urn]
          BY <2>1, <2>4, <3>1, <5>1 DEF Core, Lists, Call
        <5> QED
          BY <2>1, <2>2, <4>1, <4>3, <5>2 DEF InFlight
      <4> QED
        BY <4>2, <4>3
    <3> QED
      BY <2>1, <2>4, <3>2, <3>3 DEF Covered, Accounted
  <2> QED
    BY <1>1, <2>1, <2>4 DEF Open
<1>6. ASSUME NEW c \in Stores, NotifyRefused(c) \/ NotifyFailed(c) \/ NotifyEnd(c)
      PROVE  NoGap'
  <2>1. /\ UNCHANGED <<subs, stream, rows, era, live>> /\ Remembers
        /\ call' = [call EXCEPT ![c] = None]
    <3>1. CASE GiveUp(c)
      BY <3>1, GiveUpFacts DEF Core
    <3>2. CASE NotifyEnd(c)
      BY <3>2 DEF NotifyEnd, Core, TypeOK, Remembers
    <3> QED
      BY <1>6, <3>1, <3>2 DEF NotifyRefused, NotifyFailed
  <2>2. \A d \in Stores : d # c => call'[d] = call[d]
    BY <2>1 DEF Core, TypeOK
  <2>3. ASSUME NEW t \in Streams, Open(t), NEW i \in Waiting(stream[t].urn), Covered(t, i)
        PROVE  Covered(t, i)'
    <3>1. rows[i] # None /\ i \in Ids /\ rows[i].urn = stream[t].urn
      BY <2>3 DEF Waiting
    <3>2. /\ rows'[i].stamp = rows[i].stamp /\ stream'[t] = stream[t]
          /\ Offered(t)' = Offered(t) /\ missed[t] \subseteq missed'[t]
      BY <2>1 DEF Offered, Queued, Remembers
    <3>3. ASSUME InFlight(t, rows[i].stamp) PROVE Covered(t, i)'
      <4>1. PICK d \in Stores : /\ call[d] # None /\ call[d].stamp = rows[i].stamp
                                /\ call[d].phase = "sending" => t \in call[d].todo
        BY <3>3 DEF InFlight
      <4>2. CASE d # c
        BY <2>1, <2>2, <4>1, <4>2 DEF InFlight, Covered, Accounted
      <4>3. CASE d = c /\ GiveUp(c)
        <5>1. call[c].urn = stream[t].urn
          BY <3>1, <4>1, <4>3 DEF Order, Rows
        <5>2. t \in subs[call[c].urn]
          BY <2>3, <4>3, <5>1, GiveUpFacts DEF Core, Lists, Call
        <5> QED
          BY <3>2, <4>1, <4>3, <5>2, GiveUpFacts DEF Core, Covered, Accounted
      <4>4. ~(d = c /\ NotifyEnd(c))
        BY <4>1 DEF NotifyEnd, Sending
      <4> QED
        BY <1>6, <4>2, <4>3, <4>4 DEF NotifyRefused, NotifyFailed
    <3> QED
      BY <2>3, <3>2, <3>3 DEF Covered, Accounted
  <2> QED
    BY <1>1, <2>1, <2>3 DEF Open
<1>7. ASSUME NEW c \in Stores, NotifySend(c) PROVE NoGap'
  <2>1. PICK s \in call[c].todo :
           /\ s \in Streams /\ Open(s)
           /\ call' = [call EXCEPT ![c] = call'[c]] /\ call'[c] \in Call
           /\ call'[c].stamp = call[c].stamp /\ call'[c].phase = "sending"
           /\ call'[c].todo = call[c].todo \ {s}
           /\ stream' = [stream EXCEPT ![s] = stream'[s]]
           /\ stream'[s].urn = stream[s].urn /\ stream'[s].taken = stream[s].taken
           /\ stream'[s].fetched = stream[s].fetched
           /\ stream'[s].known = stream[s].known /\ Remembers
           /\ \/ stream'[s].chan = Append(stream[s].chan, call[c].stamp)
              \/ /\ stream'[s].chan = stream[s].chan
                 /\ call[c].stamp \in missed'[s]
           /\ UNCHANGED <<subs, count, rows, era, live, from, last>>
    BY <1>7, NotifySendFacts DEF Core
  <2>2. /\ call[c] # None /\ call[c].phase = "sending" /\ call[c] \in Call
        /\ call'[c] # None
    BY <1>7, <2>1 DEF NotifySend, Sending, Core, TypeOK
  <2>3. \A d \in Stores : d # c => call'[d] = call[d]
    BY <2>1 DEF Core, TypeOK
  <2>4. \A t \in Streams : t # s => stream'[t] = stream[t]
    BY <2>1 DEF Core, TypeOK
  <2>5. /\ Accounted(s) \subseteq Accounted(s)'
        /\ call[c].stamp \in Accounted(s)'
    <3>0. missed[s] \subseteq missed'[s]
      BY <2>1 DEF Remembers
    <3>1. CASE call[c].stamp \in missed'[s] /\ stream'[s].chan = stream[s].chan
      BY <2>1, <3>0, <3>1 DEF Accounted, Offered, Queued
    <3>2. CASE stream'[s].chan = Append(stream[s].chan, call[c].stamp)
      <4>1. stream[s].chan \in Seq(Stamps) /\ call[c].stamp \in Stamps
        BY <2>1, <2>2 DEF Core, TypeOK, Open, Stream, Call
      <4>2. Queued(s) \subseteq Queued(s)' /\ call[c].stamp \in Queued(s)'
        <5> DEFINE q == stream[s].chan
                   n == call[c].stamp
        <5>1. /\ Len(Append(q, n)) = Len(q) + 1 /\ Len(q) \in Nat
              /\ \A i \in 1..Len(q) : Append(q, n)[i] = q[i]
              /\ Append(q, n)[Len(q) + 1] = n
          BY <4>1, AppendFacts
        <5>2. Queued(s)' = {Append(q, n)[i] : i \in 1..(Len(q) + 1)}
          BY <3>2, <5>1 DEF Queued
        <5>3. Queued(s) = {q[i] : i \in 1..Len(q)}
          BY DEF Queued
        <5>4. Len(q) + 1 \in 1..(Len(q) + 1) /\ 1..Len(q) \subseteq 1..(Len(q) + 1)
          BY <5>1
        <5> QED
          BY <5>1, <5>2, <5>3, <5>4
      <4> QED
        BY <2>1, <3>0, <4>2 DEF Accounted, Offered
    <3> QED
      BY <2>1, <3>1, <3>2
  <2>6. ASSUME NEW t \in Streams, Open(t), NEW i \in Waiting(stream[t].urn), Covered(t, i)
        PROVE  Covered(t, i)'
    <3>1. rows'[i].stamp = rows[i].stamp
      BY <2>1
    <3>2. ASSUME rows[i].stamp \in Accounted(t) PROVE Covered(t, i)'
      <4>1. CASE t = s
        BY <2>5, <3>1, <3>2, <4>1 DEF Covered, Accounted
      <4>2. CASE t # s
        BY <2>1, <2>4, <3>1, <3>2, <4>2 DEF Covered, Accounted, Offered, Queued, Remembers
      <4> QED
        BY <4>1, <4>2
    <3>3. ASSUME InFlight(t, rows[i].stamp) PROVE Covered(t, i)'
      <4>1. PICK d \in Stores : /\ call[d] # None /\ call[d].stamp = rows[i].stamp
                                /\ call[d].phase = "sending" => t \in call[d].todo
        BY <3>3 DEF InFlight
      <4>2. CASE d # c
        BY <2>3, <3>1, <4>1, <4>2 DEF Covered, InFlight
      <4>3. CASE d = c /\ t = s
        BY <2>5, <3>1, <4>1, <4>3 DEF Covered, Accounted
      <4>4. CASE d = c /\ t # s
        <5>1. t \in call'[c].todo
          BY <2>1, <2>2, <4>1, <4>4
        <5>2. InFlight(t, rows[i].stamp)'
          BY <2>1, <2>2, <3>1, <4>1, <4>4, <5>1 DEF InFlight
        <5> QED
          BY <5>2 DEF Covered, Accounted
      <4> QED
        BY <4>2, <4>3, <4>4
    <3> QED
      BY <2>6, <3>2, <3>3 DEF Covered, Accounted
  <2>7. \A t \in Streams : Open(t)' => /\ Open(t) /\ stream'[t].urn = stream[t].urn
                                       /\ stream'[t].fetched = stream[t].fetched
    BY <2>1, <2>4 DEF Open
  <2> QED
    BY <1>1, <2>1, <2>6, <2>7
<1>8. ASSUME NEW c \in Stores, NEW i \in Ids, NEW u \in Urns, Store(c, i, u) PROVE NoGap'
  <2>1. /\ call[c] = None /\ UNCHANGED <<subs, count, stream, era, live, missed>>
        /\ \/ UNCHANGED <<rows, call, last>>
           \/ /\ rows[i] = None
              /\ rows' = [rows EXCEPT ![i] = rows'[i]]
              /\ rows'[i].stamp = last + 1
              /\ call' = [call EXCEPT ![c] = call'[c]] /\ call'[c] \in Call
              /\ call'[c].stamp = last + 1 /\ call'[c].phase = "committed"
    BY <1>8, StoreFacts DEF Core
  <2>2. CASE UNCHANGED <<rows, call, last>>
    <3>1. \A t \in Streams, j \in Ids : Covered(t, j) => Covered(t, j)'
      BY <2>1, <2>2 DEF Covered, Accounted, Offered, Queued, InFlight
    <3> QED
      BY <1>1, <2>1, <2>2, <3>1 DEF Open, Waiting
  <2>3. CASE ~UNCHANGED <<rows, call, last>>
    <3>1. /\ \A d \in Stores : d # c => call'[d] = call[d]
          /\ \A j \in Ids : j # i => rows'[j] = rows[j]
          /\ call'[c] # None
      BY <2>1, <2>3 DEF Core, TypeOK
    <3>2. ASSUME NEW t \in Streams, Open(t)', stream'[t].fetched,
                 NEW j \in Waiting(stream[t].urn)'
          PROVE  Covered(t, j)'
      <4>1. CASE j = i
        BY <2>1, <2>3, <3>1, <4>1 DEF Covered, InFlight
      <4>2. CASE j # i
        <5>1. /\ Open(t) /\ stream[t].fetched /\ j \in Waiting(stream[t].urn)
              /\ rows'[j] = rows[j]
          BY <2>1, <3>1, <3>2, <4>2 DEF Open, Waiting, Certified
        <5>2. Covered(t, j)
          BY <5>1, CoveredIsNoGap
        <5>3. ASSUME InFlight(t, rows[j].stamp) PROVE InFlight(t, rows[j].stamp)'
          <6>1. PICK d \in Stores : /\ call[d] # None /\ call[d].stamp = rows[j].stamp
                                    /\ call[d].phase = "sending" => t \in call[d].todo
            BY <5>3 DEF InFlight
          <6>2. d # c
            BY <2>1, <6>1
          <6> QED
            BY <3>1, <5>1, <6>1, <6>2 DEF InFlight
        <5> QED
          BY <2>1, <5>1, <5>2, <5>3 DEF Covered, Accounted, Offered, Queued
      <4> QED
        BY <4>1, <4>2
    <3> QED
      BY <3>2, CoveredIsNoGap DEF NoGap, Covered, Accounted, Offered, Waiting
  <2> QED
    BY <2>2, <2>3
<1>9. ASSUME UNCHANGED <<stream, call, missed>>,
             \A u \in Urns : \A i \in Waiting(u)' :
               i \in Waiting(u) /\ rows'[i].stamp = rows[i].stamp
      PROVE  NoGap'
  <2>1. \A s \in Streams : Open(s) => stream[s].urn \in Urns
    BY DEF Core, TypeOK, Open, Stream
  <2>2. \A s \in Streams : Open(s)' = Open(s)
    BY <1>9 DEF Open
  <2>3. \A s \in Streams : \A i : rows'[i].stamp = rows[i].stamp /\ Covered(s, i) => Covered(s, i)'
    BY <1>9 DEF Covered, Accounted, Offered, Queued, InFlight
  <2> QED
    BY <1>9, <2>1, <2>2, <2>3, NoLoss
<1>10. ASSUME NEW i \in Ids, NEW u \in Urns, Ack(u, i) PROVE NoGap'
  <2>1. rows[i] \in Row /\ UNCHANGED <<stream, call, era, live, missed>>
    BY <1>10 DEF Ack, Pending, Waiting, Core, TypeOK
  <2>2. /\ \A j \in Ids : j # i => rows'[j] = rows[j]
        /\ rows'[i].read = TRUE
    BY <1>10, <2>1 DEF Ack, Core, TypeOK, Row
  <2>3. \A v \in Urns : \A j \in Waiting(v)' :
          j \in Waiting(v) /\ rows'[j].stamp = rows[j].stamp
    BY <2>1, <2>2 DEF Waiting, Certified
  <2> QED
    BY <1>9, <2>1, <2>3
<1>11. ASSUME NEW i \in Ids, Remove(i) PROVE NoGap'
  <2>1. /\ UNCHANGED <<stream, call, era, live, missed>>
        /\ \A j \in Ids : rows'[j] # None => rows'[j] = rows[j]
    BY <1>11 DEF Remove, Core, TypeOK
  <2>2. \A v \in Urns : \A j \in Waiting(v)' :
          j \in Waiting(v) /\ rows'[j].stamp = rows[j].stamp
    BY <2>1 DEF Waiting, Certified
  <2> QED
    BY <1>9, <2>1, <2>2
<1>12. ASSUME NEW u \in Urns, EnrollManaged(u) PROVE NoGap'
  <2>1. /\ UNCHANGED <<stream, call, rows, missed>>
        /\ \A v \in Urns : v # u => era'[v] = era[v] /\ live'[v] = live[v]
        /\ era'[u] = era[u] + 1
    BY <1>12 DEF EnrollManaged, Core, TypeOK
  <2>2. \A j \in Ids : rows[j] # None /\ rows[j].urn = u => rows[j].era # era[u] + 1
    <3>1. \A j \in Ids : rows[j] # None => rows[j].era \in Nat /\ era[u] \in Nat
      BY DEF Core, TypeOK, Row
    <3> QED
      BY <3>1 DEF Order, Rows
  <2>3. \A v \in Urns : \A j \in Waiting(v)' :
          j \in Waiting(v) /\ rows'[j].stamp = rows[j].stamp
    BY <2>1, <2>2 DEF Waiting, Certified
  <2> QED
    BY <1>9, <2>1, <2>3
<1>13. ASSUME NEW u \in Urns, RevokeManaged(u) PROVE NoGap'
  <2>1. /\ UNCHANGED <<stream, call, rows, era, missed>>
        /\ \A v \in Urns : live'[v] => live[v]
    BY <1>13 DEF RevokeManaged, Core, TypeOK
  <2>2. \A v \in Urns : \A j \in Waiting(v)' :
          j \in Waiting(v) /\ rows'[j].stamp = rows[j].stamp
    BY <2>1 DEF Waiting, Certified
  <2> QED
    BY <1>9, <2>1, <2>2
<1>14. CASE Crash
  BY <1>14 DEF Crash, NoGap, Open
<1>15. CASE UNCHANGED vars
  <2>1. \A v \in Urns : \A j \in Waiting(v)' :
          j \in Waiting(v) /\ rows'[j].stamp = rows[j].stamp
    BY <1>15 DEF vars, Waiting, Certified
  <2> QED
    BY <1>9, <1>15, <2>1 DEF vars
<1>16. ASSUME NEW u \in Urns, RenewManaged(u) PROVE NoGap'
  <2>1. UNCHANGED <<stream, call, rows, era, live, missed>>
    BY <1>16 DEF RenewManaged
  <2>2. \A v \in Urns : \A j \in Waiting(v)' :
          j \in Waiting(v) /\ rows'[j].stamp = rows[j].stamp
    BY <2>1 DEF Waiting, Certified
  <2> QED
    BY <1>9, <2>1, <2>2
<1> QED
  BY <1>2, <1>3, <1>4, <1>5, <1>6, <1>7, <1>8, <1>10, <1>11, <1>12, <1>13, <1>14, <1>15, <1>16
     DEF Next, Loop, Notify, Within

\* A client that subscribes and then retrieves has every message that it may
\* still see accounted for: NotifySubscribers copies the list after the commit
\* (store.go:268, :333-334), and Register takes the same lock (:284).  What is
\* neither retrieved nor on its way was missed in one of three ways: a full
\* channel (:339), a failed lookup (:325), or a renewed certificate that hid it.
THEOREM GapFree == Spec => []NoGap
<1>1. Init => NoGap
  BY DEF Init, NoGap, Open
<1> QED
  BY <1>1, CoreInit, CoreStep, OrderInit, OrderStep, NoGapStep, PTL DEF Spec
=============================================================================
