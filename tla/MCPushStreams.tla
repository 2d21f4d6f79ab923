----------------------------- MODULE MCPushStreams -----------------------------
EXTENDS PushStreams, TLC

CONSTANTS u1, i1, s1, s2, s3, c1, c2

OneUrn       == {u1}
OneId        == {i1}
OneStream    == {s1}
ThreeStreams == {s1, s2, s3}
OneStore     == {c1}
TwoStores    == {c1, c2}

\* Streams and calls are interchangeable.
Symmetry == Permutations(ThreeStreams) \cup Permutations(TwoStores)

\* The bound of the main run: one stream at a time grows old or ends, and none
\* after a second enrolment, which comes after a message.
Troubled(s) == Open(s) /\ (stream[s].age > 0 \/ Over(s))
Bound ==
  /\ \A s, t \in Streams : Troubled(s) /\ Troubled(t) => s = t
  /\ \A u \in Urns : era[u] > 1 => last > 0 /\ \A s \in Streams : ~Troubled(s)
===============================================================================
