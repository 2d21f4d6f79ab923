---------------------------- MODULE MCV2Admission ----------------------------
(* Small instances of V2Admission. *)
EXTENDS V2Admission, TLC

CONSTANTS alice, bob, m1, m2

Inspecting == [epoch |-> 1, expiry |-> 9, compliance |-> TRUE]
Uninspected == [epoch |-> 2, expiry |-> 4, compliance |-> FALSE]
MCPolicies == {Inspecting, Uninspected}

MCEnvelope(i, t, p, b) ==
    [id |-> i, recipient |-> alice, expiry |-> t, policy |-> p, bytes |-> b]

\* Two envelopes under one ID, and one of the next policy under that ID too.
MCConflicting ==
    {MCEnvelope(m1, 3, Inspecting, 1), MCEnvelope(m1, 4, Inspecting, 2),
     MCEnvelope(m1, 4, Uninspected, 3)}

\* One envelope, sent again and again.
MCOne == {MCEnvelope(m1, 2, Inspecting, 1)}

\* A second message of the same recipient.
Second == MCEnvelope(m2, 3, Inspecting, 1)
MCEnvelopes == MCConflicting \cup {Second}

\* Calls of the client that sends e have begun or been answered.
Sent(e) == answers[e] # {} \/ \E o \in Ops : ops[o] # None /\ ops[o].receipt.env = e

\* Bound: the second message competes for the quota with one envelope of the
\* first and with v1, and then nothing is archived; conflicts and the archive
\* are explored with one message ID.
OneThing ==
    Sent(Second) \/ v1[m2] # None
    => /\ clock <= 3
       /\ days = 0 /\ fileDays = 0 /\ (change # None => change.days = 0)
       /\ \A e \in MCConflicting : Sent(e) => e.bytes = 1

\* Calls in progress differ in their names only.
OpSymmetry == Permutations(Ops)
=============================================================================
