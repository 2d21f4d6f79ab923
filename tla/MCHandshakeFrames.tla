--------------------------- MODULE MCHandshakeFrames ---------------------------
EXTENDS HandshakeFrames, TLC

CONSTANTS f1, f2, f3, u1, b1, b2, c1, c2

ThreeFrames == {f1, f2, f3}
OneUrn      == {u1}
TwoBytes    == {b1, b2}
TwoCalls    == {c1, c2}

ToU1 == [f \in ThreeFrames |-> u1]

\* f1 and f2 are bound to the first policy, f3 to the second.
OfEpoch == [f \in ThreeFrames |-> IF f = f3 THEN 2 ELSE 1]

\* f1 is an Init with an early deadline, the others have none.
Ends == [f \in ThreeFrames |-> IF f = f1 THEN 2 ELSE 9]

Policies == <<3, 4>>

Days == {-1, 0, 1}

Symmetry == Permutations(TwoCalls) \cup Permutations(TwoBytes)
=============================================================================
