------------------------------ MODULE MCRegistry ------------------------------
(* Small instances of Registry. *)
EXTENDS Registry, TLC

\* A poisoned row dated in the future, an unsigned row without expiry, and an
\* authentic row near its end.
MCLegacy ==
    {[ts |-> 9, stores |-> FALSE, authentic |-> FALSE, expires |-> 5],
     [ts |-> 0, stores |-> FALSE, authentic |-> FALSE, expires |-> 0],
     [ts |-> 1, stores |-> TRUE, authentic |-> TRUE, expires |-> 2]}

\* While forwarding is off, readers of storing platforms' records are turned
\* away and nothing else differs.
Forwarding == forward

\* Calls in progress differ in their names only.
CallSymmetry == Permutations(Calls)
=============================================================================
