----------------------------- MODULE TokenBuckets -----------------------------
(***************************************************************************)
(* Abstract specification: what a rate limit is.  Every source has one     *)
(* bucket for ever, which fills at Rate and holds Full; what is admitted   *)
(* costs Cost.  There is no table, no clean-up and no request under way.   *)
(* A refusal is a step that changes nothing.                               *)
(***************************************************************************)
EXTENDS Integers

CONSTANTS Sources, Full, Rate, Cost

VARIABLES
    clock,
    level,     \* [Sources -> 0..Full]
    start,     \* the beginning of a window of observation
    admitted   \* how many requests each source was admitted for in the window

vars == <<clock, level, start, admitted>>

Capped(n) == IF n <= Full THEN n ELSE Full

Init ==
    /\ clock = 0 /\ start = 0
    /\ level = [s \in Sources |-> Full]
    /\ admitted = [s \in Sources |-> 0]

Fill ==
    /\ clock' = clock + 1
    /\ level' = [s \in Sources |-> Capped(level[s] + Rate)]
    /\ UNCHANGED <<start, admitted>>

Admit(s) ==
    /\ level[s] >= Cost
    /\ level' = [level EXCEPT ![s] = @ - Cost]
    /\ admitted' = [admitted EXCEPT ![s] = @ + 1]
    /\ UNCHANGED <<clock, start>>

Observe ==
    /\ start' = clock
    /\ admitted' = [s \in Sources |-> 0]
    /\ UNCHANGED <<clock, level>>

Next == Fill \/ Observe \/ \E s \in Sources : Admit(s)

Spec == Init /\ [][Next]_vars

-----------------------------------------------------------------------------
TypeOK ==
    /\ clock \in Nat /\ start \in 0..clock
    /\ level \in [Sources -> 0..Full]
    /\ admitted \in [Sources -> Nat]

\* What was admitted in a window and what is left do not exceed a full bucket
\* and what flowed in meanwhile.
Conserved ==
    \A s \in Sources : Cost * admitted[s] + level[s] <= Full + Rate * (clock - start)
=============================================================================
