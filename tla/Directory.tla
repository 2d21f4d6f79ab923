------------------------------- MODULE Directory -------------------------------
(***************************************************************************)
(* Abstract specification: what the registry promises, without a table,    *)
(* clean-up, poisoned rows, registrations under way, or restarts.          *)
(*                                                                         *)
(* A URN serves one record or none.  A record is served from the moment it *)
(* is published to the end of its lease, unless a newer one replaces it or *)
(* an administrator withdraws it.  Nothing older than what was published   *)
(* before is published again, also when that is long over.  A reader is    *)
(* given what is served at a moment between its question and its answer.   *)
(***************************************************************************)
EXTENDS Naturals

CONSTANTS
    Urns, Readers,
    None   \* nothing served, no question

VARIABLES
    clock,
    served,  \* [Urns -> record or None]; a record has at least ts and expires
    floor,   \* the newest timestamp published since an administrator withdrew
             \* the record; 0: none
    reads    \* [Readers -> question or None]

vars == <<clock, served, floor, reads>>

Init ==
    /\ clock = 1
    /\ \A u \in Urns : served[u] # None => served[u].expires > clock
    /\ floor = [u \in Urns |-> 0]
    /\ reads = [q \in Readers |-> None]

Publish(u) ==
    LET new == served'[u]
    IN  /\ new # None
        /\ new.expires > clock
        /\ new.ts >= floor[u]
        /\ served[u] # None => new.ts >= served[u].ts
        /\ served' = [served EXCEPT ![u] = new]
        /\ floor' = [floor EXCEPT ![u] = new.ts]
        /\ UNCHANGED <<clock, reads>>

Withdraw(S) ==
    /\ served' = [u \in Urns |-> IF u \in S THEN None ELSE served[u]]
    /\ floor' = [u \in Urns |-> IF u \in S THEN 0 ELSE floor[u]]
    /\ UNCHANGED <<clock, reads>>

\* Leases end with the clock, and in no other way.
Tick ==
    /\ clock' = clock + 1
    /\ served' = [u \in Urns |->
           IF served[u] # None /\ served[u].expires <= clock' THEN None ELSE served[u]]
    /\ UNCHANGED <<floor, reads>>

Ask(q, u) ==
    /\ reads[q] = None
    /\ reads' = [reads EXCEPT ![q] = [urn |-> u, done |-> FALSE, answer |-> None]]
    /\ UNCHANGED <<clock, served, floor>>

Answer(q) ==
    /\ reads[q] # None /\ ~reads[q].done
    /\ reads' = [reads EXCEPT ![q] = [urn |-> reads[q].urn, done |-> TRUE,
                                      answer |-> served[reads[q].urn]]]
    /\ UNCHANGED <<clock, served, floor>>

\* Answers reach their readers, or questions are lost.
Forget(Q) ==
    /\ reads' = [q \in Readers |-> IF q \in Q THEN None ELSE reads[q]]
    /\ UNCHANGED <<clock, served, floor>>

Next ==
    \/ \E u \in Urns : Publish(u)
    \/ \E S \in SUBSET Urns : Withdraw(S)
    \/ Tick
    \/ \E q \in Readers : Answer(q) \/ \E u \in Urns : Ask(q, u)
    \/ \E Q \in SUBSET Readers : Forget(Q)

Spec == Init /\ [][Next]_vars
=============================================================================
