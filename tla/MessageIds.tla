------------------------------ MODULE MessageIds ------------------------------
(***************************************************************************)
(* Abstract specification: what the four ID-keyed tables of the message     *)
(* queue promise together, without tables, calls, locks or clean-up.        *)
(*                                                                          *)
(* A message ID is free or has one owner: a v2 envelope, or something else  *)
(* (a v1 message).  It changes owners only by becoming free.  Senders are   *)
(* given receipts for the owner only.  A binding envelope (one admitted in  *)
(* compliance mode) that was answered keeps its ID, and its one receipt,    *)
(* until it expires.                                                        *)
(***************************************************************************)
EXTENDS Naturals

CONSTANTS
    Ids,
    Envelopes,  \* owners that are answered; each names its ID and its expiry
    Others,     \* owners that are not
    Binding,    \* the envelopes whose receipts are promises
    Free

VARIABLES
    clock,
    owner,      \* [Ids -> Envelopes \cup Others \cup {Free}]
    receipts    \* the receipts given for each envelope

vars == <<clock, owner, receipts>>

Promised(e) == e \in Binding /\ clock < e.expiry

Init ==
    /\ clock = 1
    /\ owner = [i \in Ids |-> Free]
    /\ receipts = [e \in Envelopes |-> {}]

Tick ==
    /\ clock' = clock + 1
    /\ UNCHANGED <<owner, receipts>>

\* The first receipt, the same one again or, once no promise is left, another.
Answer(e) ==
    /\ receipts' = [receipts EXCEPT ![e] = receipts'[e]]
    /\ receipts[e] \subseteq receipts'[e]
    /\ Promised(e) => \A r, s \in receipts'[e] : r = s

Admit(e) ==
    /\ owner[e.id] = Free
    /\ owner' = [owner EXCEPT ![e.id] = e]
    /\ Answer(e)
    /\ UNCHANGED clock

Occupy(i, x) ==
    /\ owner[i] = Free
    /\ owner' = [owner EXCEPT ![i] = x]
    /\ UNCHANGED <<clock, receipts>>

Repeat(e) ==
    /\ owner[e.id] = e
    /\ Answer(e)
    /\ UNCHANGED <<clock, owner>>

Release(S) ==
    /\ \A e \in Envelopes :
           e.id \in S /\ owner[e.id] = e /\ Promised(e) => receipts[e] = {}
    /\ owner' = [i \in Ids |-> IF i \in S THEN Free ELSE owner[i]]
    /\ UNCHANGED <<clock, receipts>>

Next ==
    \/ Tick
    \/ \E e \in Envelopes : Admit(e) \/ Repeat(e)
    \/ \E i \in Ids, x \in Others : Occupy(i, x)
    \/ \E S \in SUBSET Ids : Release(S)

Spec == Init /\ [][Next]_vars
=============================================================================
