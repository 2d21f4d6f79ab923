-------------------------- MODULE MCManagedMailbox --------------------------
(* Small instances of ManagedMailbox. *)
EXTENDS ManagedMailbox, TLC

CONSTANTS console, agent, peer, m1, m2, s1, s2, s3, i1, i2, h1, h2, h3, h4

\* Open, then strict, then strict under a rotated issuer; a second document of
\* epoch 2 that would reopen v1.
MCPolicies ==
    {[epoch |-> 1, hash |-> h1, expiry |-> 9, require |-> FALSE, issuer |-> i1],
     [epoch |-> 2, hash |-> h2, expiry |-> 9, require |-> TRUE, issuer |-> i1],
     [epoch |-> 2, hash |-> h3, expiry |-> 9, require |-> FALSE, issuer |-> i1],
     [epoch |-> 3, hash |-> h4, expiry |-> 4, require |-> TRUE, issuer |-> i2]}

\* An open policy, then a strict one.
MCTwoPolicies == {p \in MCPolicies : p.hash \in {h1, h2}}

\* A short and a long certificate of the console, and one by the new issuer.
MCCerts ==
    {[serial |-> s1, urn |-> console, issuer |-> i1, notBefore |-> 0, expires |-> 4],
     [serial |-> s2, urn |-> console, issuer |-> i1, notBefore |-> 2, expires |-> 9],
     [serial |-> s3, urn |-> console, issuer |-> i2, notBefore |-> 0, expires |-> 9]}

MCOneIssuerCerts == {c \in MCCerts : c.issuer = i1}

\* Console to agent is a managed exception; peer to agent is not.
MCRoutes == {<<console, agent>>, <<peer, agent>>}
MCConsoleRoute == {<<console, agent>>}

MCLegacy ==
    {[sender |-> console, recipient |-> agent, stamp |-> 0, expiry |-> 0,
      read |-> FALSE, certified |-> FALSE]}

\* Calls in progress differ in their names only.
StoreSymmetry == Permutations(Stores)
=============================================================================
