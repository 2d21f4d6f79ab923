--------------------------- MODULE MCAdminSettings ---------------------------
(* Small instances of AdminSettings. *)
EXTENDS AdminSettings

MCBase == [store |-> TRUE, forward |-> TRUE, history |-> 0, res |-> [k \in Keys |-> 1]]
=============================================================================
