---------------------------- MODULE MCMailboxes ----------------------------
(* The mailbox and identity lists on a small instance, and the batches of   *)
(* calls that reach them, which have no state and are looked at once.       *)
EXTENDS Mailboxes, FiniteSets, TLC

Parts(q) == {part \in DOMAIN q : q[part] # None}
MCBoxRequests == {q \in Requests : Cardinality(Parts(q)) \in 1..2}
MCIdentityRequests == {q \in Requests : Cardinality(Parts(q)) = 1}

Batches == INSTANCE Dispatch

\* A batch is carried out in order, references and failures included (jmapserver/server.rs, refs.rs):
\* see Dispatch.  It is about no state, and evaluated in the initial ones.
BatchInOrder == Init => Batches!BatchInOrder

Symmetry == Permutations(Workers)
=============================================================================
