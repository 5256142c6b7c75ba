--------------------------- MODULE MCCredentials ---------------------------
(* The credentials of one account on a small instance, and the way of a     *)
(* request to the handlers that ask for them, which has no state and is     *)
(* looked at once.                                                          *)
EXTENDS Credentials, TLC

Http == INSTANCE Routing

\* Requests find their handler, and handlers the right credential (gomux.rs, routes.rs, server.rs):
\* see Routing.  It is about no state, and evaluated in the initial ones.
RequestsSettle == Init => Http!RequestsSettle

Symmetry == Permutations(Workers) \cup Permutations(Devices)
=============================================================================
