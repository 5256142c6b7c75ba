-------------------------- MODULE MCOutboundQueue --------------------------
(* The outbound queue on a small instance: the envelope of one message is   *)
(* free, and the other message goes to the servers that may be silent, so   *)
(* that the two compete for the loop.                                       *)
EXTENDS OutboundQueue

CONSTANT Companion

MCInit == Init /\ envelope[Companion] = [to |-> Silent, valid |-> TRUE]

MCFairSpec == MCInit /\ [][Next]_vars /\ Fairness
=============================================================================
