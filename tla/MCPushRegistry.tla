-------------------------- MODULE MCPushRegistry --------------------------
(* The event stream and the push registry on a small instance.  A stream is *)
(* opened only while nobody has a subscription and the other way round: the *)
(* two have nothing in common but the threads, the faults and the process,  *)
(* and the instance is then the sum of both and not their product.          *)
EXTENDS PushRegistry

Apart == (\A s \in Streams : conn[s] = "unused") \/ subs \cup owed = {}

MCPushSpec == PushInit /\ [][PushNext /\ Apart']_eventVars /\ StreamFairness
=============================================================================
