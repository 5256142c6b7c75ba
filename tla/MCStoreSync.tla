---------------------------- MODULE MCStoreSync ----------------------------
(* The store and its clients on a small instance: either all threads work   *)
(* and no client asks, or one thread works beside the clients.              *)
EXTENDS StoreSync, TLC

VARIABLE active     \* the threads that work

MCInit == SyncInit /\ active \in {Workers} \cup {{w} : w \in Workers}

MCNext ==
    /\ \/ \E w \in active : ServerStep(w)
       \/ CrashStep
       \/ OpenStep
       \/ /\ active # Workers
          /\ \E c \in Clients :
                 QueryIds(c) \/ QueryState(c) \/ Changes(c) \/ \E id \in Ids : Get(c, id)
    /\ UNCHANGED active

MCSpec == MCInit /\ [][MCNext]_<<syncVars, active>>

Symmetry == Permutations(Workers) \cup Permutations(Ids) \cup Permutations(Clients)
=============================================================================
