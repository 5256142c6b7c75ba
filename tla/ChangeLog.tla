----------------------------- MODULE ChangeLog -----------------------------
(***************************************************************************)
(* The change log of a mailbox and what Email/changes computes from it:    *)
(* one record per state version, and the fold of the records of a window   *)
(* into the sets created, updated and destroyed (store.rs, email.rs).      *)
(*                                                                         *)
(* The fold is given twice.  ApplyRecord is one iteration of the loop in   *)
(* the code and FoldChanges runs it over the window.  NetChanges says what *)
(* the result means without a loop.  StoreProofs shows that each iteration *)
(* takes NetChanges of a window to NetChanges of the window one version    *)
(* longer, and that the whole loop returns NetChanges (FoldIsNet).         *)
(***************************************************************************)
EXTENDS Integers

CONSTANT Ids      \* message ids

\* What one state version recorded.
ChangeRecord == [added: SUBSET Ids, updated: SUBSET Ids, removed: SUBSET Ids]

AddedRec(S)   == [added |-> S,  updated |-> {}, removed |-> {}]
UpdatedRec(S) == [added |-> {}, updated |-> S,  removed |-> {}]
RemovedRec(S) == [added |-> {}, updated |-> {}, removed |-> S]

\* The map insert of the code: a new key, or a new value for an old one.
Insert(log, version, rec) ==
    [v \in DOMAIN log \cup {version} |-> IF v = version THEN rec ELSE log[v]]

\* A log with no record.
EmptyLog == [v \in {} |-> RemovedRec({})]

\* A log maps versions to records.
IsLog(log) == DOMAIN log \subseteq Nat /\ log \in [DOMAIN log -> ChangeRecord]

-----------------------------------------------------------------------------
NoChanges == [created |-> {}, updated |-> {}, destroyed |-> {}]

\* One iteration of the loop of fold_changes: added, then updated, then removed.
ApplyRecord(acc, rec) ==
    LET created == acc.created \cup rec.added
    IN  [created   |-> created \ rec.removed,
         updated   |-> (acc.updated \cup (rec.updated \ created)) \ rec.removed,
         destroyed |-> (acc.destroyed \ rec.added) \cup rec.removed]

FoldChanges(log, since, cur) ==
    LET acc[v \in since..cur] ==
            IF v = since THEN NoChanges ELSE ApplyRecord(acc[v - 1], log[v])
    IN  acc[cur]

-----------------------------------------------------------------------------
(* The same result, as a statement about the records of the window.        *)

\* The last thing the window says of id's membership is that it was added.
CreatedIn(log, since, cur, id) ==
    \E v \in since + 1 .. cur :
        /\ id \in log[v].added
        /\ \A w \in v .. cur : id \notin log[w].removed

\* The last thing the window says of id's membership is that it was removed.
DestroyedIn(log, since, cur, id) ==
    \E v \in since + 1 .. cur :
        /\ id \in log[v].removed
        /\ \A w \in v + 1 .. cur : id \notin log[w].added

\* An update of something the client already had and that was not removed since.
UpdatedIn(log, since, cur, id) ==
    \E v \in since + 1 .. cur :
        /\ id \in log[v].updated
        /\ id \notin log[v].added
        /\ ~ CreatedIn(log, since, v - 1, id)
        /\ \A w \in v .. cur : id \notin log[w].removed

NetChanges(log, since, cur) ==
    [created   |-> {id \in Ids : CreatedIn(log, since, cur, id)},
     updated   |-> {id \in Ids : UpdatedIn(log, since, cur, id)},
     destroyed |-> {id \in Ids : DestroyedIn(log, since, cur, id)}]

=============================================================================
