----------------------------- MODULE StoreSync -----------------------------
(***************************************************************************)
(* The store and the clients that mirror it: Email/query to start from,    *)
(* Email/changes to follow, Email/get for the content (methods/email.rs).  *)
(*                                                                         *)
(* The ghost suspect[c] collects the ids a client may be wrong about, and  *)
(* is the exact list of ways that can happen: a message replaced without a *)
(* new version, a change between the two reads of Email/query, and what a  *)
(* crash leaves behind for an operation in flight or a change log that was *)
(* not saved.                                                              *)
(***************************************************************************)
EXTENDS Store

CONSTANTS Clients,
          NoList      \* the client has no Email/query under way

VARIABLES
    cache,     \* cache[c][id]: the message as c last fetched it, or Absent
    since,     \* the state c would pass to Email/changes
    todo,      \* ids c knows changed and has not fetched yet
    listing,   \* ids an Email/query of c has read, its state still to be read
    suspect    \* ghost: ids c may be wrong about

clientVars == <<cache, since, todo, listing, suspect>>
syncVars   == <<vars, clientVars>>

ASSUME SyncAssumption == \A ids \in SUBSET Ids : NoList # ids

SyncInit ==
    /\ Init
    /\ cache = [c \in Clients |-> [id \in Ids |-> Absent]]
    /\ since = [c \in Clients |-> 0]
    /\ todo = [c \in Clients |-> {}]
    /\ listing = [c \in Clients |-> NoList]
    /\ suspect = [c \in Clients |-> {}]

-----------------------------------------------------------------------------
\* Email/query: the ids under one read lock, the state under another.
QueryIds(c) ==
    /\ up
    /\ listing[c] = NoList
    /\ listing' = [listing EXCEPT ![c] = Indexed]
    /\ UNCHANGED <<vars, cache, since, todo, suspect>>

QueryState(c) ==
    /\ up
    /\ listing[c] # NoList
    /\ cache' = [cache EXCEPT ![c] = [id \in Ids |-> Absent]]
    /\ since' = [since EXCEPT ![c] = state]
    /\ todo' = [todo EXCEPT ![c] = listing[c]]
    /\ listing' = [listing EXCEPT ![c] = NoList]
    /\ suspect' = [suspect EXCEPT ![c] =
                       (listing[c] \ Indexed) \cup (Indexed \ listing[c])]
    /\ UNCHANGED vars

\* Mutant: the window starts one version too late.
ChangesOffByOne(c) ==
    /\ up
    /\ listing[c] = NoList
    /\ since[c] <= state
    /\ LET net == FoldChanges(changes, IF since[c] < state THEN since[c] + 1 ELSE state, state)
       IN  /\ cache' = [cache EXCEPT ![c] =
                            [id \in Ids |-> IF id \in net.destroyed THEN Absent
                                            ELSE cache[c][id]]]
           /\ todo' = [todo EXCEPT ![c] =
                           (@ \ net.destroyed) \cup net.created \cup net.updated]
    /\ since' = [since EXCEPT ![c] = state]
    /\ UNCHANGED <<vars, listing, suspect>>

\* Email/changes: refused for a state the store has not reached.  The counter and the log
\* are read under two locks, but the log only grows.
Changes(c) ==
    /\ up
    /\ listing[c] = NoList
    /\ since[c] <= state
    /\ LET net == FoldChanges(changes, since[c], state)
       IN  /\ cache' = [cache EXCEPT ![c] =
                            [id \in Ids |-> IF id \in net.destroyed THEN Absent
                                            ELSE cache[c][id]]]
           /\ todo' = [todo EXCEPT ![c] =
                           (@ \ net.destroyed) \cup net.created \cup net.updated]
    /\ since' = [since EXCEPT ![c] = state]
    /\ UNCHANGED <<vars, listing, suspect>>

\* Email/get, one id of the request: store.get takes the lock for each.
Get(c, id) ==
    /\ up
    /\ id \in todo[c]
    /\ cache' = [cache EXCEPT ![c][id] = msgs[id]]
    /\ todo' = [todo EXCEPT ![c] = @ \ {id}]
    /\ UNCHANGED <<vars, since, listing, suspect>>

-----------------------------------------------------------------------------
\* Ids whose message a step replaces without advancing the counter.
ReplacedUnannounced ==
    {id \in Ids : /\ msgs[id] # Absent /\ msgs'[id] # Absent
                  /\ msgs[id] # msgs'[id]
                  /\ state' = state}

ServerStep(w) ==
    /\ Step(w)
    /\ suspect' = [c \in Clients |-> suspect[c] \cup ReplacedUnannounced]
    /\ UNCHANGED <<cache, since, todo, listing>>

\* Ids a crash may leave on disk otherwise than the index had them.
Unsettled == doubt \cup {id \in Ids : InFlight(id)}

CrashStep ==
    /\ Crash
    /\ listing' = [c \in Clients |-> NoList]
    /\ suspect' = [c \in Clients |->
                       IF delta' # Torn /\ delta' = Saved(state, changes)
                       THEN suspect[c] \cup Unsettled ELSE Ids]
    /\ UNCHANGED <<cache, since, todo>>

OpenStep ==
    /\ Open
    /\ UNCHANGED <<cache, since, todo, listing, suspect>>

SyncNext ==
    \/ \E w \in Workers : ServerStep(w)
    \/ CrashStep
    \/ OpenStep
    \/ \E c \in Clients :
           \/ QueryIds(c)
           \/ QueryState(c)
           \/ Changes(c)
           \/ \E id \in Ids : Get(c, id)

SyncSpec == SyncInit /\ [][SyncNext]_syncVars

-----------------------------------------------------------------------------
SyncTypeOK ==
    /\ TypeOK
    /\ cache \in [Clients -> [Ids -> {Absent} \cup Content]]
    /\ since \in [Clients -> Nat]
    /\ todo \in [Clients -> SUBSET Ids]
    /\ listing \in [Clients -> {NoList} \cup SUBSET Ids]
    /\ suspect \in [Clients -> SUBSET Ids]

\* What c would hold for id once it had applied Email/changes and fetched what that names.
CatchesUp(c, id) ==
    LET net == FoldChanges(changes, since[c], state)
    IN  \/ id \in net.destroyed /\ msgs[id] = Absent
        \/ id \notin net.destroyed /\ id \in net.created \cup net.updated \cup todo[c]
        \/ id \notin net.destroyed /\ cache[c][id] = msgs[id]

\* Email/queryChanges: what came and what went.  The filter of the query, and updates, count for nothing.
QueryChanges(log, from, to) ==
    LET acc[v \in from..to] ==
            IF v = from THEN [added |-> {}, removed |-> {}]
            ELSE [added   |-> (acc[v - 1].added \cup log[v].added) \ log[v].removed,
                  removed |-> (acc[v - 1].removed \ log[v].added) \cup log[v].removed]
    IN  acc[to]

\* A list of all messages c has fetched, and one of those in a mailbox (a flag, to the store),
\* once Email/queryChanges is applied to them.  A patch into the mailbox is not in the answer.
ListsFollow(c, id) ==
    LET net  == QueryChanges(changes, since[c], state)
        lists(had) == (had /\ id \notin net.removed) \/ id \in net.added
        moved == \E v \in since[c] + 1 .. state : id \in changes[v].updated
    IN  /\ lists(cache[c][id] # Absent) <=> msgs[id] # Absent
        /\ \A f \in Flags :
               (msgs[id] # Absent /\ f \in msgs[id] /\ ~moved)
               => lists(cache[c][id] # Absent /\ f \in cache[c][id])

(* A client that Email/changes still answers is never silently stale: for    *)
(* every id outside suspect, one Email/changes from its state and one        *)
(* Email/get of what that names bring it to what the store holds, and        *)
(* Email/queryChanges its lists: the list of everything is exact, and that   *)
(* of a mailbox misses nothing but what a patch has moved there.             *)
NoSilentStaleness ==
    up => \A c \in Clients : since[c] <= state =>
              \A id \in Ids \ suspect[c] :
                  /\ CatchesUp(c, id)
                  /\ id \notin todo[c] => ListsFollow(c, id)

=============================================================================
