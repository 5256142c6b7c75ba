--------------------------- MODULE PushRegistry ----------------------------
(***************************************************************************)
(* Web Push beside the event stream: the registry of subscriptions and its *)
(* file (jmapserver/push.rs), the handlers that subscribe and unsubscribe  *)
(* (jmapsmtp/server.rs) and the round of sends a delivery starts           *)
(* (jmapsmtp/webpush.rs).                                                  *)
(*                                                                         *)
(* The registry is behind a lock that is held while the whole file is      *)
(* written; the sends of a round go to a copy taken at its start.  The     *)
(* push service, which is not of this repository, honours an endpoint      *)
(* until it expires it.                                                    *)
(***************************************************************************)
EXTENDS EventStream

CONSTANTS
    Accounts, Endpoints,
    Torn,                    \* a file that does not parse
    MaxExpired               \* bound on the endpoints that expire

ASSUME PushAssumption ==
    /\ \A list \in SUBSET (Accounts \X Endpoints) : list # Torn
    /\ MaxExpired \in Nat

VARIABLES
    subs,         \* subscriptions in memory
    file,         \* push_subs.json
    saving,       \* the lock is held for a write of the file
    round,        \* round[t]: the sends thread t's delivery still has to make
    prune,        \* prune[t]: endpoints round[t] was told are gone, not yet removed
    honoured,     \* endpoints the push service accepts
    owed,         \* ghost: subscriptions asked for, but for what a failed or torn write lost
    spoiled       \* ghost: the last save has failed

pushVars == <<subs, file, saving, round, prune, honoured, owed, spoiled, failures>>
eventVars == <<hubVars, pushVars>>

Subscriptions == Accounts \X Endpoints
Load(contents) == IF contents = Torn THEN {} ELSE contents

PushInit ==
    /\ HubInit
    /\ subs = {} /\ file = {} /\ saving = FALSE
    /\ round = [t \in Threads |-> {}] /\ prune = [t \in Threads |-> {}]
    /\ honoured = Endpoints /\ owed = {} /\ spoiled = FALSE /\ failures = 0

-----------------------------------------------------------------------------
\* The write of the file starts, under the lock its caller holds: the file is empty from
\* the time it is opened.
Save ==
    /\ saving' = TRUE /\ file' \in {file, Torn}

SaveDone ==
    /\ up /\ saving
    /\ saving' = FALSE /\ file' = subs /\ spoiled' = FALSE
    /\ UNCHANGED <<hubVars, subs, round, prune, honoured, owed, failures>>

\* An error of the write is ignored.
SaveFails ==
    /\ up /\ saving /\ FileError
    /\ saving' = FALSE /\ spoiled' = TRUE
    /\ UNCHANGED <<hubVars, subs, file, round, prune, honoured, owed>>

\* Mutant: the subscription is kept in memory and not saved.
AddUnsaved(a, e) ==
    /\ up /\ ~saving /\ e \in honoured
    /\ owed' = owed \cup {<<a, e>>}
    /\ subs' = subs \cup {<<a, e>>}
    /\ UNCHANGED <<hubVars, file, saving, round, prune, honoured, spoiled, failures>>

\* An endpoint the account has already is left alone, and nothing is written.
Add(a, e) ==
    /\ up /\ ~saving /\ e \in honoured
    /\ owed' = owed \cup {<<a, e>>}
    /\ subs' = subs \cup {<<a, e>>}
    /\ IF <<a, e>> \in subs THEN UNCHANGED <<file, saving>> ELSE Save
    /\ UNCHANGED <<hubVars, round, prune, honoured, spoiled, failures>>

\* The file is written even when there was nothing to remove.
Remove(a, e) ==
    /\ up /\ ~saving
    /\ subs' = subs \ {<<a, e>>}
    /\ Save

Unsubscribe(a, e) ==
    /\ Remove(a, e)
    /\ owed' = owed \ {<<a, e>>}
    /\ UNCHANGED <<hubVars, round, prune, honoured, spoiled, failures>>

-----------------------------------------------------------------------------
(* A round of sends.                                                       *)

\* After a delivery: a copy of the account's subscriptions.
StartRound(t, a) ==
    /\ up /\ ~saving /\ work[t].pc = "push" /\ round[t] = {} /\ prune[t] = {}
    /\ round' = [round EXCEPT ![t] = {s \in subs : s[1] = a}]
    /\ work' = [work EXCEPT ![t] = NoWork]
    /\ UNCHANGED <<up, version, streamVars, hub, announced, crashes, subs, file, saving,
                   prune, honoured, owed, spoiled, failures>>

\* What the service can answer, and what it makes of a subscription.
Answers(e) == IF e \in honoured THEN {"2xx", "other"} ELSE {"404", "other"}

Classify(answer) ==
    CASE answer = "2xx" -> "sent" [] answer = "404" -> "gone" [] OTHER -> "failed"

Send(t) ==
    /\ up
    /\ \E s \in round[t] : \E answer \in Answers(s[2]) :
           /\ round' = [round EXCEPT ![t] = @ \ {s}]
           /\ prune' = [prune EXCEPT ![t] = IF Classify(answer) = "gone" THEN @ \cup {s} ELSE @]
    /\ prune[t] = {}
    /\ UNCHANGED <<hubVars, subs, file, saving, honoured, owed, spoiled, failures>>

Prune(t) ==
    \E s \in prune[t] :
        /\ Remove(s[1], s[2])
        /\ prune' = [prune EXCEPT ![t] = @ \ {s}]
        /\ UNCHANGED <<hubVars, round, honoured, owed, spoiled, failures>>

PushExpire(e) ==
    /\ e \in honoured /\ Cardinality(Endpoints \ honoured) < MaxExpired
    /\ honoured' = honoured \ {e}
    /\ UNCHANGED <<hubVars, subs, file, saving, round, prune, owed, spoiled, failures>>

-----------------------------------------------------------------------------
\* A crash in the middle of a write leaves the file torn or as it was, and a failed save
\* leaves it behind the memory: in these two cases what is on file is all that is left.
PushCrash ==
    /\ HubCrash
    /\ saving' = FALSE /\ spoiled' = FALSE
    /\ round' = [t \in Threads |-> {}] /\ prune' = [t \in Threads |-> {}]
    /\ owed' = IF saving \/ spoiled THEN Load(file) ELSE owed
    /\ UNCHANGED <<subs, file, honoured, failures>>

\* A browser does not subscribe again unprompted: what is loaded is all there is.
Start ==
    /\ HubStart
    /\ subs' = Load(file)
    /\ UNCHANGED <<file, saving, round, prune, honoured, owed, spoiled, failures>>

PushNext ==
    \/ HubNext /\ UNCHANGED pushVars
    \/ \E t \in Threads : Done(t) /\ UNCHANGED pushVars
    \/ \E t \in Threads, a \in Accounts : StartRound(t, a)
    \/ \E t \in Threads : Send(t) \/ Prune(t)
    \/ \E a \in Accounts, e \in Endpoints : Add(a, e) \/ Unsubscribe(a, e)
    \/ \E e \in Endpoints : PushExpire(e)
    \/ SaveDone \/ SaveFails \/ PushCrash \/ Start

PushSpec == PushInit /\ [][PushNext]_eventVars /\ StreamFairness

-----------------------------------------------------------------------------
PushTypeOK ==
    /\ up \in BOOLEAN /\ version \in 0..MaxChanges /\ announced \in 0..version
    /\ work \in [Threads -> [pc : {"idle", "notify", "push"}, version : 0..MaxChanges]]
    /\ conn \in [Streams -> {"unused", "open", "lost", "ended"}]
    /\ hub \subseteq Streams /\ slot \in [Streams -> BOOLEAN]
    /\ \A s \in Streams : slot[s] => s \in hub /\ ~Closed(s)
    /\ task \in [Streams -> {"none", "wait", "frame", "written"}]
    /\ frames \in [Streams -> 0..Buffer] /\ fetching \in [Streams -> BOOLEAN]
    /\ seen \in [Streams -> 0..version] /\ crashes \in 0..MaxCrashes
    /\ subs \subseteq Subscriptions /\ file \in {Torn} \cup SUBSET Subscriptions
    /\ saving \in BOOLEAN /\ spoiled \in BOOLEAN
    /\ round \in [Threads -> SUBSET Subscriptions]
    /\ prune \in [Threads -> SUBSET Subscriptions]
    /\ honoured \subseteq Endpoints /\ owed \subseteq Subscriptions
    /\ failures \in 0..MaxFailures

(* The subscriptions the relay pushes to are those its users asked for and   *)
(* have not taken back, as far as the push service honours them: a service   *)
(* that fails does not end one, one taken back is not pushed to by a later   *)
(* delivery, and both last through restarts ("persisted so a restart does    *)
(* not silently stop notifying").  The one exception is a restart after a    *)
(* crash in the middle of a save, or after a save that failed and was not    *)
(* followed by a good one: then the file is what is left.                    *)
PushKept ==
    LET live(list) == {s \in list : s[2] \in honoured}
    IN  up => live(subs) = live(owed)

=============================================================================
