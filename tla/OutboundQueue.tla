--------------------------- MODULE OutboundQueue ---------------------------
(***************************************************************************)
(* Outbound mail from the moment EmailSubmission/set has answered: the     *)
(* first attempt in a task of its own (submit.rs, outbound.rs), and, after *)
(* a temporary failure, the queue on disk and the one loop that retries it *)
(* (queue.rs, queue/policy.rs, the domain loop of smtp_out.rs).            *)
(*                                                                         *)
(* A recipient is abstracted to its domain and a domain that took the      *)
(* message to one that took it for the recipients it did not refuse: a     *)
(* refused RCPT is logged and skipped by the code.  With a relay host there *)
(* is one connection for all recipients, which is the case of one domain.  *)
(* The bytes and the texts of errors are left out.                         *)
(***************************************************************************)
EXTENDS Integers, RelayProcess

CONSTANTS Messages,
          Domains,      \* numbers, in the order of the names (a BTreeMap in the code)
          Schedule,     \* how many waits the schedule has: 7 in the code
          Silent        \* domains whose servers may take a connection and never answer

ASSUME QueueAssumption ==
    /\ Domains \subseteq Nat
    /\ Silent \subseteq Domains
    /\ Schedule \in Nat \ {0}

VARIABLES
    envelope,   \* envelope[m]: recipients, and whether every address has a domain
    told,       \* messages whose submission was answered as created
    activity,   \* what the activity log says of the first attempt
    job,        \* the step the code is about to take for m
    dlv,        \* the attempt under way: domains still to try, first error so far
    batch,      \* entries of this pass the loop has still to try
    eml,        \* messages with a message.eml on disk
    meta,       \* attempts recorded in m's meta.json, 0 if there is none
    due,        \* entries whose next_attempt has come
    taken,      \* taken[m]: domains that have taken the message
    counted,    \* outcomes recorded for m in the metrics
    notice,     \* messages whose sender was told, in his mailbox, that they failed
    tries,      \* ghost: attempts made
    disturbed,  \* ghost: messages a crash or a failed operation on their entry struck
    excused     \* ghost: messages a fault struck where nothing on disk can tell of them

client == <<envelope, told, activity>>
disk   == <<eml, meta, due>>
world  == <<taken, counted, notice>>
ghost  == <<tries, disturbed, excused>>
faults == <<crashes, failures>>
vars   == <<up, client, job, dlv, batch, disk, world, ghost, faults>>

-----------------------------------------------------------------------------
Envelope == [to: SUBSET Domains, valid: BOOLEAN]
Error    == {"none", "temporary", "permanent"}
Attempt  == [todo: SUBSET Domains, err: Error]

(*   sending    first attempt                 retrying   attempt of the loop   *)
(*   holding    enqueue: message.eml          deferring  defer: meta.json      *)
(*   listing    enqueue: meta.json            clearing   remove after success  *)
(*   expiring   remove, the schedule is out   refusing   remove after a 5xx    *)
(*   dropping   remove, there is no message   reporting  report_failure        *)
TaskJob == {"sending", "holding", "listing"}
LoopJob == {"retrying", "deferring", "clearing", "expiring", "refusing", "dropping", "reporting"}

Queued(m) == meta[m] > 0
LoopBusy  == \E m \in Messages : job[m] \in LoopJob

Init ==
    /\ up = TRUE
    /\ envelope \in [Messages -> Envelope]
    /\ told = {}
    /\ activity = [m \in Messages |-> "none"]
    /\ job = [m \in Messages |-> "idle"]
    /\ dlv = [m \in Messages |-> [todo |-> {}, err |-> "none"]]
    /\ batch = {}
    /\ eml = {}
    /\ meta = [m \in Messages |-> 0]
    /\ due = {}
    /\ taken = [m \in Messages |-> {}]
    /\ counted = [m \in Messages |-> 0]
    /\ notice = {}
    /\ tries = [m \in Messages |-> 0]
    /\ disturbed = {}
    /\ excused = {}
    /\ crashes = 0
    /\ failures = 0

Become(m, phase) == job' = [job EXCEPT ![m] = phase]
Count(m) == counted' = [counted EXCEPT ![m] = @ + 1]

\* A file operation for m fails.
FailFor(m) ==
    /\ FileError
    /\ disturbed' = disturbed \cup {m}

\* policy::backoff: a wait after each of the first Schedule attempts.
Backoff(attempts) == attempts \in 1 .. Schedule

-----------------------------------------------------------------------------
(* Sender::deliver.                                                        *)

\* Nothing is sent for an empty list, or for one with an address that has no domain.
Begin(m) ==
    LET env == envelope[m]
        sendable == env.valid /\ env.to # {}
    IN  /\ dlv' = [dlv EXCEPT ![m] =
                       [todo |-> IF sendable THEN env.to ELSE {},
                        err  |-> IF sendable THEN "none" ELSE "permanent"]]
        /\ tries' = [tries EXCEPT ![m] = @ + 1]

NextDomain(m) == CHOOSE d \in dlv[m].todo : \A e \in dlv[m].todo : d <= e

\* The domain is done; the first error is the one that stays.
After(m, err) ==
    dlv' = [dlv EXCEPT ![m].todo = @ \ {NextDomain(m)},
                       ![m].err = IF @ = "none" THEN err ELSE @]

\* One conversation: the server takes the message and says so, takes it and is not heard
\* (the connection breaks after the final dot), or does not take it.
Converse(m) ==
    /\ job[m] \in {"sending", "retrying"}
    /\ dlv[m].todo # {}
    /\ \/ /\ taken' = [taken EXCEPT ![m] = @ \cup {NextDomain(m)}]
          /\ After(m, "none") \/ After(m, "temporary")
       \/ /\ After(m, "temporary")
          /\ UNCHANGED taken
       \/ /\ After(m, "permanent")
          /\ UNCHANGED taken
    /\ UNCHANGED <<up, client, job, batch, disk, counted, notice, tries, disturbed, excused, faults>>

-----------------------------------------------------------------------------
(* The first attempt: spawn_send and outbound::send.                       *)

Submit(m) ==
    /\ up /\ m \notin told
    /\ told' = told \cup {m}
    /\ Become(m, "sending")
    /\ Begin(m)
    /\ UNCHANGED <<up, envelope, activity, batch, disk, world, disturbed, excused, faults>>

Entered(m, result) == activity' = [activity EXCEPT ![m] = result]

\* append_activity, whose result is ignored.  An entry that cannot be written is missing; if
\* it was to say that the mail failed, nothing else says so.
Log(m, result) ==
    \/ Entered(m, result) /\ UNCHANGED <<excused, failures>>
    \/ /\ FileError
       /\ excused' = IF result = "failed" THEN excused \cup {m} ELSE excused
       /\ UNCHANGED activity

Sent(m) ==
    /\ job[m] = "sending" /\ dlv[m].todo = {}
    /\ \/ /\ dlv[m].err = "none"
          /\ Log(m, "ok") /\ Count(m) /\ Become(m, "idle")
       \/ /\ dlv[m].err = "permanent"
          /\ Log(m, "failed") /\ Count(m) /\ Become(m, "idle")
       \/ /\ dlv[m].err = "temporary"
          /\ Become(m, "holding")
          /\ UNCHANGED <<activity, counted, excused, failures>>
    /\ UNCHANGED <<up, envelope, told, dlv, batch, disk, taken, notice, tries, disturbed, crashes>>

\* enqueue could not write: the first error is what the task reports, if the disk that
\* refused the entry takes the line of the log.
EnqueueFails(m) ==
    /\ FailFor(m)
    /\ \/ Entered(m, "failed") /\ UNCHANGED excused
       \/ excused' = excused \cup {m} /\ UNCHANGED activity
    /\ Count(m) /\ Become(m, "idle")
    /\ UNCHANGED <<eml, meta>>

\* enqueue: the message first, then the metadata, renamed into place.
EnqueueMessage(m) ==
    /\ job[m] = "holding"
    /\ \/ /\ eml' = eml \cup {m}
          /\ Become(m, "listing")
          /\ UNCHANGED <<meta, activity, counted, disturbed, excused, failures>>
       \/ EnqueueFails(m)
    /\ UNCHANGED <<up, envelope, told, dlv, batch, due, taken, notice, tries, crashes>>

EnqueueMeta(m) ==
    /\ job[m] = "listing"
    /\ \/ /\ meta' = [meta EXCEPT ![m] = 1]
          /\ Log(m, "queued") /\ Become(m, "idle")
          /\ UNCHANGED <<eml, counted, disturbed>>
       \/ EnqueueFails(m)
    /\ UNCHANGED <<up, envelope, told, dlv, batch, due, taken, notice, tries, crashes>>

-----------------------------------------------------------------------------
(* The retry loop: spawn_retries and retry_one, one entry at a time.       *)

\* next_attempt comes, whether the process runs or not.
Elapse(m) ==
    /\ Queued(m) /\ m \notin due
    /\ due' = due \cup {m}
    /\ UNCHANGED <<up, client, job, dlv, batch, eml, meta, world, ghost, faults>>

Tick ==
    /\ up /\ batch = {} /\ ~ LoopBusy
    /\ batch' = {m \in due : Queued(m)}
    /\ batch' # {}
    /\ UNCHANGED <<up, client, job, dlv, disk, world, ghost, faults>>

\* Mutant: an entry without a message is passed over instead of removed.
RetryPassesOver(m) ==
    /\ m \in batch /\ ~ LoopBusy
    /\ batch' = batch \ {m}
    /\ IF m \in eml
       THEN Become(m, "retrying") /\ Begin(m)
       ELSE UNCHANGED <<job, dlv, tries>>
    /\ UNCHANGED <<up, client, disk, world, disturbed, excused, faults>>

Retry(m) ==
    /\ m \in batch /\ ~ LoopBusy
    /\ batch' = batch \ {m}
    /\ IF m \in eml
       THEN Become(m, "retrying") /\ Begin(m)
       ELSE Become(m, "dropping") /\ UNCHANGED <<dlv, tries>>
    /\ UNCHANGED <<up, client, disk, world, disturbed, excused, faults>>

\* Mutant: a permanent failure is removed like a success, and nobody is told.
RetriedUntold(m) ==
    /\ job[m] = "retrying" /\ dlv[m].todo = {}
    /\ \/ dlv[m].err \in {"none", "permanent"} /\ Count(m) /\ Become(m, "clearing")
       \/ /\ dlv[m].err = "temporary"
          /\ Become(m, IF Backoff(meta[m] + 1) THEN "deferring" ELSE "expiring")
          /\ UNCHANGED counted
    /\ UNCHANGED <<up, client, dlv, batch, disk, taken, notice, ghost, faults>>

Retried(m) ==
    /\ job[m] = "retrying" /\ dlv[m].todo = {}
    /\ \/ dlv[m].err = "none" /\ Count(m) /\ Become(m, "clearing")
       \/ dlv[m].err = "permanent" /\ Count(m) /\ Become(m, "refusing")
       \/ /\ dlv[m].err = "temporary"
          /\ Become(m, IF Backoff(meta[m] + 1) THEN "deferring" ELSE "expiring")
          /\ UNCHANGED counted
    /\ UNCHANGED <<up, client, dlv, batch, disk, taken, notice, ghost, faults>>

\* Mutant: the entry is scheduled again without counting the attempt.
DeferUncounted(m) ==
    /\ job[m] = "deferring"
    /\ due' = due \ {m}
    /\ Become(m, "idle")
    /\ UNCHANGED <<up, client, dlv, batch, eml, meta, world, ghost, faults>>

\* defer, the schedule goes on.  A meta.json that cannot be written stays as it was.
Defer(m) ==
    /\ job[m] = "deferring"
    /\ \/ /\ meta' = [meta EXCEPT ![m] = @ + 1]
          /\ due' = due \ {m}
          /\ UNCHANGED <<disturbed, failures>>
       \/ FailFor(m) /\ UNCHANGED <<meta, due>>
    /\ Become(m, "idle")
    /\ UNCHANGED <<up, client, dlv, batch, eml, world, tries, excused, crashes>>

\* remove_dir_all is not atomic: what is left of m's directory when it does not finish.
Remains(m) ==
    /\ eml' \in {eml, eml \ {m}}
    /\ meta' \in {meta, [meta EXCEPT ![m] = 0]}
    /\ due' = {k \in due : meta'[k] > 0}

Removed(m) ==
    /\ eml' = eml \ {m}
    /\ meta' = [meta EXCEPT ![m] = 0]
    /\ due' = due \ {m}

\* Mutant: a message that was sent stays in the queue.
ClearKeeps(m) ==
    /\ job[m] \in {"clearing", "dropping"}
    /\ Become(m, "idle")
    /\ UNCHANGED <<up, client, dlv, batch, disk, world, ghost, faults>>

\* remove with its error ignored, after a success or for want of a message.
Clear(m) ==
    /\ job[m] \in {"clearing", "dropping"}
    /\ \/ Removed(m) /\ UNCHANGED <<disturbed, failures>>
       \/ FailFor(m) /\ Remains(m)
    /\ Become(m, "idle")
    /\ UNCHANGED <<up, client, dlv, batch, world, tries, excused, crashes>>

\* remove after a permanent failure, its error ignored too; the sender is told next.
Refuse(m) ==
    /\ job[m] = "refusing"
    /\ \/ Removed(m) /\ UNCHANGED <<disturbed, failures>>
       \/ FailFor(m) /\ Remains(m)
    /\ Become(m, "reporting")
    /\ UNCHANGED <<up, client, dlv, batch, world, tries, excused, crashes>>

\* defer, the schedule is out.  An error in the removal ends the retry there.
Expire(m) ==
    /\ job[m] = "expiring"
    /\ \/ /\ Removed(m)
          /\ Count(m) /\ Become(m, "reporting")
          /\ UNCHANGED <<disturbed, excused, failures>>
       \/ /\ FailFor(m) /\ Remains(m)
          /\ Become(m, "idle")
          /\ excused' = IF <<eml', meta'>> = <<eml, meta>> THEN excused ELSE excused \cup {m}
          /\ UNCHANGED counted
    /\ UNCHANGED <<up, client, dlv, batch, taken, notice, tries, crashes>>

\* report_failure: no account, a full mailbox or a failed write leave no notice.
Report(m) ==
    /\ job[m] = "reporting"
    /\ \/ notice' = notice \cup {m} /\ UNCHANGED <<disturbed, excused, failures>>
       \/ FailFor(m) /\ excused' = excused \cup {m} /\ UNCHANGED notice
    /\ Become(m, "idle")
    /\ UNCHANGED <<up, client, dlv, batch, disk, taken, counted, tries, crashes>>

-----------------------------------------------------------------------------
Removing == {"clearing", "dropping", "refusing", "expiring"}

\* Messages a crash cuts off where the disk does not say, or no longer says, what to do.
Exposed ==
    {m \in Messages :
        \/ job[m] \in TaskJob \cup {"reporting"}
        \/ job[m] \in {"refusing", "expiring"} /\ (m \in eml \ eml' \/ meta[m] # meta'[m])}

Crash ==
    /\ ProcessEnds
    /\ job' = [m \in Messages |-> "idle"]
    /\ batch' = {}
    /\ disturbed' = disturbed \cup {m \in Messages : job[m] # "idle"}
    /\ \/ UNCHANGED disk
       \/ \E m \in Messages : job[m] \in Removing /\ Remains(m)
    /\ excused' = excused \cup Exposed
    /\ UNCHANGED <<client, dlv, world, tries, failures>>

Restart ==
    /\ ProcessStarts
    /\ UNCHANGED <<client, job, dlv, batch, disk, world, ghost, faults>>

Task(m) == Sent(m) \/ EnqueueMessage(m) \/ EnqueueMeta(m)

RetryOne(m) ==
    Retry(m) \/ Retried(m) \/ Defer(m) \/ Clear(m) \/ Refuse(m) \/ Expire(m) \/ Report(m)

Next ==
    \/ \E m \in Messages :
           Submit(m) \/ Converse(m) \/ Task(m) \/ RetryOne(m) \/ Elapse(m)
    \/ Tick
    \/ Crash
    \/ Restart

Spec == Init /\ [][Next]_vars

\* A conversation that will get its answer.
Answered(m) == dlv[m].todo # {} /\ NextDomain(m) \notin Silent /\ Converse(m)

Loop == Tick \/ \E m \in Messages : RetryOne(m) \/ (job[m] = "retrying" /\ Answered(m))

(* Tasks are scheduled, time passes, a relay that died is started again; a  *)
(* server answers or hangs up unless it is one of Silent.  Nothing makes a  *)
(* client submit, and nothing makes a read of the SMTP client give up.      *)
Fairness ==
    /\ WF_vars(Restart)
    /\ WF_vars(Loop)
    /\ \A m \in Messages :
           /\ WF_vars(Task(m) \/ (job[m] = "sending" /\ Answered(m)))
           /\ WF_vars(Elapse(m))

FairSpec == Spec /\ Fairness

-----------------------------------------------------------------------------
TypeOK ==
    /\ up \in BOOLEAN
    /\ envelope \in [Messages -> Envelope]
    /\ told \subseteq Messages
    /\ activity \in [Messages -> {"none", "ok", "queued", "failed"}]
    /\ job \in [Messages -> {"idle"} \cup TaskJob \cup LoopJob]
    /\ dlv \in [Messages -> Attempt]
    /\ batch \subseteq Messages
    /\ eml \subseteq Messages
    /\ meta \in [Messages -> 0 .. Schedule]
    /\ due \subseteq {m \in Messages : Queued(m)}
    /\ taken \in [Messages -> SUBSET Domains]
    /\ counted \in [Messages -> Nat]
    /\ notice \subseteq Messages
    /\ tries \in [Messages -> Nat]
    /\ disturbed \subseteq Messages
    /\ excused \subseteq Messages
    /\ crashes \in Nat
    /\ failures \in Nat

Delivered(m) == envelope[m].to # {} /\ envelope[m].to \subseteq taken[m]

(* No mail vanishes: a message the client was told is sent is being worked   *)
(* on, or waits in the queue, or every domain has taken it, or the activity  *)
(* log or a notice says it failed.  The exceptions are these: a crash in the *)
(* first attempt or with the notice still to write (Exposed), a failed       *)
(* removal at the schedule's end that takes half the entry (Expire), a       *)
(* notice that cannot be stored (Report), and a refusal that cannot be       *)
(* entered in the activity log (Log, EnqueueFails).                          *)
Accounted ==
    \A m \in told :
        \/ job[m] # "idle"
        \/ Queued(m) /\ m \in eml
        \/ Delivered(m)
        \/ activity[m] = "failed"
        \/ m \in notice
        \/ m \in excused

(* "Attempts already made, including the one that put it here": the number   *)
(* on disk is exact while nothing disturbs the message, and what disturbs it *)
(* can cost at most one uncounted attempt each time.                         *)
AttemptsCounted ==
    \A m \in Messages :
        /\ Queued(m) /\ m \notin disturbed =>
               tries[m] = meta[m] + (IF job[m] \in LoopJob THEN 1 ELSE 0)
        /\ tries[m] <= Schedule + 1 + crashes + failures

(* One message, one outcome: once it is counted as sent or failed it is not  *)
(* tried again, not counted again and no longer queued when the step that    *)
(* removes it is over, unless that step was disturbed.                       *)
OutcomeIsFinal ==
    \A m \in Messages \ disturbed : counted[m] > 0 =>
        /\ counted[m] = 1
        /\ job[m] \in {"idle", "clearing", "refusing", "reporting"}
        /\ job[m] \in {"idle", "reporting"} => ~ Queued(m) /\ m \notin eml
        /\ m \notin batch

\* A conversation with a server that need not answer is under way: the first attempt of m
\* itself, or one of the loop, behind which every entry waits.
Held(m) ==
    \E k \in Messages :
        /\ job[k] = "retrying" \/ (k = m /\ job[k] = "sending")
        /\ dlv[k].todo # {} /\ NextDomain(k) \in Silent

(* Every submitted message comes to an end, taken, refused or given up, and  *)
(* the queue does not hold it for ever, unless from some moment on one and   *)
(* the same conversation goes on for ever, its own or one of the loop (no    *)
(* read of smtp_out.rs gives up): nothing else starves an entry, and a       *)
(* server that is only slow, or silent now and then, does not.               *)
Settles ==
    \A m \in Messages :
        job[m] # "idle" ~> (job[m] = "idle" /\ ~ Queued(m)) \/ []Held(m)

=============================================================================
