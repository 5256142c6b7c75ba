--------------------------- MODULE DeliveryProofs ---------------------------
(***************************************************************************)
(* What becomes of mail the relay has taken: the outbound queue, and below *)
(* it the push notices a delivery sends.                                   *)
(*                                                                         *)
(* Safety of the outbound queue for any messages, domains, schedule and    *)
(* faults: no message vanishes, the attempts on disk are the attempts made, *)
(* and a message has one outcome.                                          *)
(*                                                                         *)
(* Every action is about one message, Tick, Crash and Restart apart.  The  *)
(* inductive invariant is therefore a statement MessageInv(k) about each   *)
(* message k, and a step on m has to be looked at for k = m alone.         *)
(***************************************************************************)
EXTENDS OutboundQueue, PushRegistry, WellFoundedInduction, TLAPS

-----------------------------------------------------------------------------
(* The inductive invariant.                                                *)

\* A message nobody has submitted has left no trace.
Untouched(k) ==
    k \notin told => /\ job[k] = "idle" /\ ~ Queued(k) /\ k \notin eml
                     /\ tries[k] = 0 /\ counted[k] = 0

\* The first attempt comes once, before anything is on disk but the message itself.
FirstAttempt(k) ==
    job[k] \in TaskJob => /\ ~ Queued(k) /\ tries[k] = 1 /\ counted[k] = 0
                          /\ k \in eml <=> job[k] = "listing"

\* What the loop is at is in the queue until the step that removes it, with its message
\* unless that is what the entry is dropped for; the schedule still has a wait when the
\* entry is deferred.
InQueue(k) ==
    /\ job[k] \in LoopJob \ {"reporting"} => Queued(k)
    /\ job[k] \in LoopJob \ {"reporting", "dropping"} => k \in eml
    /\ job[k] = "deferring" => meta[k] + 1 <= Schedule

\* What the pass has still to try is in the queue, and nobody is at it.
Waiting(k) == k \in batch => Queued(k) /\ job[k] = "idle"

\* An attempt without an error so far has been taken by every domain it has been to.
SoFarTaken(k) ==
    /\ job[k] \in {"sending", "retrying"} /\ dlv[k].err = "none" =>
           envelope[k].to # {} /\ envelope[k].to \subseteq taken[k] \cup dlv[k].todo
    /\ job[k] = "clearing" => Delivered(k)

\* The ways a message that is not in the queue is accounted for.
Explained(k) == Delivered(k) \/ activity[k] = "failed" \/ k \in notice \/ k \in excused

\* Accounted, for one message; an entry dropped for want of its message is one of these.
Traced(k) ==
    /\ k \in told /\ job[k] = "idle" => (Queued(k) /\ k \in eml) \/ Explained(k)
    /\ job[k] = "dropping" => Explained(k)

\* An attempt that has been made and is not yet in meta.json, and will not be lost with
\* the entry.
Owed(k) == IF job[k] \in {"idle", "dropping", "reporting"} THEN 0 ELSE 1

\* Each crash and each failure costs at most one uncounted attempt.
Bounded(k) ==
    /\ tries[k] <= Schedule + 1 + crashes + failures
    /\ Queued(k) \/ job[k] \in TaskJob => tries[k] <= meta[k] + Owed(k) + crashes + failures

\* A message nothing has disturbed is at the stage its job and meta.json say: waiting, being
\* tried, or counted once and about to leave the queue for good.
Exact(k) ==
    k \notin disturbed =>
        /\ job[k] # "dropping"
        /\ Queued(k) => tries[k] = meta[k] + (IF job[k] \in LoopJob THEN 1 ELSE 0)
        /\ job[k] = "idle" => IF Queued(k) THEN k \in eml /\ counted[k] = 0
                              ELSE k \notin eml /\ counted[k] <= 1
        /\ job[k] \in {"retrying", "deferring", "expiring"} => counted[k] = 0
        /\ job[k] \in {"clearing", "refusing", "reporting"} => counted[k] = 1
        /\ job[k] = "reporting" => ~ Queued(k) /\ k \notin eml

MessageInv(k) ==
    /\ Untouched(k) /\ FirstAttempt(k) /\ InQueue(k) /\ Waiting(k)
    /\ SoFarTaken(k) /\ Traced(k) /\ Bounded(k) /\ Exact(k)

\* A relay that is down does nothing.
Stopped == ~ up => batch = {} /\ \A k \in Messages : job[k] = "idle"

IInv == TypeOK /\ Stopped /\ \A k \in Messages : MessageInv(k)

-----------------------------------------------------------------------------
(* What a step leaves alone.                                               *)

\* Nothing a step does concerns k, but that a fault may have been counted.
Same(k) ==
    /\ job'[k] = job[k] /\ dlv'[k] = dlv[k] /\ meta'[k] = meta[k] /\ taken'[k] = taken[k]
    /\ counted'[k] = counted[k] /\ tries'[k] = tries[k] /\ activity'[k] = activity[k]
    /\ envelope'[k] = envelope[k]
    /\ k \in told' <=> k \in told
    /\ k \in eml' <=> k \in eml
    /\ k \in notice' <=> k \in notice
    /\ k \in disturbed' <=> k \in disturbed
    /\ k \in excused => k \in excused'
    /\ k \in batch' => k \in batch
    /\ crashes' \in Nat /\ crashes <= crashes'
    /\ failures' \in Nat /\ failures <= failures'

LEMMA SameKeeps ==
    ASSUME TypeOK, NEW k \in Messages, MessageInv(k), Same(k)
    PROVE  MessageInv(k)'
<1>1. Untouched(k)' /\ FirstAttempt(k)' /\ InQueue(k)' /\ Waiting(k)'
  BY DEF MessageInv, Same, Untouched, FirstAttempt, InQueue, Waiting, Queued
<1>2. SoFarTaken(k)' /\ Traced(k)'
  BY DEF MessageInv, Same, SoFarTaken, Traced, Explained, Delivered, Queued
<1>3. Bounded(k)'
  BY QueueAssumption DEF TypeOK, MessageInv, Same, Bounded, Owed, Queued
<1>4. Exact(k)'
  BY DEF MessageInv, Same, Exact, Queued
<1>5. QED
  BY <1>1, <1>2, <1>3, <1>4 DEF MessageInv

-----------------------------------------------------------------------------
LEMMA InitIInv == Init => IInv
<1> SUFFICES ASSUME Init PROVE IInv
  OBVIOUS
<1>1. TypeOK
  BY QueueAssumption DEF Init, TypeOK, Attempt, Error, Queued
<1>2. ASSUME NEW k \in Messages
      PROVE  MessageInv(k)
  BY QueueAssumption
  DEF Init, MessageInv, Untouched, FirstAttempt, InQueue, Waiting, SoFarTaken, Traced, Bounded,
      Exact, Owed, Queued, TaskJob, LoopJob
<1>3. QED
  BY <1>1, <1>2 DEF IInv, Stopped, Init

\* An attempt begins with what the message is addressed to.
LEMMA BeginTyped ==
    ASSUME TypeOK, NEW m \in Messages, Begin(m)
    PROVE  dlv' \in [Messages -> Attempt] /\ tries' \in [Messages -> Nat]
<1> DEFINE att == [todo |-> IF envelope[m].valid /\ envelope[m].to # {} THEN envelope[m].to ELSE
        {},
                   err  |-> IF envelope[m].valid /\ envelope[m].to # {}
                            THEN "none" ELSE "permanent"]
<1>1. att \in Attempt
  BY DEF TypeOK, Envelope, Attempt, Error
<1>2. dlv' = [dlv EXCEPT ![m] = att] /\ tries' = [tries EXCEPT ![m] = @ + 1]
  BY DEF Begin
<1> HIDE DEF att
<1>3. QED
  BY <1>1, <1>2 DEF TypeOK

LEMMA SubmitIInv ==
    ASSUME IInv, NEW m \in Messages, Submit(m)
    PROVE  IInv'
<1> USE QueueAssumption DEF IInv
<1>1. TypeOK'
  BY BeginTyped DEF Submit, Become, world, disk, faults, TypeOK, Queued, TaskJob, LoopJob
<1>2. Stopped'
  BY DEF Submit, Begin, Become, world, disk, faults, TypeOK, Stopped, Waiting, MessageInv,
         TaskJob, LoopJob
<1>3. ASSUME NEW k \in Messages \ {m}
      PROVE  MessageInv(k)'
  <2>1. Same(k)
    BY DEF Submit, Begin, Become, world, disk, faults, TypeOK, Same
  <2>2. QED
    BY <2>1, SameKeeps
<1>4. MessageInv(m)'
  BY DEF Submit, Begin, Become, world, disk, faults, TypeOK, Envelope, Attempt,
         MessageInv, Untouched, FirstAttempt, InQueue, Waiting, SoFarTaken, Traced, Explained,
         Delivered, Bounded, Exact, Owed, Queued, TaskJob, LoopJob
<1>5. QED
  BY <1>1, <1>2, <1>3, <1>4

\* There is a least number in every set of some.
LEMMA LeastNumber ==
    ASSUME NEW T, T \subseteq Nat, T # {}
    PROVE  \E d \in T : \A e \in T : d <= e
<1> DEFINE R == {ss \in Nat \X Nat : ss[1] < ss[2]}
<1>1. IsWellFoundedOn(R, Nat)
  BY NatLessThanWellFounded DEF OpToRel
<1>2. \A d, e \in Nat : <<e, d>> \notin R => d <= e
  OBVIOUS
<1> HIDE DEF R
<1>3. \E d \in T : \A e \in T : <<e, d>> \notin R
  BY <1>1, WFMin
<1>4. QED
  BY <1>2, <1>3

\* The domain tried next is one of those still to try.
LEMMA NextDomainIsNext ==
    ASSUME TypeOK, NEW m \in Messages, dlv[m].todo # {}
    PROVE  NextDomain(m) \in dlv[m].todo
<1>1. dlv[m].todo \subseteq Nat
  BY QueueAssumption DEF TypeOK, Attempt
<1>2. \E d \in dlv[m].todo : \A e \in dlv[m].todo : d <= e
  BY <1>1, LeastNumber
<1>3. QED
  BY <1>2 DEF NextDomain

LEMMA ConverseIInv ==
    ASSUME IInv, NEW m \in Messages, Converse(m)
    PROVE  IInv'
<1> USE QueueAssumption DEF IInv
<1>1. TypeOK'
  <2>1. NextDomain(m) \in Domains
    BY NextDomainIsNext DEF Converse, TypeOK, Attempt
  <2>2. taken' \in [Messages -> SUBSET Domains]
    BY <2>1 DEF Converse, TypeOK
  <2>3. dlv' \in [Messages -> Attempt]
    <3>1. PICK err \in Error : After(m, err)
      BY DEF Converse, Error
    <3>2. QED
      BY <3>1 DEF After, TypeOK, Attempt
  <2>4. QED
    BY <2>2, <2>3 DEF Converse, client, disk, faults, TypeOK, Queued
<1>2. Stopped'
  BY DEF Converse, After, client, disk, faults, TypeOK, Stopped, Waiting, MessageInv, TaskJob,
         LoopJob
<1>3. ASSUME NEW k \in Messages \ {m}
      PROVE  MessageInv(k)'
  <2>1. Same(k)
    BY DEF Converse, After, client, disk, faults, TypeOK, Same
  <2>2. QED
    BY <2>1, SameKeeps
<1>4. MessageInv(m)'
  BY DEF Converse, After, client, disk, faults, TypeOK, Envelope, Attempt,
         MessageInv, Untouched, FirstAttempt, InQueue, Waiting, SoFarTaken, Traced, Explained,
         Delivered, Bounded, Exact, Owed, Queued, TaskJob, LoopJob
<1>5. QED
  BY <1>1, <1>2, <1>3, <1>4

LEMMA SentIInv ==
    ASSUME IInv, NEW m \in Messages, Sent(m)
    PROVE  IInv'
<1> USE QueueAssumption DEF IInv
<1>1. TypeOK'
  BY DEF Sent, Log, Entered, FileError, Count, Become, disk, ghost, faults, TypeOK, Queued,
         TaskJob, LoopJob
<1>2. Stopped'
  BY DEF Sent, Log, Entered, FileError, Count, Become, disk, ghost, faults, TypeOK, Stopped,
         Waiting, MessageInv, TaskJob, LoopJob
<1>3. ASSUME NEW k \in Messages \ {m}
      PROVE  MessageInv(k)'
  <2>1. Same(k)
    BY DEF Sent, Log, Entered, FileError, Count, Become, disk, ghost, faults, TypeOK, Same
  <2>2. QED
    BY <2>1, SameKeeps
<1>4. MessageInv(m)'
  BY DEF Sent, Log, Entered, FileError, Count, Become, disk, ghost, faults, TypeOK, Envelope,
         Attempt, MessageInv, Untouched, FirstAttempt, InQueue, Waiting, SoFarTaken, Traced,
         Explained, Delivered, Bounded, Exact, Owed, Queued, TaskJob, LoopJob
<1>5. QED
  BY <1>1, <1>2, <1>3, <1>4

LEMMA EnqueueMessageIInv ==
    ASSUME IInv, NEW m \in Messages, EnqueueMessage(m)
    PROVE  IInv'
<1> USE QueueAssumption DEF IInv
<1>1. TypeOK'
  BY DEF EnqueueMessage, EnqueueFails, FailFor, FileError, Log, Entered, Count, Become,
         TypeOK, Queued, TaskJob, LoopJob
<1>2. Stopped'
  BY DEF EnqueueMessage, EnqueueFails, FailFor, FileError, Log, Entered, Count, Become,
         TypeOK, Stopped, Waiting, MessageInv, TaskJob, LoopJob
<1>3. ASSUME NEW k \in Messages \ {m}
      PROVE  MessageInv(k)'
  <2>1. Same(k)
    BY DEF EnqueueMessage, EnqueueFails, FailFor, FileError, Log, Entered, Count, Become,
           TypeOK, Same
  <2>2. QED
    BY <2>1, SameKeeps
<1>4. MessageInv(m)'
  BY DEF EnqueueMessage, EnqueueFails, FailFor, FileError, Log, Entered, Count, Become,
         TypeOK, Envelope, Attempt, MessageInv, Untouched, FirstAttempt, InQueue, Waiting,
         SoFarTaken, Traced, Explained, Delivered, Bounded, Exact, Owed, Queued, TaskJob,
         LoopJob
<1>5. QED
  BY <1>1, <1>2, <1>3, <1>4

LEMMA EnqueueMetaIInv ==
    ASSUME IInv, NEW m \in Messages, EnqueueMeta(m)
    PROVE  IInv'
<1> USE QueueAssumption DEF IInv
<1>1. TypeOK'
  BY DEF EnqueueMeta, EnqueueFails, FailFor, FileError, Log, Entered, Count, Become, TypeOK,
         Queued, TaskJob, LoopJob
<1>2. Stopped'
  BY DEF EnqueueMeta, EnqueueFails, FailFor, FileError, Log, Entered, Count, Become, TypeOK,
         Stopped, Waiting, MessageInv, TaskJob, LoopJob
<1>3. ASSUME NEW k \in Messages \ {m}
      PROVE  MessageInv(k)'
  <2>1. Same(k)
    BY DEF EnqueueMeta, EnqueueFails, FailFor, FileError, Log, Entered, Count, Become, TypeOK, Same
  <2>2. QED
    BY <2>1, SameKeeps
<1>4. MessageInv(m)'
  BY DEF EnqueueMeta, EnqueueFails, FailFor, FileError, Log, Entered, Count, Become, TypeOK,
         Envelope, Attempt, MessageInv, Untouched, FirstAttempt, InQueue, Waiting, SoFarTaken,
         Traced, Explained, Delivered, Bounded, Exact, Owed, Queued, TaskJob, LoopJob
<1>5. QED
  BY <1>1, <1>2, <1>3, <1>4

LEMMA ElapseIInv ==
    ASSUME IInv, NEW m \in Messages, Elapse(m)
    PROVE  IInv'
<1> USE QueueAssumption DEF IInv
<1>1. TypeOK'
  BY DEF Elapse, client, world, ghost, faults, TypeOK, Queued, TaskJob, LoopJob
<1>2. Stopped'
  BY DEF Elapse, client, world, ghost, faults, TypeOK, Stopped, Waiting, MessageInv, TaskJob,
         LoopJob
<1>3. ASSUME NEW k \in Messages \ {m}
      PROVE  MessageInv(k)'
  <2>1. Same(k)
    BY DEF Elapse, client, world, ghost, faults, TypeOK, Same
  <2>2. QED
    BY <2>1, SameKeeps
<1>4. MessageInv(m)'
  BY DEF Elapse, client, world, ghost, faults, TypeOK, Envelope, Attempt,
         MessageInv, Untouched, FirstAttempt, InQueue, Waiting, SoFarTaken, Traced, Explained,
         Delivered, Bounded, Exact, Owed, Queued, TaskJob, LoopJob
<1>5. QED
  BY <1>1, <1>2, <1>3, <1>4

LEMMA RetryIInv ==
    ASSUME IInv, NEW m \in Messages, Retry(m)
    PROVE  IInv'
<1> USE QueueAssumption DEF IInv
<1>1. TypeOK'
  BY BeginTyped DEF Retry, Become, client, disk, world, faults, TypeOK, Queued, TaskJob, LoopJob
<1>2. Stopped'
  BY DEF Retry, Begin, Become, client, disk, world, faults, TypeOK, Stopped, Waiting,
         MessageInv, TaskJob, LoopJob
<1>3. ASSUME NEW k \in Messages \ {m}
      PROVE  MessageInv(k)'
  <2>1. Same(k)
    BY DEF Retry, Begin, Become, client, disk, world, faults, TypeOK, Same
  <2>2. QED
    BY <2>1, SameKeeps
<1>4. MessageInv(m)'
  BY DEF Retry, Begin, Become, client, disk, world, faults, TypeOK, Envelope, Attempt,
         MessageInv, Untouched, FirstAttempt, InQueue, Waiting, SoFarTaken, Traced, Explained,
         Delivered, Bounded, Exact, Owed, Queued, TaskJob, LoopJob
<1>5. QED
  BY <1>1, <1>2, <1>3, <1>4

LEMMA RetriedIInv ==
    ASSUME IInv, NEW m \in Messages, Retried(m)
    PROVE  IInv'
<1> USE QueueAssumption DEF IInv
<1>1. TypeOK'
  BY DEF Retried, Backoff, Count, Become, client, disk, ghost, faults, TypeOK, Queued, TaskJob,
         LoopJob
<1>2. Stopped'
  BY DEF Retried, Backoff, Count, Become, client, disk, ghost, faults, TypeOK, Stopped, Waiting,
         MessageInv, TaskJob, LoopJob
<1>3. ASSUME NEW k \in Messages \ {m}
      PROVE  MessageInv(k)'
  <2>1. Same(k)
    BY DEF Retried, Backoff, Count, Become, client, disk, ghost, faults, TypeOK, Same
  <2>2. QED
    BY <2>1, SameKeeps
<1>4. MessageInv(m)'
  BY DEF Retried, Backoff, Count, Become, client, disk, ghost, faults, TypeOK, Envelope,
         Attempt,
         MessageInv, Untouched, FirstAttempt, InQueue, Waiting, SoFarTaken, Traced, Explained,
         Delivered, Bounded, Exact, Owed, Queued, TaskJob, LoopJob
<1>5. QED
  BY <1>1, <1>2, <1>3, <1>4

LEMMA DeferIInv ==
    ASSUME IInv, NEW m \in Messages, Defer(m)
    PROVE  IInv'
<1> USE QueueAssumption DEF IInv
<1>1. TypeOK'
  BY DEF Defer, FailFor, FileError, Become, client, world, TypeOK, Queued, TaskJob, LoopJob,
         MessageInv, InQueue
<1>2. Stopped'
  BY DEF Defer, FailFor, FileError, Become, client, world, TypeOK, Stopped, Waiting,
         MessageInv, TaskJob, LoopJob
<1>3. ASSUME NEW k \in Messages \ {m}
      PROVE  MessageInv(k)'
  <2>1. Same(k)
    BY DEF Defer, FailFor, FileError, Become, client, world, TypeOK, Same
  <2>2. QED
    BY <2>1, SameKeeps
<1>4. MessageInv(m)'
  BY DEF Defer, FailFor, FileError, Become, client, world, TypeOK, Envelope, Attempt,
         MessageInv, Untouched, FirstAttempt, InQueue, Waiting, SoFarTaken, Traced, Explained,
         Delivered, Bounded, Exact, Owed, Queued, TaskJob, LoopJob
<1>5. QED
  BY <1>1, <1>2, <1>3, <1>4

LEMMA ClearIInv ==
    ASSUME IInv, NEW m \in Messages, Clear(m)
    PROVE  IInv'
<1> USE QueueAssumption DEF IInv
<1>1. TypeOK'
  BY DEF Clear, Removed, Remains, FailFor, FileError, Become, client, world, TypeOK, Queued,
         TaskJob, LoopJob
<1>2. Stopped'
  BY DEF Clear, Removed, Remains, FailFor, FileError, Become, client, world, TypeOK, Stopped,
         Waiting, MessageInv, TaskJob, LoopJob
<1>3. ASSUME NEW k \in Messages \ {m}
      PROVE  MessageInv(k)'
  <2>1. Same(k)
    BY DEF Clear, Removed, Remains, FailFor, FileError, Become, client, world, TypeOK, Same
  <2>2. QED
    BY <2>1, SameKeeps
<1>4. MessageInv(m)'
  BY DEF Clear, Removed, Remains, FailFor, FileError, Become, client, world, TypeOK, Envelope,
         Attempt, MessageInv, Untouched, FirstAttempt, InQueue, Waiting, SoFarTaken, Traced,
         Explained, Delivered, Bounded, Exact, Owed, Queued, TaskJob, LoopJob
<1>5. QED
  BY <1>1, <1>2, <1>3, <1>4

LEMMA RefuseIInv ==
    ASSUME IInv, NEW m \in Messages, Refuse(m)
    PROVE  IInv'
<1> USE QueueAssumption DEF IInv
<1>1. TypeOK'
  BY DEF Refuse, Removed, Remains, FailFor, FileError, Become, client, world, TypeOK, Queued,
         TaskJob, LoopJob
<1>2. Stopped'
  BY DEF Refuse, Removed, Remains, FailFor, FileError, Become, client, world, TypeOK, Stopped,
         Waiting, MessageInv, TaskJob, LoopJob
<1>3. ASSUME NEW k \in Messages \ {m}
      PROVE  MessageInv(k)'
  <2>1. Same(k)
    BY DEF Refuse, Removed, Remains, FailFor, FileError, Become, client, world, TypeOK, Same
  <2>2. QED
    BY <2>1, SameKeeps
<1>4. MessageInv(m)'
  BY DEF Refuse, Removed, Remains, FailFor, FileError, Become, client, world, TypeOK,
         Envelope, Attempt, MessageInv, Untouched, FirstAttempt, InQueue, Waiting, SoFarTaken,
         Traced, Explained, Delivered, Bounded, Exact, Owed, Queued, TaskJob, LoopJob
<1>5. QED
  BY <1>1, <1>2, <1>3, <1>4

LEMMA ExpireIInv ==
    ASSUME IInv, NEW m \in Messages, Expire(m)
    PROVE  IInv'
<1> USE QueueAssumption DEF IInv
<1>1. TypeOK'
  BY DEF Expire, Removed, Remains, FailFor, FileError, Count, Become, client, TypeOK, Queued,
         TaskJob, LoopJob
<1>2. Stopped'
  BY DEF Expire, Removed, Remains, FailFor, FileError, Count, Become, client, TypeOK, Stopped,
         Waiting, MessageInv, TaskJob, LoopJob
<1>3. ASSUME NEW k \in Messages \ {m}
      PROVE  MessageInv(k)'
  <2>1. Same(k)
    BY DEF Expire, Removed, Remains, FailFor, FileError, Count, Become, client, TypeOK, Same
  <2>2. QED
    BY <2>1, SameKeeps
<1>4. MessageInv(m)'
  BY DEF Expire, Removed, Remains, FailFor, FileError, Count, Become, client, TypeOK,
         Envelope, Attempt, MessageInv, Untouched, FirstAttempt, InQueue, Waiting, SoFarTaken,
         Traced, Explained, Delivered, Bounded, Exact, Owed, Queued, TaskJob, LoopJob
<1>5. QED
  BY <1>1, <1>2, <1>3, <1>4

LEMMA ReportIInv ==
    ASSUME IInv, NEW m \in Messages, Report(m)
    PROVE  IInv'
<1> USE QueueAssumption DEF IInv
<1>1. TypeOK'
  BY DEF Report, FailFor, FileError, Become, client, disk, TypeOK, Queued, TaskJob, LoopJob
<1>2. Stopped'
  BY DEF Report, FailFor, FileError, Become, client, disk, TypeOK, Stopped, Waiting,
         MessageInv, TaskJob, LoopJob
<1>3. ASSUME NEW k \in Messages \ {m}
      PROVE  MessageInv(k)'
  <2>1. Same(k)
    BY DEF Report, FailFor, FileError, Become, client, disk, TypeOK, Same
  <2>2. QED
    BY <2>1, SameKeeps
<1>4. MessageInv(m)'
  BY DEF Report, FailFor, FileError, Become, client, disk, TypeOK, Envelope, Attempt,
         MessageInv, Untouched, FirstAttempt, InQueue, Waiting, SoFarTaken, Traced, Explained,
         Delivered, Bounded, Exact, Owed, Queued, TaskJob, LoopJob
<1>5. QED
  BY <1>1, <1>2, <1>3, <1>4

-----------------------------------------------------------------------------
(* The steps that are about no message, or about all of them.               *)

LEMMA TickIInv ==
    ASSUME IInv, Tick
    PROVE  IInv'
<1> USE QueueAssumption DEF IInv
<1>1. TypeOK' /\ Stopped'
  BY DEF Tick, client, disk, world, ghost, faults, TypeOK, Stopped, Queued
<1>2. ASSUME NEW k \in Messages
      PROVE  MessageInv(k)'
  <2>1. Untouched(k)' /\ FirstAttempt(k)' /\ InQueue(k)'
    BY DEF Tick, client, disk, world, ghost, faults, MessageInv, Untouched, FirstAttempt,
           InQueue, Queued
  <2>2. SoFarTaken(k)' /\ Traced(k)' /\ Bounded(k)' /\ Exact(k)'
    BY DEF Tick, client, disk, world, ghost, faults, MessageInv, SoFarTaken, Traced, Explained,
           Delivered, Bounded, Owed, Exact, Queued
  <2>3. Waiting(k)'
    BY DEF Tick, client, disk, TypeOK, MessageInv, FirstAttempt, Waiting, Queued, LoopBusy,
           TaskJob
  <2>4. QED
    BY <2>1, <2>2, <2>3 DEF MessageInv
<1>3. QED
  BY <1>1, <1>2

LEMMA RestartIInv ==
    ASSUME IInv, Restart
    PROVE  IInv'
<1> USE DEF IInv
<1>1. TypeOK' /\ Stopped'
  BY DEF Restart, ProcessStarts, client, disk, world, ghost, faults, TypeOK, Stopped, Queued
<1>2. ASSUME NEW k \in Messages
      PROVE  MessageInv(k)'
  <2>1. Same(k)
    BY DEF Restart, ProcessStarts, client, disk, world, ghost, faults, TypeOK, Same
  <2>2. QED
    BY <2>1, SameKeeps
<1>3. QED
  BY <1>1, <1>2

\* What a crash may find of k's directory: as it was, or partly gone if it was being removed.
LEMMA CrashDisk ==
    ASSUME IInv, Crash, NEW k \in Messages
    PROVE  \/ meta'[k] = meta[k] /\ (k \in eml' <=> k \in eml)
           \/ /\ job[k] \in Removing
              /\ meta'[k] \in {meta[k], 0}
              /\ k \in eml' => k \in eml
<1>1. CASE UNCHANGED disk
  BY <1>1 DEF disk
<1>2. ASSUME NEW m \in Messages, job[m] \in Removing, Remains(m)
      PROVE  \/ meta'[k] = meta[k] /\ (k \in eml' <=> k \in eml)
             \/ /\ job[k] \in Removing
                /\ meta'[k] \in {meta[k], 0}
                /\ k \in eml' => k \in eml
  BY <1>2 DEF Remains, IInv, TypeOK
<1>3. QED
  BY <1>1, <1>2 DEF Crash, ProcessEnds

LEMMA CrashIInv ==
    ASSUME IInv, Crash
    PROVE  IInv'
<1> USE QueueAssumption DEF IInv
<1>1. eml' \subseteq Messages /\ meta' \in [Messages -> 0 .. Schedule]
      /\ due' \subseteq {m \in Messages : meta'[m] > 0}
  <2>1. CASE UNCHANGED disk
    BY <2>1 DEF disk, TypeOK, Queued
  <2>2. ASSUME NEW m \in Messages, Remains(m)
        PROVE  eml' \subseteq Messages /\ meta' \in [Messages -> 0 .. Schedule]
               /\ due' \subseteq {k \in Messages : meta'[k] > 0}
    BY <2>2 DEF Remains, TypeOK
  <2>3. QED
    BY <2>1, <2>2 DEF Crash, ProcessEnds
<1>2. TypeOK'
  <2>1. Exposed \subseteq {m \in Messages : job[m] # "idle"}
    BY DEF Exposed, TaskJob
  <2>2. disturbed' \subseteq Messages /\ excused' \subseteq Messages
    BY <2>1 DEF Crash, ProcessEnds, TypeOK
  <2>3. up' \in BOOLEAN /\ job' \in [Messages -> {"idle"}] /\ batch' \subseteq Messages
    BY DEF Crash, ProcessEnds
  <2>4. job' \in [Messages -> {"idle"} \cup TaskJob \cup LoopJob]
    BY <2>3
  <2>5. due' \subseteq {m \in Messages : Queued(m)'}
    BY <1>1 DEF Queued
  <2>6. crashes' \in Nat /\ failures' \in Nat
    BY DEF Crash, ProcessEnds, TypeOK
  <2>7. QED
    BY <1>1, <2>2, <2>3, <2>4, <2>5, <2>6 DEF Crash, ProcessEnds, client, world, TypeOK
<1>3. Stopped'
  BY DEF Crash, ProcessEnds, Stopped
<1>4. ASSUME NEW k \in Messages
      PROVE  MessageInv(k)'
  <2>1. job'[k] = "idle" /\ up' = FALSE /\ k \notin batch' /\ crashes' = crashes + 1
        /\ failures' = failures
    BY DEF Crash, ProcessEnds
  <2>2. /\ UNCHANGED <<envelope, told, activity, dlv, taken, counted, notice, tries>>
        /\ k \in disturbed' <=> k \in disturbed \/ job[k] # "idle"
        /\ k \in excused' <=> k \in excused \/ k \in Exposed
    BY DEF Crash, ProcessEnds, client, world
  <2>3. k \in Exposed <=> \/ job[k] \in TaskJob \cup {"reporting"}
                          \/ /\ job[k] \in {"refusing", "expiring"}
                             /\ (k \in eml /\ k \notin eml') \/ meta[k] # meta'[k]
    BY DEF Exposed
  <2>4. meta[k] \in 0 .. Schedule /\ meta'[k] \in 0 .. Schedule
    BY <1>2 DEF TypeOK
  <2>5. job[k] \in {"idle"} \cup TaskJob \cup LoopJob
    BY DEF TypeOK
  <2>6. Untouched(k)' /\ FirstAttempt(k)' /\ InQueue(k)' /\ Waiting(k)' /\ SoFarTaken(k)'
    BY <2>1, <2>2, <2>4, CrashDisk
    DEF MessageInv, Untouched, FirstAttempt, InQueue, Waiting, SoFarTaken, Queued, TaskJob,
        LoopJob, Removing
  <2>7. Traced(k)'
    BY <2>1, <2>2, <2>3, <2>5, CrashDisk
    DEF MessageInv, InQueue, SoFarTaken, Traced, Explained, Delivered, Queued, TaskJob,
        LoopJob, Removing
  <2>8. Bounded(k)'
    BY <2>1, <2>2, <2>4, CrashDisk
    DEF TypeOK, MessageInv, InQueue, Bounded, Owed, Queued, TaskJob, LoopJob, Removing
  <2>9. Exact(k)'
    BY <2>1, <2>2, CrashDisk DEF MessageInv, Exact, Queued, Removing, LoopJob
  <2>10. QED
    BY <2>6, <2>7, <2>8, <2>9 DEF MessageInv
<1>5. QED
  BY <1>2, <1>3, <1>4

LEMMA NextIInv == IInv /\ [Next]_vars => IInv'
<1> SUFFICES ASSUME IInv, [Next]_vars
             PROVE  IInv'
  OBVIOUS
<1>1. ASSUME NEW m \in Messages, Submit(m) \/ Converse(m) \/ Elapse(m)
      PROVE  IInv'
  BY <1>1, SubmitIInv, ConverseIInv, ElapseIInv
<1>2. ASSUME NEW m \in Messages, Task(m)
      PROVE  IInv'
  BY <1>2, SentIInv, EnqueueMessageIInv, EnqueueMetaIInv DEF Task
<1>3. ASSUME NEW m \in Messages, RetryOne(m)
      PROVE  IInv'
  BY <1>3, RetryIInv, RetriedIInv, DeferIInv, ClearIInv, RefuseIInv, ExpireIInv, ReportIInv
  DEF RetryOne
<1>4. CASE Tick \/ Crash \/ Restart
  BY <1>4, TickIInv, CrashIInv, RestartIInv
<1>5. CASE UNCHANGED vars
  <2>1. TypeOK' /\ Stopped'
    BY <1>5 DEF vars, client, disk, world, ghost, faults, IInv, TypeOK, Stopped, Queued
  <2>2. ASSUME NEW k \in Messages
        PROVE  MessageInv(k)'
    <3>1. Same(k)
      BY <1>5 DEF vars, client, disk, world, ghost, faults, IInv, TypeOK, Same
    <3>2. QED
      BY <3>1, SameKeeps DEF IInv
  <2>3. QED
    BY <2>1, <2>2 DEF IInv
<1>6. QED
  BY <1>1, <1>2, <1>3, <1>4, <1>5 DEF Next

\* Every state of the queue satisfies the inductive invariant, for any messages, domains,
\* schedule, crashes and failures.
THEOREM QueueInvariant == Spec => []IInv
<1>1. QED
  BY InitIInv, NextIInv, PTL DEF Spec

-----------------------------------------------------------------------------
(* What it says of the runs' properties.                                   *)

LEMMA QueueIsTyped == Spec => []TypeOK
<1>1. IInv => TypeOK
  BY DEF IInv
<1>2. QED
  BY <1>1, QueueInvariant, PTL

\* No mail vanishes: whatever fails and whenever the relay dies, a message the client was
\* told is sent is worked on, queued with its content, taken by all its domains, or said to
\* have failed, unless a fault struck where nothing on disk tells of it.
THEOREM NoMailVanishes == Spec => []Accounted
<1>1. IInv => Accounted
  <2> SUFFICES ASSUME IInv, NEW m \in told
               PROVE  \/ job[m] # "idle"
                      \/ Queued(m) /\ m \in eml
                      \/ Delivered(m)
                      \/ activity[m] = "failed"
                      \/ m \in notice
                      \/ m \in excused
    BY DEF Accounted
  <2>1. m \in Messages
    BY DEF IInv, TypeOK
  <2>2. QED
    BY <2>1 DEF IInv, MessageInv, Traced, Explained
<1>2. QED
  BY <1>1, QueueInvariant, PTL

\* The number of attempts on disk is the number made, and faults add at most one each.
THEOREM AttemptsAreCounted == Spec => []AttemptsCounted
<1>1. IInv => AttemptsCounted
  BY DEF IInv, MessageInv, Bounded, Exact, AttemptsCounted
<1>2. QED
  BY <1>1, QueueInvariant, PTL

\* A message that was counted, and that nothing disturbed, is counted once, is not tried
\* again and leaves the queue.
THEOREM OneOutcome == Spec => []OutcomeIsFinal
<1>1. IInv => OutcomeIsFinal
  <2> SUFFICES ASSUME IInv, NEW m \in Messages \ disturbed, counted[m] > 0
               PROVE  /\ counted[m] = 1
                      /\ job[m] \in {"idle", "clearing", "refusing", "reporting"}
                      /\ job[m] \in {"idle", "reporting"} => ~ Queued(m) /\ m \notin eml
                      /\ m \notin batch
    BY DEF OutcomeIsFinal
  <2>1. MessageInv(m) /\ counted[m] \in Nat /\ job[m] \in {"idle"} \cup TaskJob \cup LoopJob
    BY DEF IInv, TypeOK
  <2>2. QED
    BY <2>1 DEF MessageInv, FirstAttempt, Waiting, Exact, TaskJob, LoopJob
<1>2. QED
  BY <1>1, QueueInvariant, PTL

-----------------------------------------------------------------------------
(* Web Push, for any accounts, endpoints, deliveries, failed writes and    *)
(* crashes.  The registry runs in the process whose queue is proved about  *)
(* above and has a state of its own.                                       *)

\* The subscriptions of a list that the push service honours.
Live(list) == {s \in list : s[2] \in honoured}

\* What is in memory and in its file are subscriptions, and so is what a round is about.
RegistryTypes ==
    /\ up => subs \subseteq Subscriptions
    /\ file # Torn => file \subseteq Subscriptions
    /\ round \in [Threads -> SUBSET Subscriptions]
    /\ prune \in [Threads -> SUBSET Subscriptions]
    /\ saving \in BOOLEAN /\ spoiled \in BOOLEAN

\* PushKept, while the relay is down of what a start will load; the file tells what is in
\* memory unless it is being written or the last save has failed; and what a round has still
\* to remove is honoured no more.
RegistryInv ==
    /\ RegistryTypes
    /\ up /\ ~saving /\ ~spoiled => Load(file) = subs
    /\ \A t \in Threads : \A s \in prune[t] : s[2] \notin honoured
    /\ Live(IF up THEN subs ELSE Load(file)) = Live(owed)

-----------------------------------------------------------------------------
LEMMA RegistryInit == PushInit => RegistryInv
BY DEF PushInit, HubInit, RegistryInv, RegistryTypes, Live, Load

\* The event stream and the threads that announce are no concern of the registry.
LEMMA RegistryUnaffected ==
    ASSUME RegistryInv, UNCHANGED pushVars, UNCHANGED up
    PROVE  RegistryInv'
BY DEF RegistryInv, RegistryTypes, pushVars, Subscriptions, Load, Live

LEMMA RegistryStreams ==
    ASSUME RegistryInv, HubNext \/ (\E t \in Threads : Done(t)), UNCHANGED pushVars
    PROVE  RegistryInv'
<1>1. UNCHANGED up
  BY DEF HubNext, Done, StoreSilently, Store, Notify, Subscribe,
         Receive, WriteFrame, Poll, WriteFails, Read, Fetch, Lose
<1>. QED  BY <1>1, RegistryUnaffected

\* The round starts with subscriptions in memory.
LEMMA RegistryStartRound ==
    ASSUME RegistryInv, NEW t \in Threads, NEW a \in Accounts, StartRound(t, a)
    PROVE  RegistryInv'
BY DEF StartRound, RegistryInv, RegistryTypes, Load, Subscriptions, Live

\* A subscription is to be removed only when the service has answered 404, and it answers so
\* of one it does not honour.
LEMMA RegistrySend ==
    ASSUME RegistryInv, NEW t \in Threads, Send(t)
    PROVE  RegistryInv'
<1>. USE DEF Send
<1>1. PICK s \in round[t] : \E answer \in Answers(s[2]) :
          /\ round' = [round EXCEPT ![t] = @ \ {s}]
          /\ prune' = [prune EXCEPT ![t] = IF Classify(answer) = "gone" THEN @ \cup {s} ELSE @]
  OBVIOUS
<1>2. PICK answer \in Answers(s[2]) :
          /\ round' = [round EXCEPT ![t] = @ \ {s}]
          /\ prune' = [prune EXCEPT ![t] = IF Classify(answer) = "gone" THEN @ \cup {s} ELSE @]
  BY <1>1
<1>3. Classify(answer) = "gone" => s[2] \notin honoured
  BY DEF Classify, Answers
<1>4. s \in Subscriptions
  BY DEF RegistryInv, RegistryTypes
<1>5. UNCHANGED <<up, subs, file, honoured, owed, saving, spoiled>>
  BY DEF hubVars
<1>6. RegistryTypes'
  <2>1. round' \in [Threads -> SUBSET Subscriptions]
    BY <1>2 DEF RegistryInv, RegistryTypes
  <2>2. prune' \in [Threads -> SUBSET Subscriptions]
    BY <1>2, <1>4 DEF RegistryInv, RegistryTypes
  <2>. QED  BY <1>5, <2>1, <2>2 DEF RegistryInv, RegistryTypes, Subscriptions
<1>7. (\A u \in Threads : \A p \in prune[u] : p[2] \notin honoured)'
  BY <1>2, <1>3, <1>5 DEF RegistryInv, RegistryTypes
<1>. QED  BY <1>5, <1>6, <1>7 DEF RegistryInv, Load, Live

\* What it removes is in nobody's live subscriptions.
LEMMA RegistryPrune ==
    ASSUME RegistryInv, NEW t \in Threads, Prune(t)
    PROVE  RegistryInv'
<1>1. PICK s \in prune[t] :
          /\ Remove(s[1], s[2])
          /\ prune' = [prune EXCEPT ![t] = @ \ {s}]
          /\ UNCHANGED <<hubVars, round, honoured, owed, spoiled, failures>>
  BY DEF Prune
<1>2. /\ up /\ up' = up /\ saving' = TRUE /\ UNCHANGED <<round, honoured, owed, spoiled>>
      /\ subs' = subs \ {<<s[1], s[2]>>} /\ file' \in {file, Torn}
  BY <1>1 DEF Remove, Save, hubVars
<1>3. s[2] \notin honoured
  BY DEF RegistryInv
<1>4. prune' \in [Threads -> SUBSET Subscriptions]
  BY <1>1 DEF RegistryInv, RegistryTypes
<1>5. \A u \in Threads : prune'[u] \subseteq prune[u]
  BY <1>1 DEF RegistryInv, RegistryTypes
<1>6. Live(subs)' = Live(subs)
  BY <1>2, <1>3 DEF Live
<1>. QED  BY <1>2, <1>4, <1>5, <1>6 DEF RegistryInv, RegistryTypes, Subscriptions, Live

LEMMA RegistryAdd ==
    ASSUME RegistryInv, NEW a \in Accounts, NEW e \in Endpoints, Add(a, e)
    PROVE  RegistryInv'
<1>1. /\ up /\ up' = up /\ UNCHANGED <<round, prune, honoured, spoiled>>
      /\ subs' = subs \cup {<<a, e>>} /\ owed' = owed \cup {<<a, e>>} /\ file' \in {file, Torn}
      /\ \/ saving' = TRUE
         \/ UNCHANGED <<saving, file, subs>>
  BY DEF Add, Save, hubVars
<1>2. <<a, e>> \in Subscriptions
  BY DEF Subscriptions
<1>3. Live(subs)' = Live(owed)'
  BY <1>1 DEF Live, RegistryInv
<1>4. RegistryTypes'
  BY <1>1, <1>2 DEF RegistryInv, RegistryTypes, Subscriptions
<1>5. up' /\ ~saving' /\ ~spoiled' => Load(file)' = subs'
  BY <1>1 DEF RegistryInv, Load
<1>. QED  BY <1>1, <1>3, <1>4, <1>5 DEF RegistryInv, Live

LEMMA RegistryUnsubscribe ==
    ASSUME RegistryInv, NEW a \in Accounts, NEW e \in Endpoints, Unsubscribe(a, e)
    PROVE  RegistryInv'
<1>1. /\ up /\ up' = up /\ saving' = TRUE /\ UNCHANGED <<round, prune, honoured, spoiled>>
      /\ subs' = subs \ {<<a, e>>} /\ owed' = owed \ {<<a, e>>} /\ file' \in {file, Torn}
  BY DEF Unsubscribe, Remove, Save, hubVars
<1>2. Live(subs)' = Live(owed)'
  BY <1>1 DEF Live, RegistryInv
<1>. QED  BY <1>1, <1>2 DEF RegistryInv, RegistryTypes, Subscriptions, Live

\* What the service no longer honours is no longer live in either list.
LEMMA RegistryExpire ==
    ASSUME RegistryInv, NEW e \in Endpoints, PushExpire(e)
    PROVE  RegistryInv'
<1>1. /\ honoured' = honoured \ {e}
      /\ UNCHANGED <<up, subs, file, round, prune, owed, saving, spoiled>>
  BY DEF PushExpire, hubVars
<1>2. RegistryTypes'
  BY <1>1 DEF RegistryInv, RegistryTypes, Subscriptions
<1>3. (\A t \in Threads : \A s \in prune[t] : s[2] \notin honoured)'
  BY <1>1 DEF RegistryInv
<1>4. Live(IF up THEN subs ELSE Load(file))' = Live(owed)'
  BY <1>1 DEF RegistryInv, Live, Load
<1>. QED  BY <1>1, <1>2, <1>3, <1>4 DEF RegistryInv

\* The end of a write and its failure: the file changes, the process is up.
LEMMA RegistrySaved ==
    ASSUME RegistryInv, SaveDone \/ SaveFails
    PROVE  RegistryInv'
<1>1. /\ up /\ file' \in {subs, file} /\ saving' = FALSE
      /\ (file' = subs /\ spoiled' = FALSE) \/ spoiled' = TRUE
      /\ UNCHANGED <<up, subs, round, prune, honoured, owed>>
  BY DEF SaveDone, SaveFails, FileError, hubVars
<1>2. RegistryTypes'
  BY <1>1 DEF RegistryInv, RegistryTypes, Subscriptions
<1>3. file' = subs => Load(file)' = subs'
  BY <1>1, PushAssumption DEF RegistryInv, RegistryTypes, Subscriptions, Load
<1>. QED  BY <1>1, <1>2, <1>3 DEF RegistryInv, Live

\* Either the file holds what was in memory or what a start will load is what is owed.
LEMMA RegistryCrash ==
    ASSUME RegistryInv, PushCrash
    PROVE  RegistryInv'
<1>1. /\ up /\ ~ up' /\ UNCHANGED <<subs, file, honoured>>
      /\ owed' = IF saving \/ spoiled THEN Load(file) ELSE owed
      /\ saving' = FALSE /\ spoiled' = FALSE
      /\ round' = [t \in Threads |-> {}] /\ prune' = [t \in Threads |-> {}]
  BY DEF PushCrash, HubCrash, ProcessEnds
<1>2. RegistryTypes'
  BY <1>1 DEF RegistryInv, RegistryTypes, Subscriptions
<1>3. Live(Load(file))' = Live(owed)'
  <2>1. CASE saving \/ spoiled
    BY <1>1, <2>1 DEF Live, Load
  <2>2. CASE ~saving /\ ~spoiled
    <3>1. Load(file) = subs /\ Live(subs) = Live(owed)
      BY <1>1, <2>2 DEF RegistryInv
    <3>. QED  BY <1>1, <2>2, <3>1 DEF Live, Load
  <2>. QED  BY <2>1, <2>2
<1>. QED  BY <1>1, <1>2, <1>3 DEF RegistryInv

LEMMA RegistryStart ==
    ASSUME RegistryInv, Start
    PROVE  RegistryInv'
<1>1. /\ ~ up /\ up' /\ subs' = Load(file)
      /\ UNCHANGED <<file, saving, round, prune, honoured, owed, spoiled>>
  BY DEF Start, HubStart, ProcessStarts
<1>. QED  BY <1>1 DEF RegistryInv, RegistryTypes, Subscriptions, Live, Load

(* The relay pushes to the subscriptions its users asked for and have not    *)
(* taken back, as far as the push service honours them (jmapserver/push.rs,  *)
(* jmapsmtp/webpush.rs), for any accounts, endpoints, deliveries, failed     *)
(* writes and crashes: no refusal but a 404 ends a subscription, and a       *)
(* removal that comes late removes nothing that is live.                     *)
THEOREM PushIsKept == PushSpec => []PushKept
<1>1. RegistryInv => PushKept
  BY DEF RegistryInv, PushKept, Live
<1>2. RegistryInv /\ [PushNext]_eventVars => RegistryInv'
  <2>. SUFFICES ASSUME RegistryInv, [PushNext]_eventVars PROVE RegistryInv'
    OBVIOUS
  <2>1. CASE UNCHANGED eventVars
    BY <2>1, RegistryUnaffected DEF eventVars, hubVars
  <2>2. CASE PushNext
    BY <2>2, RegistryStreams, RegistryStartRound, RegistrySend, RegistryPrune, RegistryAdd,
       RegistryUnsubscribe, RegistryExpire, RegistrySaved, RegistryCrash,
       RegistryStart DEF PushNext
  <2>. QED  BY <2>1, <2>2
<1>. QED  BY RegistryInit, <1>1, <1>2, PTL DEF PushSpec

=============================================================================
