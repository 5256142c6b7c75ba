---------------------------- MODULE StoreProofs ----------------------------
(***************************************************************************)
(* Safety of the store for any ids, flags, threads and bounds: the meaning *)
(* of a change log window, types, the completeness of the change log, the  *)
(* agreement of disk and index, the refinement of the change feed, and     *)
(* that a client following it is never silently stale.                     *)
(***************************************************************************)
EXTENDS StoreSync, WellFoundedInduction, TLAPS

-----------------------------------------------------------------------------
(* Change log windows.  The loop of fold_changes computes NetChanges: it     *)
(* starts from it on an empty window, and each iteration takes it one        *)
(* version further.                                                          *)

\* Membership of an id in each of the three sets, one version further.
LEMMA CreatedStep ==
    ASSUME NEW log, NEW from \in Int, NEW v \in Int, from <= v, NEW id
    PROVE  CreatedIn(log, from, v + 1, id) <=>
               /\ CreatedIn(log, from, v, id) \/ id \in log[v + 1].added
               /\ id \notin log[v + 1].removed
<1>1. ASSUME CreatedIn(log, from, v + 1, id)
      PROVE  /\ CreatedIn(log, from, v, id) \/ id \in log[v + 1].added
             /\ id \notin log[v + 1].removed
  <2>1. PICK u \in from + 1 .. v + 1 :
            id \in log[u].added /\ \A w \in u .. v + 1 : id \notin log[w].removed
    BY <1>1 DEF CreatedIn
  <2>2. id \notin log[v + 1].removed
    BY <2>1
  <2>3. CASE u = v + 1
    BY <2>1, <2>2, <2>3
  <2>4. CASE u # v + 1
    <3>1. u \in from + 1 .. v /\ \A w \in u .. v : w \in u .. v + 1
      BY <2>4
    <3>2. QED
      BY <2>1, <2>2, <3>1 DEF CreatedIn
  <2>5. QED
    BY <2>3, <2>4
<1>2. ASSUME CreatedIn(log, from, v, id), id \notin log[v + 1].removed
      PROVE  CreatedIn(log, from, v + 1, id)
  <2>1. PICK u \in from + 1 .. v :
            id \in log[u].added /\ \A w \in u .. v : id \notin log[w].removed
    BY <1>2 DEF CreatedIn
  <2>2. u \in from + 1 .. v + 1 /\ \A w \in u .. v + 1 : w \in u .. v \/ w = v + 1
    OBVIOUS
  <2>3. QED
    BY <1>2, <2>1, <2>2 DEF CreatedIn
<1>3. ASSUME id \in log[v + 1].added, id \notin log[v + 1].removed
      PROVE  CreatedIn(log, from, v + 1, id)
  <2>1. v + 1 \in from + 1 .. v + 1 /\ \A w \in v + 1 .. v + 1 : w = v + 1
    OBVIOUS
  <2>2. QED
    BY <1>3, <2>1 DEF CreatedIn
<1>4. QED
  BY <1>1, <1>2, <1>3

LEMMA DestroyedStep ==
    ASSUME NEW log, NEW from \in Int, NEW v \in Int, from <= v, NEW id
    PROVE  DestroyedIn(log, from, v + 1, id) <=>
               \/ DestroyedIn(log, from, v, id) /\ id \notin log[v + 1].added
               \/ id \in log[v + 1].removed
<1>1. ASSUME DestroyedIn(log, from, v + 1, id), id \notin log[v + 1].removed
      PROVE  DestroyedIn(log, from, v, id) /\ id \notin log[v + 1].added
  <2>1. PICK u \in from + 1 .. v + 1 :
            id \in log[u].removed /\ \A w \in u + 1 .. v + 1 : id \notin log[w].added
    BY <1>1 DEF DestroyedIn
  <2>2. u # v + 1
    BY <1>1, <2>1
  <2>3. u \in from + 1 .. v /\ v + 1 \in u + 1 .. v + 1
        /\ \A w \in u + 1 .. v : w \in u + 1 .. v + 1
    BY <2>2
  <2>4. QED
    BY <2>1, <2>3 DEF DestroyedIn
<1>2. ASSUME DestroyedIn(log, from, v, id), id \notin log[v + 1].added
      PROVE  DestroyedIn(log, from, v + 1, id)
  <2>1. PICK u \in from + 1 .. v :
            id \in log[u].removed /\ \A w \in u + 1 .. v : id \notin log[w].added
    BY <1>2 DEF DestroyedIn
  <2>2. u \in from + 1 .. v + 1 /\ \A w \in u + 1 .. v + 1 : w \in u + 1 .. v \/ w = v + 1
    OBVIOUS
  <2>3. QED
    BY <1>2, <2>1, <2>2 DEF DestroyedIn
<1>3. ASSUME id \in log[v + 1].removed
      PROVE  DestroyedIn(log, from, v + 1, id)
  <2>1. v + 1 \in from + 1 .. v + 1 /\ v + 2 .. v + 1 = {}
    OBVIOUS
  <2>2. QED
    BY <1>3, <2>1 DEF DestroyedIn
<1>4. QED
  BY <1>1, <1>2, <1>3

LEMMA UpdatedStep ==
    ASSUME NEW log, NEW from \in Int, NEW v \in Int, from <= v, NEW id
    PROVE  UpdatedIn(log, from, v + 1, id) <=>
               /\ \/ UpdatedIn(log, from, v, id)
                  \/ /\ id \in log[v + 1].updated
                     /\ id \notin log[v + 1].added
                     /\ ~ CreatedIn(log, from, v, id)
               /\ id \notin log[v + 1].removed
<1> DEFINE Upd(u) == /\ id \in log[u].updated
                     /\ id \notin log[u].added
                     /\ ~ CreatedIn(log, from, u - 1, id)
<1> HIDE DEF Upd
<1>1. ASSUME UpdatedIn(log, from, v + 1, id)
      PROVE  /\ UpdatedIn(log, from, v, id) \/ Upd(v + 1)
             /\ id \notin log[v + 1].removed
  <2>1. PICK u \in from + 1 .. v + 1 :
            Upd(u) /\ \A w \in u .. v + 1 : id \notin log[w].removed
    BY <1>1 DEF UpdatedIn, Upd
  <2>2. id \notin log[v + 1].removed
    BY <2>1
  <2>3. CASE u = v + 1
    BY <2>1, <2>2, <2>3
  <2>4. CASE u # v + 1
    <3>1. u \in from + 1 .. v /\ \A w \in u .. v : w \in u .. v + 1
      BY <2>4
    <3>2. QED
      BY <2>1, <2>2, <3>1 DEF UpdatedIn, Upd
  <2>5. QED
    BY <2>3, <2>4
<1>2. ASSUME UpdatedIn(log, from, v, id), id \notin log[v + 1].removed
      PROVE  UpdatedIn(log, from, v + 1, id)
  <2>1. PICK u \in from + 1 .. v :
            Upd(u) /\ \A w \in u .. v : id \notin log[w].removed
    BY <1>2 DEF UpdatedIn, Upd
  <2>2. u \in from + 1 .. v + 1 /\ \A w \in u .. v + 1 : w \in u .. v \/ w = v + 1
    OBVIOUS
  <2>3. QED
    BY <1>2, <2>1, <2>2 DEF UpdatedIn, Upd
<1>3. ASSUME Upd(v + 1), id \notin log[v + 1].removed
      PROVE  UpdatedIn(log, from, v + 1, id)
  <2>1. v + 1 \in from + 1 .. v + 1 /\ \A w \in v + 1 .. v + 1 : w = v + 1
    OBVIOUS
  <2>2. QED
    BY <1>3, <2>1 DEF UpdatedIn, Upd
<1>4. Upd(v + 1) <=> /\ id \in log[v + 1].updated
                     /\ id \notin log[v + 1].added
                     /\ ~ CreatedIn(log, from, v, id)
  <2>1. (v + 1) - 1 = v
    OBVIOUS
  <2>2. QED
    BY <2>1 DEF Upd
<1>5. QED
  BY <1>1, <1>2, <1>3, <1>4

-----------------------------------------------------------------------------
(* Before the first iteration, acc holds the net changes of no version.      *)
LEMMA FoldStart ==
    ASSUME NEW log, NEW from \in Int
    PROVE  NetChanges(log, from, from) = NoChanges
<1>1. from + 1 .. from = {}
  OBVIOUS
<1>2. QED
  BY <1>1 DEF NetChanges, NoChanges, CreatedIn, UpdatedIn, DestroyedIn

(* The loop invariant of fold_changes: if acc holds the net changes of the   *)
(* window up to v, the iteration for v + 1 makes it hold those up to v + 1.  *)
THEOREM FoldIteration ==
    ASSUME NEW log, NEW from \in Int, NEW v \in Int, from <= v,
           log[v + 1] \in ChangeRecord
    PROVE  ApplyRecord(NetChanges(log, from, v), log[v + 1])
               = NetChanges(log, from, v + 1)
<1> DEFINE old == NetChanges(log, from, v)
           new == NetChanges(log, from, v + 1)
           rec == log[v + 1]
<1>1. rec.added \subseteq Ids /\ rec.updated \subseteq Ids /\ rec.removed \subseteq Ids
  BY DEF ChangeRecord
<1>2. new.created = (old.created \cup rec.added) \ rec.removed
  <2>1. \A id \in Ids : id \in new.created <=>
            id \in (old.created \cup rec.added) \ rec.removed
    BY CreatedStep DEF NetChanges
  <2>2. new.created \subseteq Ids /\ old.created \subseteq Ids
    BY DEF NetChanges
  <2>3. QED
    BY <1>1, <2>1, <2>2
<1>3. new.destroyed = (old.destroyed \ rec.added) \cup rec.removed
  <2>1. \A id \in Ids : id \in new.destroyed <=>
            id \in (old.destroyed \ rec.added) \cup rec.removed
    BY DestroyedStep DEF NetChanges
  <2>2. new.destroyed \subseteq Ids /\ old.destroyed \subseteq Ids
    BY DEF NetChanges
  <2>3. QED
    BY <1>1, <2>1, <2>2
<1>4. new.updated = (old.updated \cup (rec.updated \ (old.created \cup rec.added)))
                        \ rec.removed
  <2>1. \A id \in Ids : id \in new.updated <=>
            id \in (old.updated \cup (rec.updated \ (old.created \cup rec.added)))
                       \ rec.removed
    BY UpdatedStep DEF NetChanges
  <2>2. new.updated \subseteq Ids /\ old.updated \subseteq Ids
    BY DEF NetChanges
  <2>3. QED
    BY <1>1, <2>1, <2>2
<1>5. ApplyRecord(old, rec) =
          [created   |-> (old.created \cup rec.added) \ rec.removed,
           updated   |-> (old.updated \cup (rec.updated \ (old.created \cup rec.added)))
                             \ rec.removed,
           destroyed |-> (old.destroyed \ rec.added) \cup rec.removed]
  BY DEF ApplyRecord
<1>6. new = [created |-> new.created, updated |-> new.updated, destroyed |-> new.destroyed]
  BY DEF NetChanges
<1>7. QED
  BY <1>2, <1>3, <1>4, <1>5, <1>6

\* There is a least number in every set of some.
LEMMA LeastNumber ==
    ASSUME NEW T, T \subseteq Nat, T # {}
    PROVE  \E d \in T : \A e \in T : d <= e
<1> DEFINE R == {ss \in Nat \X Nat : ss[1] < ss[2]}
<1>1. IsWellFoundedOn(R, Nat)
  BY NatLessThanWellFounded DEF OpToRel
<1>2. \A d, e \in Nat : <<e, d>> \notin R => d <= e
  OBVIOUS
<1> HIDE DEF R
<1>3. \E d \in T : \A e \in T : <<e, d>> \notin R
  BY <1>1, WFMin
<1>4. QED
  BY <1>2, <1>3

\* Two functions that agree at the start of an interval and wherever they agree one
\* earlier agree on the whole of it.
LEMMA SameRecurrence ==
    \A s, t \in Nat : \A f, g :
        /\ f[s] = g[s]
        /\ \A v \in s + 1 .. t : f[v - 1] = g[v - 1] => f[v] = g[v]
        => \A v \in s .. t : f[v] = g[v]
<1> TAKE s, t \in Nat
<1> TAKE f, g
<1> HAVE /\ f[s] = g[s]
         /\ \A v \in s + 1 .. t : f[v - 1] = g[v - 1] => f[v] = g[v]
<1> DEFINE T == {v \in s .. t : f[v] # g[v]}
<1>1. SUFFICES ASSUME T # {} PROVE FALSE
  OBVIOUS
<1>2. PICK v \in T : \A e \in T : v <= e
  <2>1. T \subseteq Nat
    OBVIOUS
  <2> HIDE DEF T
  <2>2. QED
    BY <1>1, <2>1, LeastNumber
<1>3. v # s /\ v \in s + 1 .. t
  BY <1>2
<1>4. v - 1 \in s .. t /\ v - 1 \notin T
  BY <1>2, <1>3
<1>5. QED
  BY <1>2, <1>3, <1>4

(* The whole loop: fold_changes returns the net changes of its window.       *)
THEOREM FoldIsNet ==
    ASSUME NEW log, NEW s \in Nat, NEW t \in Nat, s <= t,
           \A v \in s + 1 .. t : log[v] \in ChangeRecord
    PROVE  FoldChanges(log, s, t) = NetChanges(log, s, t)
<1> DEFINE Loop(f) == [v \in s .. t |-> IF v = s THEN NoChanges ELSE ApplyRecord(f[v - 1], log[v])]
           net == [v \in s .. t |-> NetChanges(log, s, v)]
           acc == CHOOSE f : f = Loop(f)
<1>1. FoldChanges(log, s, t) = acc[t]
  BY DEF FoldChanges
<1>2. net = Loop(net)
  <2>1. \A v \in s .. t : net[v] = IF v = s THEN NoChanges ELSE ApplyRecord(net[v - 1], log[v])
    <3>1. TAKE v \in s .. t
    <3>2. CASE v = s
      BY <3>2, FoldStart
    <3>3. CASE v # s
      <4>1. v - 1 \in s .. t /\ v \in s + 1 .. t /\ (v - 1) + 1 = v /\ v - 1 \in Int /\ s <= v - 1
        BY <3>3
      <4>2. log[v] \in ChangeRecord
        BY <4>1
      <4>3. ApplyRecord(NetChanges(log, s, v - 1), log[(v - 1) + 1]) = NetChanges(log, s, (v - 1) + 1)
        BY <4>1, <4>2, FoldIteration
      <4>4. QED
        BY <3>3, <4>1, <4>3
    <3>4. QED
      BY <3>2, <3>3
  <2>2. QED
    BY <2>1
<1>3. acc = Loop(acc)
  <2>1. \E f : f = Loop(f)
    BY <1>2
  <2> HIDE DEF Loop
  <2>2. QED
    BY <2>1
<1> HIDE DEF acc, net
<1>4. PICK run : run = Loop(run) /\ FoldChanges(log, s, t) = run[t]
  BY <1>1, <1>3
<1>5. PICK ref : ref = Loop(ref) /\ ref[t] = NetChanges(log, s, t)
  <2>1. net[t] = NetChanges(log, s, t)
    BY DEF net
  <2> HIDE DEF Loop
  <2>2. QED
    BY <1>2, <2>1
<1>6. run[s] = ref[s]
  BY <1>4, <1>5
<1>7. \A v \in s + 1 .. t : run[v - 1] = ref[v - 1] => run[v] = ref[v]
  <2>1. \A v \in s + 1 .. t : v \in s .. t /\ v # s
    OBVIOUS
  <2>2. QED
    BY <1>4, <1>5, <2>1
<1>8. \A v \in s .. t : run[v] = ref[v]
  <2>1. \A f, g : (/\ f[s] = g[s]
                   /\ \A v \in s + 1 .. t : f[v - 1] = g[v - 1] => f[v] = g[v])
                  => \A v \in s .. t : f[v] = g[v]
    BY SameRecurrence
  <2>2. QED
    BY <1>6, <1>7, <2>1
<1>9. QED
  BY <1>4, <1>5, <1>8

-----------------------------------------------------------------------------
(* The inductive invariant.  What is in flight on an id tells how far the    *)
(* file of the id is from the index.                                         *)

SingleKinds == {"put", "index", "delete", "patch", "rewrite"}

JobsWellFormed ==
    /\ \A w \in Workers : job[w].kind = "idle" => job[w].ids = {}
    /\ \A w \in Workers : job[w].kind \in SingleKinds =>
                              \E id \in Ids : job[w].ids = {id}
    /\ ~ up => \A w \in Workers : job[w] = Idle

\* Two threads are in the middle of operations on one id only if it is in doubt.
Solo == \A w1, w2 \in Workers : w1 # w2 => job[w1].ids \cap job[w2].ids \subseteq doubt

\* What the step w has yet to take will find, for an id that is not in doubt.
Halfway(w, id) ==
    /\ job[w].kind = "index" => file[id] = job[w].val
    /\ job[w].kind \in {"delete", "purge"} => msgs[id] = Absent
    /\ job[w].kind \in {"patch", "rewrite"} => msgs[id] = job[w].val

AllHalfway == \A w \in Workers : \A id \in job[w].ids \ doubt : Halfway(w, id)

IInv ==
    /\ TypeOK
    /\ LogComplete
    /\ JobsWellFormed
    /\ Solo
    /\ AllHalfway
    /\ DiskMatchesIndex

-----------------------------------------------------------------------------
LEMMA EmptyLogIsLog == IsLog(EmptyLog) /\ DOMAIN EmptyLog = {} /\ 1 .. 0 = {}
  BY DEF IsLog, EmptyLog

LEMMA IdleIsJob == Idle \in Job
  BY DEF Idle, Job, JobKind, Content

\* The records the store writes are records.
LEMMA RecordTypes ==
    ASSUME NEW S \in SUBSET Ids
    PROVE  /\ AddedRec(S) \in ChangeRecord
           /\ UpdatedRec(S) \in ChangeRecord
           /\ RemovedRec(S) \in ChangeRecord
  BY DEF AddedRec, UpdatedRec, RemovedRec, ChangeRecord

\* Inserting the record of the next version keeps a complete log complete.
LEMMA InsertNext ==
    ASSUME NEW log, IsLog(log), NEW n \in Nat, DOMAIN log = 1 .. n,
           NEW rec \in ChangeRecord
    PROVE  /\ IsLog(Insert(log, n + 1, rec))
           /\ DOMAIN Insert(log, n + 1, rec) = 1 .. n + 1
<1>1. DOMAIN Insert(log, n + 1, rec) = 1 .. n + 1
  BY DEF Insert
<1>2. \A v \in 1 .. n + 1 : Insert(log, n + 1, rec)[v] \in ChangeRecord
  BY DEF Insert, IsLog
<1>3. QED
  BY <1>1, <1>2 DEF Insert, IsLog

\* delta.json has a beginning of the log, and all of it where nothing failed.
Beginning ==
    delta # Torn => /\ delta.state <= state
                    /\ \A v \in 1 .. delta.state : delta.changes[v] = changes[v]

Whole == failures = 0 => delta = Saved(state, changes) \/ (delta = Torn /\ state = 0)

\* The part of the invariant that concerns the counter, the log and delta.json.
LogOK ==
    /\ state \in Nat
    /\ IsLog(changes)
    /\ DOMAIN changes = 1 .. state
    /\ delta = Torn \/ (IsSaved(delta) /\ DOMAIN delta.changes = 1 .. delta.state)
    /\ failures \in Nat
    /\ up => Beginning /\ Whole

LEMMA IInvLogOK == IInv => LogOK
  BY DEF IInv, TypeOK, LogComplete, LogOK, Beginning, Whole

LEMMA SavedOK ==
    ASSUME NEW s \in Nat, NEW log, IsLog(log), DOMAIN log = 1 .. s
    PROVE  /\ IsSaved(Saved(s, log))
           /\ DOMAIN Saved(s, log).changes = 1 .. Saved(s, log).state
  BY DEF Saved, IsSaved

LEMMA BumpKeepsLog ==
    ASSUME LogOK, up' = up, NEW rec \in ChangeRecord, Bump(rec)
    PROVE  LogOK'
<1>1. state' = state + 1 /\ changes' = Insert(changes, state + 1, rec)
  BY DEF Bump
<1>2. state' \in Nat /\ IsLog(changes') /\ DOMAIN changes' = 1 .. state'
  BY <1>1, InsertNext DEF LogOK
<1>3. delta' \in {delta, Torn, Saved(state', changes')} /\ failures' \in Nat
  BY DEF Bump, SaveState, LogOK, Failed
<1>4. delta' = Torn \/ (IsSaved(delta') /\ DOMAIN delta'.changes = 1 .. delta'.state)
  <2>1. CASE delta' = Torn
    BY <2>1
  <2>2. CASE delta' = delta
    BY <2>2 DEF LogOK
  <2>3. CASE delta' = Saved(state', changes')
    BY <2>3, <1>2, SavedOK
  <2>4. QED
    BY <1>3, <2>1, <2>2, <2>3
<1>5. \A v \in 1 .. state : changes'[v] = changes[v]
  BY <1>1 DEF Insert, LogOK
<1>6. up => Beginning'
  <2>1. CASE delta' = delta
    BY <1>1, <1>5, <2>1 DEF LogOK, Beginning, IsSaved
  <2>2. CASE delta' = Saved(state', changes')
    BY <1>2, <2>2 DEF Beginning, Saved
  <2>3. QED
    BY <1>3, <2>1, <2>2 DEF Beginning
<1>7. Whole'
  BY DEF Bump, SaveState, Failed, LogOK, Whole
<1>8. QED
  BY <1>2, <1>3, <1>4, <1>6, <1>7 DEF LogOK

LEMMA UnchangedKeepsLog ==
    ASSUME LogOK, UNCHANGED <<up, state, changes, delta, failures>>
    PROVE  LogOK'
  BY DEF LogOK, Beginning, Whole

\* Types of what is not the log.
RestTyped ==
    /\ up \in BOOLEAN
    /\ msgs \in [Ids -> {Absent} \cup Content]
    /\ file \in [Ids -> {Absent, Torn} \cup Content]
    /\ job \in [Workers -> Job]
    /\ doubt \subseteq Ids
    /\ crashes \in Nat

LEMMA IInvSplit ==
    IInv <=> /\ LogOK /\ RestTyped /\ JobsWellFormed /\ Solo /\ AllHalfway
             /\ DiskMatchesIndex
  BY DEF IInv, TypeOK, LogComplete, LogOK, Beginning, Whole, RestTyped

LEMMA IInvSplitPrime ==
    IInv' <=> /\ LogOK' /\ RestTyped' /\ JobsWellFormed' /\ Solo' /\ AllHalfway'
              /\ DiskMatchesIndex'
  BY DEF IInv, TypeOK, LogComplete, LogOK, Beginning, Whole, RestTyped

-----------------------------------------------------------------------------
(* One lemma per action.  An action concerns the ids of one thread's job;    *)
(* for every other id not in doubt, file, index and jobs are as before.      *)

LEMMA InitIInv == Init => IInv
<1> SUFFICES ASSUME Init PROVE IInv
  OBVIOUS
<1>1. LogOK
  <2>1. IsSaved(delta) /\ DOMAIN delta.changes = 1 .. delta.state
    BY EmptyLogIsLog, SavedOK DEF Init
  <2>2. Beginning /\ Whole
    BY DEF Init, Beginning, Whole, Saved
  <2>3. QED
    BY <2>1, <2>2, EmptyLogIsLog DEF Init, LogOK
<1>2. RestTyped
  BY IdleIsJob DEF Init, RestTyped
<1>3. JobsWellFormed /\ Solo /\ AllHalfway
  BY DEF Init, JobsWellFormed, Solo, AllHalfway, Idle, SingleKinds
<1>4. DiskMatchesIndex
  BY DEF Init, DiskMatchesIndex, Readable
<1>5. QED
  BY <1>1, <1>2, <1>3, <1>4, IInvSplit

LEMMA PutBeginIInv ==
    ASSUME IInv, NEW w \in Workers, NEW id \in Ids, NEW val \in Content, PutBegin(w, id, val)
    PROVE  IInv'
<1> USE IInvSplit
<1>1. LogOK'
  BY UnchangedKeepsLog DEF PutBegin, memory
<1>2. RestTyped'
  BY DEF PutBegin, memory, RestTyped, Start, Job, JobKind, Overlapping
<1>3. JobsWellFormed'
  BY DEF PutBegin, memory, RestTyped, JobsWellFormed, Start, SingleKinds, Idle
<1>4. Solo'
  BY DEF PutBegin, RestTyped, Solo, Start, Overlapping, InFlight, Idle
<1>5. AllHalfway'
  BY DEF PutBegin, memory, RestTyped, AllHalfway, Halfway, Start, Overlapping, InFlight, Idle
<1>6. DiskMatchesIndex'
  BY DEF PutBegin, memory, RestTyped, DiskMatchesIndex, Start, Overlapping, InFlight, Idle, Readable
<1>7. QED
  BY <1>1, <1>2, <1>3, <1>4, <1>5, <1>6, IInvSplitPrime

LEMMA PutWriteIInv ==
    ASSUME IInv, NEW w \in Workers, PutWrite(w)
    PROVE  IInv'
<1> USE IInvSplit
<1>1. LogOK'
  BY UnchangedKeepsLog DEF PutWrite, memory
<1>2. RestTyped'
  BY DEF PutWrite, memory, RestTyped, Become, Job, JobKind
<1>3. JobsWellFormed'
  BY DEF PutWrite, memory, RestTyped, JobsWellFormed, Become, SingleKinds, Idle
<1>4. Solo'
  BY DEF PutWrite, RestTyped, Solo, Become
<1>5. AllHalfway'
  BY DEF PutWrite, memory, RestTyped, AllHalfway, Halfway, Become, Solo, JobsWellFormed, SingleKinds
<1>6. DiskMatchesIndex'
  BY DEF PutWrite, memory, RestTyped, DiskMatchesIndex, Become, InFlight, Readable
<1>7. QED
  BY <1>1, <1>2, <1>3, <1>4, <1>5, <1>6, IInvSplitPrime

LEMMA PutFailsIInv ==
    ASSUME IInv, NEW w \in Workers, PutFails(w)
    PROVE  IInv'
<1> USE IInvSplit
<1>1. LogOK'
  BY DEF PutFails, memory, disk, LogOK, Failed, Beginning, Whole
<1>2. RestTyped'
  BY IdleIsJob DEF PutFails, memory, disk, RestTyped, Finish, Job
<1>3. JobsWellFormed'
  BY DEF PutFails, memory, RestTyped, JobsWellFormed, Finish, SingleKinds, Idle
<1>4. Solo'
  BY DEF PutFails, RestTyped, Solo, Finish, Idle
<1>5. AllHalfway'
  BY DEF PutFails, memory, disk, RestTyped, AllHalfway, Halfway, Finish, Idle
<1>6. DiskMatchesIndex'
  BY DEF PutFails, memory, disk, RestTyped, DiskMatchesIndex, Finish, InFlight, Readable, Idle
<1>7. QED
  BY <1>1, <1>2, <1>3, <1>4, <1>5, <1>6, IInvSplitPrime

LEMMA PutIndexIInv ==
    ASSUME IInv, NEW w \in Workers, PutIndex(w)
    PROVE  IInv'
<1> USE IInvSplit
<1>1. PICK id \in Ids : job[w].ids = {id}
  BY DEF PutIndex, JobsWellFormed, SingleKinds
<1>2. msgs' = [msgs EXCEPT ![id] = job[w].val] /\ (id \notin doubt => file[id] = job[w].val)
  BY <1>1 DEF PutIndex, AllHalfway, Halfway
<1>3. LogOK'
  <2>1. CASE msgs[id] = Absent
    BY <1>1, <2>1, BumpKeepsLog, RecordTypes DEF PutIndex
  <2>2. CASE msgs[id] # Absent
    BY <1>1, <2>2, UnchangedKeepsLog DEF PutIndex
  <2>3. QED
    BY <2>1, <2>2
<1>4. RestTyped'
  BY <1>2, IdleIsJob DEF PutIndex, RestTyped, Finish, Job
<1>5. JobsWellFormed'
  BY DEF PutIndex, RestTyped, JobsWellFormed, Finish, SingleKinds, Idle
<1>6. Solo'
  BY DEF PutIndex, RestTyped, Solo, Finish, Idle
<1>7. AllHalfway'
  BY <1>1, <1>2 DEF PutIndex, RestTyped, AllHalfway, Halfway, Finish, Solo, Idle
<1>8. DiskMatchesIndex'
  <2>1. /\ UNCHANGED <<up, file, doubt>>
        /\ \A i \in Ids \ {id} : msgs'[i] = msgs[i] /\ (InFlight(i) => InFlight(i)')
    BY <1>1, <1>2 DEF PutIndex, RestTyped, Finish, InFlight, Idle
  <2>2. id \notin doubt => Readable(file[id]) = msgs'[id]
    BY <1>1, <1>2, StoreAssumption DEF PutIndex, RestTyped, Job, Content, Readable
  <2>3. QED
    BY <2>1, <2>2 DEF DiskMatchesIndex
<1>9. QED
  BY <1>3, <1>4, <1>5, <1>6, <1>7, <1>8, IInvSplitPrime

LEMMA DeleteIndexIInv ==
    ASSUME IInv, NEW w \in Workers, NEW id \in Ids, DeleteIndex(w, id)
    PROVE  IInv'
<1> USE IInvSplit
<1>1. msgs' = [msgs EXCEPT ![id] = Absent]
  BY DEF DeleteIndex, memory, RestTyped
<1>2. LogOK'
  <2>1. CASE msgs[id] # Absent
    BY <2>1, BumpKeepsLog, RecordTypes DEF DeleteIndex
  <2>2. CASE msgs[id] = Absent
    BY <2>2, UnchangedKeepsLog DEF DeleteIndex, memory
  <2>3. QED
    BY <2>1, <2>2
<1>3. RestTyped'
  BY <1>1 DEF DeleteIndex, RestTyped, Start, Job, JobKind, Content, Overlapping
<1>4. JobsWellFormed'
  BY DEF DeleteIndex, RestTyped, JobsWellFormed, Start, SingleKinds, Idle
<1>5. Solo'
  BY DEF DeleteIndex, RestTyped, Solo, Start, Overlapping, InFlight, Idle
<1>6. AllHalfway'
  BY <1>1 DEF DeleteIndex, RestTyped, AllHalfway, Halfway, Start, Overlapping, InFlight, Idle
<1>7. DiskMatchesIndex'
  BY <1>1
  DEF DeleteIndex, RestTyped, DiskMatchesIndex, Start, Overlapping, InFlight, Idle, Readable
<1>8. QED
  BY <1>2, <1>3, <1>4, <1>5, <1>6, <1>7, IInvSplitPrime

LEMMA DeleteFileIInv ==
    ASSUME IInv, NEW w \in Workers, DeleteFile(w)
    PROVE  IInv'
<1> USE IInvSplit
<1>1. PICK id \in Ids : job[w].ids = {id}
  BY DEF DeleteFile, JobsWellFormed, SingleKinds
<1>2. RemoveFile(id) /\ (id \notin doubt => msgs[id] = Absent)
  BY <1>1 DEF DeleteFile, AllHalfway, Halfway
<1>3. LogOK'
  BY <1>2 DEF DeleteFile, memory, RemoveFile, Failed, LogOK, Beginning, Whole
<1>4. RestTyped'
  BY <1>2, IdleIsJob DEF DeleteFile, memory, RemoveFile, RestTyped, Finish
<1>5. JobsWellFormed'
  BY DEF DeleteFile, memory, RestTyped, JobsWellFormed, Finish, SingleKinds, Idle
<1>6. Solo'
  BY <1>2 DEF DeleteFile, RemoveFile, RestTyped, Solo, Finish, Idle
<1>7. AllHalfway'
  <2>1. ASSUME NEW w2 \in Workers \ {w}, NEW other \in job'[w2].ids \ doubt'
        PROVE  Halfway(w2, other)'
    <3>1. job'[w2] = job[w2] /\ other \notin doubt
      BY <1>2, <2>1 DEF DeleteFile, Finish, RemoveFile, RestTyped
    <3>2. other # id /\ Halfway(w2, other)
      BY <1>1, <2>1, <3>1 DEF Solo, AllHalfway
    <3>3. other \in Ids
      BY <2>1, <3>1 DEF RestTyped, Job
    <3>4. file'[other] = file[other] /\ msgs' = msgs
      BY <1>2, <3>2, <3>3 DEF DeleteFile, memory, RemoveFile, RestTyped
    <3>5. QED
      BY <3>1, <3>2, <3>4 DEF Halfway
  <2>2. job'[w].ids = {}
    BY DEF DeleteFile, Finish, RestTyped, Idle
  <2>3. QED
    BY <2>1, <2>2 DEF AllHalfway
<1>8. DiskMatchesIndex'
  BY <1>1, <1>2, StoreAssumption
  DEF DeleteFile, memory, RemoveFile, RestTyped, DiskMatchesIndex, Finish, InFlight, Readable, Idle
<1>9. QED
  BY <1>3, <1>4, <1>5, <1>6, <1>7, <1>8, IInvSplitPrime

LEMMA PurgeIndexIInv ==
    ASSUME IInv, NEW w \in Workers, PurgeIndex(w)
    PROVE  IInv'
<1> USE IInvSplit
<1>1. LogOK'
  <2>1. CASE Indexed # {}
    BY <2>1, BumpKeepsLog, RecordTypes DEF PurgeIndex, Indexed
  <2>2. CASE Indexed = {}
    BY <2>2, UnchangedKeepsLog DEF PurgeIndex
  <2>3. QED
    BY <2>1, <2>2
<1>2. RestTyped'
  BY DEF PurgeIndex, RestTyped, Start, Job, JobKind, Content, Overlapping
<1>3. JobsWellFormed'
  BY DEF PurgeIndex, RestTyped, JobsWellFormed, Start, SingleKinds, Idle
<1>4. Solo'
  BY DEF PurgeIndex, RestTyped, Solo, Start, Overlapping, InFlight, Idle, Job
<1>5. AllHalfway'
  BY DEF PurgeIndex, RestTyped, AllHalfway, Halfway, Start, Overlapping, InFlight, Idle, Job
<1>6. DiskMatchesIndex'
  BY DEF PurgeIndex, RestTyped, DiskMatchesIndex, Start, InFlight, Idle
<1>7. QED
  BY <1>1, <1>2, <1>3, <1>4, <1>5, <1>6, IInvSplitPrime

LEMMA PurgeFileIInv ==
    ASSUME IInv, NEW w \in Workers, NEW id \in Ids, PurgeFile(w, id)
    PROVE  IInv'
<1> USE IInvSplit
<1>1. /\ RemoveFile(id) /\ job[w].kind = "purge" /\ id \in job[w].ids
      /\ id \notin doubt => msgs[id] = Absent
  BY DEF PurgeFile, AllHalfway, Halfway
<1>2. /\ job' \in [Workers -> Job]
      /\ \A w2 \in Workers \ {w} : job'[w2] = job[w2]
      /\ job'[w].ids = job[w].ids \ {id}
      /\ job'[w].kind \in {"idle", "purge"}
      /\ job'[w].kind = "idle" => job'[w].ids = {}
  <2>1. CASE job[w].ids = {id}
    BY <1>1, <2>1, IdleIsJob DEF PurgeFile, Finish, RestTyped, Idle
  <2>2. CASE job[w].ids # {id}
    BY <1>1, <2>2 DEF PurgeFile, RestTyped, Job
  <2>3. QED
    BY <2>1, <2>2
<1>3. LogOK'
  BY <1>1 DEF PurgeFile, memory, RemoveFile, Failed, LogOK, Beginning, Whole
<1>4. RestTyped'
  BY <1>1, <1>2 DEF PurgeFile, memory, RemoveFile, RestTyped
<1>5. JobsWellFormed'
  BY <1>1, <1>2 DEF PurgeFile, JobsWellFormed, SingleKinds, Idle
<1>6. doubt \subseteq doubt' /\ \A w2 \in Workers : job'[w2].ids \subseteq job[w2].ids
  BY <1>1, <1>2 DEF RemoveFile
<1>7. Solo'
  BY <1>6 DEF Solo
<1>8. AllHalfway'
  <2>1. ASSUME NEW w2 \in Workers \ {w}, NEW other \in job'[w2].ids \ doubt'
        PROVE  Halfway(w2, other)'
    <3>1. other # id
      BY <1>1, <1>2, <1>6, <2>1 DEF Solo
    <3>2. Halfway(w2, other)
      BY <1>2, <1>6, <2>1 DEF AllHalfway
    <3>3. QED
      BY <1>1, <1>2, <3>1, <3>2 DEF Halfway, PurgeFile, memory, RemoveFile, RestTyped, Job
  <2>2. ASSUME NEW other \in job'[w].ids \ doubt'
        PROVE  Halfway(w, other)'
    BY <1>1, <1>2, <1>6, <2>2 DEF AllHalfway, Halfway, PurgeFile, memory
  <2>3. QED
    BY <2>1, <2>2 DEF AllHalfway
<1>9. DiskMatchesIndex'
  <2>1. SUFFICES ASSUME up', NEW other \in Ids \ doubt', ~ InFlight(other)'
                 PROVE  (Readable(file[other]) = msgs[other])'
    BY DEF DiskMatchesIndex
  <2>2. CASE other = id
    BY <1>1, <2>1, <2>2, StoreAssumption DEF PurgeFile, memory, RemoveFile, RestTyped, Readable
  <2>3. CASE other # id
    <3>1. ~ InFlight(other)
      BY <1>2, <2>1, <2>3 DEF InFlight
    <3>2. file'[other] = file[other] /\ msgs' = msgs /\ up
      BY <1>1, <2>1, <2>3 DEF PurgeFile, memory, RemoveFile, RestTyped
    <3>3. QED
      BY <1>6, <2>1, <3>1, <3>2 DEF DiskMatchesIndex, Readable
  <2>4. QED
    BY <2>2, <2>3
<1>10. QED
  BY <1>3, <1>4, <1>5, <1>7, <1>8, <1>9, IInvSplitPrime

LEMMA PatchIndexIInv ==
    ASSUME IInv, NEW w \in Workers, NEW id \in Ids,
           NEW on \in SUBSET Flags, NEW off \in SUBSET Flags, PatchIndex(w, id, on, off)
    PROVE  IInv'
<1> USE IInvSplit
<1> DEFINE patched == (msgs[id] \cup on) \ off
<1>1. patched \in Content
  BY DEF PatchIndex, RestTyped, Content
<1>2. /\ msgs' = [msgs EXCEPT ![id] = patched]
      /\ job' = [job EXCEPT ![w] = [kind |-> "patch", ids |-> {id}, val |-> patched]]
  BY DEF PatchIndex, Start
<1> HIDE DEF patched
<1>3. LogOK'
  BY BumpKeepsLog, RecordTypes DEF PatchIndex
<1>4. RestTyped'
  BY <1>1, <1>2 DEF PatchIndex, RestTyped, Job, JobKind, Overlapping
<1>5. JobsWellFormed'
  BY <1>2 DEF PatchIndex, RestTyped, JobsWellFormed, SingleKinds, Idle
<1>6. Solo'
  BY <1>2 DEF PatchIndex, RestTyped, Solo, Overlapping, InFlight, Idle
<1>7. AllHalfway'
  BY <1>2 DEF PatchIndex, RestTyped, AllHalfway, Halfway, Overlapping, InFlight, Idle
<1>8. DiskMatchesIndex'
  BY <1>2 DEF PatchIndex, RestTyped, DiskMatchesIndex, Overlapping, InFlight, Idle, Readable
<1>9. QED
  BY <1>3, <1>4, <1>5, <1>6, <1>7, <1>8, IInvSplitPrime

LEMMA PatchTruncateIInv ==
    ASSUME IInv, NEW w \in Workers, PatchTruncate(w)
    PROVE  IInv'
<1> USE IInvSplit
<1>1. LogOK'
  BY UnchangedKeepsLog DEF PatchTruncate, memory
<1>2. RestTyped'
  BY DEF PatchTruncate, memory, RestTyped, Become, Job, JobKind
<1>3. JobsWellFormed'
  BY DEF PatchTruncate, memory, RestTyped, JobsWellFormed, Become, SingleKinds, Idle
<1>4. Solo'
  BY DEF PatchTruncate, RestTyped, Solo, Become
<1>5. AllHalfway'
  BY DEF PatchTruncate, memory, RestTyped, AllHalfway, Halfway, Become, Solo, JobsWellFormed,
         SingleKinds
<1>6. DiskMatchesIndex'
  BY DEF PatchTruncate, memory, RestTyped, DiskMatchesIndex, Become, InFlight, Readable
<1>7. QED
  BY <1>1, <1>2, <1>3, <1>4, <1>5, <1>6, IInvSplitPrime

LEMMA PatchWriteIInv ==
    ASSUME IInv, NEW w \in Workers, PatchWrite(w)
    PROVE  IInv'
<1> USE IInvSplit
<1>1. PICK id \in Ids : job[w].ids = {id}
  BY DEF PatchWrite, JobsWellFormed, SingleKinds
<1>2. file' = [file EXCEPT ![id] = job[w].val] /\ (id \notin doubt => msgs[id] = job[w].val)
  BY <1>1 DEF PatchWrite, AllHalfway, Halfway
<1>3. LogOK'
  BY UnchangedKeepsLog DEF PatchWrite, memory
<1>4. RestTyped'
  BY <1>2, IdleIsJob DEF PatchWrite, memory, RestTyped, Finish, Job
<1>5. JobsWellFormed'
  BY DEF PatchWrite, memory, RestTyped, JobsWellFormed, Finish, SingleKinds, Idle
<1>6. Solo'
  BY DEF PatchWrite, RestTyped, Solo, Finish, Idle
<1>7. AllHalfway'
  BY <1>1, <1>2 DEF PatchWrite, memory, RestTyped, AllHalfway, Halfway, Finish, Solo, Idle
<1>8. DiskMatchesIndex'
  BY <1>1, <1>2, StoreAssumption
  DEF PatchWrite, memory, RestTyped, Job, Content, DiskMatchesIndex, Finish, InFlight, Readable,
      Idle
<1>9. QED
  BY <1>3, <1>4, <1>5, <1>6, <1>7, <1>8, IInvSplitPrime

LEMMA PatchFailsIInv ==
    ASSUME IInv, NEW w \in Workers, PatchFails(w)
    PROVE  IInv'
<1> USE IInvSplit
<1>1. LogOK'
  BY DEF PatchFails, memory, disk, LogOK, Failed, Beginning, Whole
<1>2. RestTyped'
  BY IdleIsJob DEF PatchFails, memory, disk, RestTyped, Finish, Job
<1>3. JobsWellFormed'
  BY DEF PatchFails, memory, RestTyped, JobsWellFormed, Finish, SingleKinds, Idle
<1>4. Solo'
  BY DEF PatchFails, RestTyped, Solo, Finish, Idle
<1>5. AllHalfway'
  BY DEF PatchFails, memory, disk, RestTyped, AllHalfway, Halfway, Finish, Idle
<1>6. DiskMatchesIndex'
  BY DEF PatchFails, memory, disk, RestTyped, DiskMatchesIndex, Finish, InFlight, Readable, Idle
<1>7. QED
  BY <1>1, <1>2, <1>3, <1>4, <1>5, <1>6, IInvSplitPrime

LEMMA CrashIInv == IInv /\ Crash => IInv'
<1> SUFFICES ASSUME IInv, Crash PROVE IInv'
  OBVIOUS
<1> USE IInvSplit
<1>1. LogOK'
  BY EmptyLogIsLog DEF Crash, LogOK
<1>2. RestTyped'
  <2>1. msgs' \in [Ids -> {Absent} \cup Content] /\ job' \in [Workers -> Job]
    BY IdleIsJob DEF Crash
  <2>2. up' \in BOOLEAN
    BY DEF Crash
  <2>3. doubt' \subseteq Ids /\ crashes' \in Nat
    BY DEF Crash, RestTyped
  <2>4. file' \in [Ids -> {Absent, Torn} \cup Content]
    BY DEF Crash, RestTyped
  <2>5. QED
    BY <2>1, <2>2, <2>3, <2>4 DEF RestTyped
<1>3. JobsWellFormed' /\ Solo' /\ AllHalfway'
  BY DEF Crash, JobsWellFormed, Solo, AllHalfway, Idle, SingleKinds
<1>4. DiskMatchesIndex'
  BY DEF Crash, DiskMatchesIndex
<1>5. QED
  BY <1>1, <1>2, <1>3, <1>4, IInvSplitPrime

LEMMA OpenIInv == IInv /\ Open => IInv'
<1> SUFFICES ASSUME IInv, Open PROVE IInv'
  OBVIOUS
<1> USE IInvSplit
<1>1. LogOK'
  <2>1. CASE delta = Torn
    BY <2>1, EmptyLogIsLog DEF Open, disk, LogOK, Beginning, Whole
  <2>2. CASE delta # Torn
    BY <2>2 DEF Open, disk, LogOK, IsSaved, Beginning, Whole
  <2>3. QED
    BY <2>1, <2>2
<1>2. RestTyped'
  BY DEF Open, disk, RestTyped, Readable
<1>3. JobsWellFormed' /\ Solo' /\ AllHalfway'
  BY DEF Open, disk, JobsWellFormed, Solo, AllHalfway, Idle, SingleKinds
<1>4. DiskMatchesIndex'
  BY DEF Open, disk, DiskMatchesIndex, RestTyped, Readable
<1>5. QED
  BY <1>1, <1>2, <1>3, <1>4, IInvSplitPrime

LEMMA StutterIInv == IInv /\ UNCHANGED vars => IInv'
  BY DEF vars, memory, IInv, TypeOK, LogComplete, JobsWellFormed, Solo, AllHalfway, Halfway,
         DiskMatchesIndex, InFlight

LEMMA StepIInv ==
    ASSUME IInv, NEW w \in Workers, Step(w)
    PROVE  IInv'
  BY PutBeginIInv, PutWriteIInv, PutFailsIInv, PutIndexIInv, DeleteIndexIInv, DeleteFileIInv,
     PurgeIndexIInv, PurgeFileIInv, PatchIndexIInv, PatchTruncateIInv, PatchWriteIInv,
     PatchFailsIInv DEF Step

LEMMA NextIInv == IInv /\ [Next]_vars => IInv'
  BY StepIInv, CrashIInv, OpenIInv, StutterIInv DEF Next

-----------------------------------------------------------------------------
(* The store's inductive invariant, for any threads, crashes and failures.   *)
THEOREM Inductive == Spec => []IInv
  BY InitIInv, NextIInv, PTL DEF Spec

(* Every variable keeps its type.                                            *)
THEOREM TypeCorrect == Spec => []TypeOK
<1>1. IInv => TypeOK
  BY DEF IInv
<1>2. QED
  BY <1>1, Inductive, PTL

(* The log has no hole, and what is saved of it is a beginning of what is in *)
(* memory, all of it unless a write failed or a crash tore it.               *)
THEOREM LogIsComplete == Spec => []LogComplete
<1>1. IInv => LogComplete
  BY DEF IInv
<1>2. QED
  BY <1>1, Inductive, PTL

(* What a restart would load is what clients are being shown, for every id   *)
(* whose operations neither overlapped nor failed and are all finished.      *)
THEOREM DiskFollowsIndex == Spec => []DiskMatchesIndex
<1>1. IInv => DiskMatchesIndex
  BY DEF IInv
<1>2. QED
  BY <1>1, Inductive, PTL

-----------------------------------------------------------------------------
(* Refinement: every step is a step of the change feed, or none.             *)

LEMMA BumpAnnounces ==
    ASSUME IInv, IInv', up, up', NEW rec \in ChangeRecord, Bump(rec),
           Feed!Describes(rec, msgs, msgs')
    PROVE  Feed!Announce
<1>1. msgs' \in Feed!View
  BY DEF IInv, TypeOK, Feed!View
<1>2. rec \in Feed!ChangeRecord
  BY DEF ChangeRecord, Feed!ChangeRecord
<1>3. state' = state + 1 /\ changes' = Feed!Insert(changes, state', rec)
  BY DEF Bump, Insert, Feed!Insert
<1>4. QED
  BY <1>1, <1>2, <1>3 DEF Feed!Announce

\* A step that changes neither the index nor the counter nor the log is a stutter.
LEMMA QuietStutters ==
    ASSUME UNCHANGED <<up, memory>>
    PROVE  UNCHANGED Feed!feedVars
  BY DEF memory, Feed!feedVars

LEMMA PutIndexFeed ==
    ASSUME IInv, IInv', NEW w \in Workers, PutIndex(w)
    PROVE  [Feed!FeedNext]_Feed!feedVars
<1>0. job[w].ids \subseteq Ids
  BY DEF IInv, TypeOK, Job
<1>1. PICK id \in Ids : msgs' = [msgs EXCEPT ![id] = job[w].val]
  BY <1>0 DEF PutIndex
<1>2. up /\ up' /\ job[w].val # Absent
  <2>1. up
    BY DEF PutIndex, IInv, TypeOK, JobsWellFormed, Idle
  <2>2. job[w].val \in SUBSET Flags
    BY DEF IInv, TypeOK, Job, Content
  <2>3. QED
    BY <2>1, <2>2, StoreAssumption DEF PutIndex
<1>3. msgs \in [Ids -> {Absent} \cup Content] /\ msgs' \in Feed!View
  BY DEF IInv, TypeOK, Feed!View
<1>4. CASE msgs[id] = Absent
  <2>1. Bump(AddedRec({id}))
    BY <1>1, <1>2, <1>3, <1>4 DEF PutIndex, IInv, JobsWellFormed, SingleKinds
  <2>2. Feed!Describes(AddedRec({id}), msgs, msgs')
    BY <1>1, <1>2, <1>3, <1>4 DEF Feed!Describes, Feed!Present, AddedRec
  <2>3. QED
    BY <1>2, <2>1, <2>2, RecordTypes, BumpAnnounces DEF Feed!FeedNext
<1>5. CASE msgs[id] # Absent
  <2>1. UNCHANGED <<state, changes>>
    BY <1>1, <1>2, <1>3, <1>5 DEF PutIndex, IInv, JobsWellFormed, SingleKinds
  <2>2. Feed!Present(msgs') = Feed!Present(msgs)
    BY <1>1, <1>2, <1>3, <1>5 DEF Feed!Present
  <2>3. QED
    BY <1>2, <1>3, <2>1, <2>2 DEF Feed!Replace, Feed!FeedNext
<1>6. QED
  BY <1>4, <1>5

LEMMA DeleteIndexFeed ==
    ASSUME IInv, IInv', NEW w \in Workers, NEW id \in Ids, DeleteIndex(w, id)
    PROVE  [Feed!FeedNext]_Feed!feedVars
<1>1. CASE msgs[id] = Absent
  BY <1>1, QuietStutters DEF DeleteIndex
<1>2. CASE msgs[id] # Absent
  <2>1. up /\ up' /\ msgs' = [msgs EXCEPT ![id] = Absent] /\ Bump(RemovedRec({id}))
    BY <1>2 DEF DeleteIndex
  <2>2. Feed!Describes(RemovedRec({id}), msgs, msgs')
    BY <1>2, <2>1 DEF Feed!Describes, Feed!Present, RemovedRec, IInv, TypeOK
  <2>3. QED
    BY <2>1, <2>2, RecordTypes, BumpAnnounces DEF Feed!FeedNext
<1>3. QED
  BY <1>1, <1>2

LEMMA PurgeIndexFeed ==
    ASSUME IInv, IInv', NEW w \in Workers, PurgeIndex(w)
    PROVE  [Feed!FeedNext]_Feed!feedVars
<1>1. up /\ up' /\ msgs' = [id \in Ids |-> Absent]
  BY DEF PurgeIndex
<1>2. CASE Indexed = {}
  <2>1. msgs' = msgs
    BY <1>1, <1>2 DEF Indexed, IInv, TypeOK
  <2>2. QED
    BY <1>1, <1>2, <2>1, QuietStutters DEF PurgeIndex, memory
<1>3. CASE Indexed # {}
  <2>1. Bump(RemovedRec(Indexed)) /\ Indexed \in SUBSET Ids
    BY <1>3 DEF PurgeIndex, Indexed
  <2>2. Feed!Describes(RemovedRec(Indexed), msgs, msgs')
    BY <1>1 DEF Feed!Describes, Feed!Present, RemovedRec, Indexed
  <2>3. QED
    BY <1>1, <2>1, <2>2, RecordTypes, BumpAnnounces DEF Feed!FeedNext
<1>4. QED
  BY <1>2, <1>3

LEMMA PatchIndexFeed ==
    ASSUME IInv, IInv', NEW w \in Workers, NEW id \in Ids,
           NEW on \in SUBSET Flags, NEW off \in SUBSET Flags, PatchIndex(w, id, on, off)
    PROVE  [Feed!FeedNext]_Feed!feedVars
<1>1. PICK patched \in Content : msgs' = [msgs EXCEPT ![id] = patched]
  <2>1. (msgs[id] \cup on) \ off \in Content
    BY DEF PatchIndex, IInv, TypeOK, Content
  <2>2. msgs' = [msgs EXCEPT ![id] = (msgs[id] \cup on) \ off]
    BY DEF PatchIndex
  <2>3. QED
    BY <2>1, <2>2
<1>2. up /\ up' /\ msgs[id] # Absent /\ patched # Absent /\ Bump(UpdatedRec({id}))
  BY StoreAssumption DEF PatchIndex, Content
<1>3. Feed!Describes(UpdatedRec({id}), msgs, msgs')
  BY <1>1, <1>2 DEF Feed!Describes, Feed!Present, UpdatedRec, IInv, TypeOK
<1>4. QED
  BY <1>2, <1>3, RecordTypes, BumpAnnounces DEF Feed!FeedNext

LEMMA OpenFeed ==
    ASSUME IInv, IInv', Open
    PROVE  [Feed!FeedNext]_Feed!feedVars
<1>1. ~ up /\ up'
  BY DEF Open
<1>2. msgs' \in Feed!View /\ state' \in Nat /\ DOMAIN changes' = 1 .. state'
  BY DEF IInv, TypeOK, LogComplete, Feed!View
<1>3. QED
  BY <1>1, <1>2 DEF Feed!Restart, Feed!FeedNext

LEMMA StepFeed ==
    ASSUME IInv, IInv', NEW w \in Workers, Step(w)
    PROVE  [Feed!FeedNext]_Feed!feedVars
<1>1. ASSUME NEW id \in Ids, NEW val \in Content, PutBegin(w, id, val)
      PROVE  UNCHANGED <<up, memory>>
  BY <1>1 DEF PutBegin
<1>2. CASE PutWrite(w) \/ PutFails(w) \/ DeleteFile(w)
  BY <1>2, QuietStutters DEF PutWrite, PutFails, DeleteFile
<1>3. CASE PatchTruncate(w) \/ PatchWrite(w) \/ PatchFails(w)
  BY <1>3, QuietStutters DEF PatchTruncate, PatchWrite, PatchFails
<1>4. ASSUME NEW id \in Ids, PurgeFile(w, id)
      PROVE  UNCHANGED <<up, memory>>
  BY <1>4 DEF PurgeFile
<1>5. QED
  BY <1>1, <1>2, <1>3, <1>4, QuietStutters, PutIndexFeed, DeleteIndexFeed, PurgeIndexFeed,
     PatchIndexFeed DEF Step

(* The store implements the change feed, for any number of threads: whatever *)
(* way their steps interleave, fail or are cut off by a crash, every version *)
(* names exactly the ids that came and went with it, and at least the ids    *)
(* whose content it changed.                                                 *)
THEOREM StoreImplementsFeed == Spec => ImplementsFeed
<1>1. Init => Feed!FeedInit
  BY DEF Init, Feed!FeedInit, EmptyLog, Feed!EmptyLog, RemovedRec, Feed!RemovedRec
<1>2. IInv /\ IInv' /\ [Next]_vars => [Feed!FeedNext]_Feed!feedVars
  <2>1. SUFFICES ASSUME IInv, IInv', [Next]_vars
                 PROVE  [Feed!FeedNext]_Feed!feedVars
    OBVIOUS
  <2>2. CASE \E w \in Workers : Step(w)
    BY <2>1, <2>2, StepFeed
  <2>3. CASE Crash
    BY <2>3 DEF Crash, Feed!Fail, Feed!FeedNext
  <2>4. CASE Open
    BY <2>1, <2>4, OpenFeed
  <2>5. CASE UNCHANGED vars
    BY <2>5, QuietStutters DEF vars, memory
  <2>6. QED
    BY <2>1, <2>2, <2>3, <2>4, <2>5 DEF Next
<1>3. QED
  BY <1>1, <1>2, Inductive, PTL DEF Spec, ImplementsFeed, Feed!FeedSpec

-----------------------------------------------------------------------------
(* Clients.  A window read through Email/queryChanges has the same fold of   *)
(* what came and went.                                                       *)

LEMMA QueryIsNet ==
    ASSUME NEW log, NEW s \in Nat, NEW t \in Nat, s <= t,
           \A v \in s + 1 .. t : log[v] \in ChangeRecord
    PROVE  /\ QueryChanges(log, s, t).added = NetChanges(log, s, t).created
           /\ QueryChanges(log, s, t).removed = NetChanges(log, s, t).destroyed
<1> DEFINE Next1(old, rec) == [added   |-> (old.added \cup rec.added) \ rec.removed,
                               removed |-> (old.removed \ rec.added) \cup rec.removed]
           Loop(h) == [v \in s .. t |-> IF v = s THEN [added |-> {}, removed |-> {}]
                                        ELSE Next1(h[v - 1], log[v])]
           Part(v) == [added   |-> NetChanges(log, s, v).created,
                       removed |-> NetChanges(log, s, v).destroyed]
           net == [v \in s .. t |-> Part(v)]
           acc == CHOOSE h : h = Loop(h)
<1>1. QueryChanges(log, s, t) = acc[t]
  BY DEF QueryChanges
<1>2. net = Loop(net)
  <2>1. \A v \in s .. t :
            Part(v) = IF v = s THEN [added |-> {}, removed |-> {}] ELSE Next1(Part(v - 1), log[v])
    <3>1. TAKE v \in s .. t
    <3>2. CASE v = s
      BY <3>2, FoldStart DEF NoChanges
    <3>3. CASE v # s
      <4>1. v - 1 \in s .. t /\ v \in s + 1 .. t /\ (v - 1) + 1 = v /\ v - 1 \in Int /\ s <= v - 1
        BY <3>3
      <4>2. log[v] \in ChangeRecord
        BY <4>1
      <4>3. ApplyRecord(NetChanges(log, s, v - 1), log[v]) = NetChanges(log, s, v)
        <5>1. ApplyRecord(NetChanges(log, s, v - 1), log[(v - 1) + 1])
                  = NetChanges(log, s, (v - 1) + 1)
          BY <4>1, <4>2, FoldIteration
        <5>2. QED
          BY <4>1, <5>1
      <4>4. \A old, rec : /\ ApplyRecord(old, rec).created = (old.created \cup rec.added) \ rec.removed
                         /\ ApplyRecord(old, rec).destroyed
                                = (old.destroyed \ rec.added) \cup rec.removed
        BY DEF ApplyRecord
      <4>5. Part(v) = Next1(Part(v - 1), log[v])
        BY <4>3, <4>4
      <4>6. QED
        BY <3>3, <4>5
    <3>4. QED
      BY <3>2, <3>3
  <2>2. \A v \in s .. t : v # s => v - 1 \in s .. t
    OBVIOUS
  <2> HIDE DEF Part, Next1
  <2>3. QED
    BY <2>1, <2>2
<1>3. acc = Loop(acc)
  <2>1. \E h : h = Loop(h)
    BY <1>2
  <2> HIDE DEF Loop
  <2>2. QED
    BY <2>1
<1> HIDE DEF acc, net
<1>4. PICK run : run = Loop(run) /\ QueryChanges(log, s, t) = run[t]
  BY <1>1, <1>3
<1>5. PICK ref : ref = Loop(ref) /\ ref[t] = Part(t)
  <2>1. net[t] = Part(t)
    BY DEF net
  <2> HIDE DEF Loop, Part
  <2>2. QED
    BY <1>2, <2>1
<1> HIDE DEF Next1, Part
<1>6. run[s] = ref[s]
  BY <1>4, <1>5
<1>7. \A v \in s + 1 .. t : run[v - 1] = ref[v - 1] => run[v] = ref[v]
  <2>1. \A v \in s + 1 .. t : v \in s .. t /\ v # s
    OBVIOUS
  <2>2. QED
    BY <1>4, <1>5, <2>1
<1>8. \A v \in s .. t : run[v] = ref[v]
  <2>1. \A f, g : (/\ f[s] = g[s]
                   /\ \A v \in s + 1 .. t : f[v - 1] = g[v - 1] => f[v] = g[v])
                  => \A v \in s .. t : f[v] = g[v]
    BY SameRecurrence
  <2>2. QED
    BY <1>6, <1>7, <2>1
<1>9. QueryChanges(log, s, t) = Part(t)
  <2>1. t \in s .. t
    OBVIOUS
  <2>2. QED
    BY <1>4, <1>5, <1>8, <2>1
<1>10. QED
  BY <1>9 DEF Part

\* What a client that holds had for id, with id fetched or not, knows from the window w .. s
\* of the log, when the store holds m for it.
Tracks(had, fetched, w, s, log, id, m) ==
    LET made    == CreatedIn(log, w, s, id)
        gone    == DestroyedIn(log, w, s, id)
        touched == UpdatedIn(log, w, s, id)
        moved   == \E v \in w + 1 .. s : id \in log[v].updated
    IN  /\ w <= s
        /\ made => m # Absent
        /\ gone => m = Absent
        /\ gone \/ made \/ touched \/ ~ fetched \/ had = m
        /\ fetched =>
               /\ (had # Absent /\ ~ gone) \/ made <=> m # Absent
               /\ \A f \in Flags : m # Absent /\ f \in m /\ ~ moved
                                   => (had # Absent /\ f \in had /\ ~ gone) \/ made

\* The same while the store is down: of what opening it would load.
Follows(c, id) ==
    /\ up => Tracks(cache[c][id], id \notin todo[c], since[c], state, changes, id, msgs[id])
    /\ ~ up => /\ delta # Torn
               /\ Tracks(cache[c][id], id \notin todo[c], since[c], delta.state, delta.changes, id,
                         Readable(file[id]))

SyncIInv ==
    /\ IInv
    /\ SyncTypeOK
    /\ \A c \in Clients : \A id \in Ids \ suspect[c] : Follows(c, id)

LEMMA TracksSuffices ==
    ASSUME SyncTypeOK, LogComplete, NEW c \in Clients, NEW id \in Ids,
           Tracks(cache[c][id], id \notin todo[c], since[c], state, changes, id, msgs[id])
    PROVE  CatchesUp(c, id) /\ (id \notin todo[c] => ListsFollow(c, id))
<1>1. /\ since[c] \in Nat /\ state \in Nat /\ since[c] <= state
      /\ \A v \in since[c] + 1 .. state : changes[v] \in ChangeRecord
  BY DEF SyncTypeOK, TypeOK, LogComplete, IsLog, Tracks
<1> DEFINE net == NetChanges(changes, since[c], state)
<1>2. /\ id \in net.created <=> CreatedIn(changes, since[c], state, id)
      /\ id \in net.destroyed <=> DestroyedIn(changes, since[c], state, id)
      /\ id \in net.updated <=> UpdatedIn(changes, since[c], state, id)
  BY DEF NetChanges
<1>3. FoldChanges(changes, since[c], state) = net
  BY <1>1, FoldIsNet
<1>4. /\ QueryChanges(changes, since[c], state).added = net.created
      /\ QueryChanges(changes, since[c], state).removed = net.destroyed
  BY <1>1, QueryIsNet
<1> HIDE DEF net
<1>5. CatchesUp(c, id)
  BY <1>2, <1>3 DEF CatchesUp, Tracks
<1>6. id \notin todo[c] => ListsFollow(c, id)
  BY <1>2, <1>4 DEF ListsFollow, Tracks
<1>7. QED
  BY <1>5, <1>6

\* One version further.
LEMMA TracksNext ==
    ASSUME NEW had, NEW fetched, NEW w \in Nat, NEW s \in Nat, NEW log, DOMAIN log = 1 .. s,
           NEW id \in Ids, NEW m, NEW n, NEW rec \in ChangeRecord,
           Tracks(had, fetched, w, s, log, id, m),
           id \in rec.added <=> m = Absent /\ n # Absent,
           id \in rec.removed <=> m # Absent /\ n = Absent,
           id \in rec.updated => n # Absent,
           m # Absent /\ n # Absent /\ m # n => id \in rec.updated
    PROVE  Tracks(had, fetched, w, s + 1, Insert(log, s + 1, rec), id, n)
<1> DEFINE new == Insert(log, s + 1, rec)
<1>1. new[s + 1] = rec /\ \A v \in 1 .. s : new[v] = log[v]
  BY DEF Insert
<1>2. w <= s
  BY DEF Tracks
<1>3. \A v \in w + 1 .. s : new[v] = log[v]
  BY <1>1
<1> HIDE DEF new
<1>4. \A t \in w .. s : CreatedIn(new, w, t, id) <=> CreatedIn(log, w, t, id)
  <2>1. TAKE t \in w .. s
  <2>2. \A v \in w + 1 .. t : new[v] = log[v] /\ \A x \in v .. t : x \in w + 1 .. t
    BY <1>3
  <2>3. QED
    BY <2>2 DEF CreatedIn
<1>5. DestroyedIn(new, w, s, id) <=> DestroyedIn(log, w, s, id)
  <2>1. \A v \in w + 1 .. s : new[v] = log[v] /\ \A x \in v + 1 .. s : x \in w + 1 .. s
    BY <1>3
  <2>2. QED
    BY <2>1 DEF DestroyedIn
<1>6. UpdatedIn(new, w, s, id) <=> UpdatedIn(log, w, s, id)
  <2>1. \A v \in w + 1 .. s : new[v] = log[v] /\ \A x \in v .. s : x \in w + 1 .. s
    BY <1>3
  <2>2. \A v \in w + 1 .. s : CreatedIn(new, w, v - 1, id) <=> CreatedIn(log, w, v - 1, id)
    <3>1. \A v \in w + 1 .. s : v - 1 \in w .. s
      OBVIOUS
    <3>2. QED
      BY <1>4, <3>1
  <2>3. QED
    BY <2>1, <2>2 DEF UpdatedIn
<1>7. CreatedIn(new, w, s + 1, id) <=>
          (CreatedIn(log, w, s, id) \/ id \in rec.added) /\ id \notin rec.removed
  BY <1>1, <1>2, <1>4, CreatedStep
<1>8. DestroyedIn(new, w, s + 1, id) <=>
          (DestroyedIn(log, w, s, id) /\ id \notin rec.added) \/ id \in rec.removed
  BY <1>1, <1>2, <1>5, DestroyedStep
<1>9. UpdatedIn(new, w, s + 1, id) <=>
          /\ \/ UpdatedIn(log, w, s, id)
             \/ id \in rec.updated /\ id \notin rec.added /\ ~ CreatedIn(log, w, s, id)
          /\ id \notin rec.removed
  BY <1>1, <1>2, <1>4, <1>6, UpdatedStep
<1>10. (\E v \in w + 1 .. s + 1 : id \in new[v].updated)
           <=> (\E v \in w + 1 .. s : id \in log[v].updated) \/ id \in rec.updated
  <2>1. w + 1 .. s + 1 = (w + 1 .. s) \cup {s + 1}
    BY <1>2
  <2>2. QED
    BY <1>1, <1>3, <2>1
<1>11. QED
  BY <1>2, <1>7, <1>8, <1>9, <1>10 DEF Tracks, new

LEMMA SyncInitIInv == SyncInit => SyncIInv
<1> SUFFICES ASSUME SyncInit PROVE SyncIInv
  OBVIOUS
<1>1. IInv
  BY InitIInv DEF SyncInit
<1>2. SyncTypeOK
  BY <1>1 DEF SyncInit, SyncTypeOK, IInv
<1>3. ASSUME NEW c \in Clients, NEW id \in Ids PROVE Follows(c, id)
  <2>1. up /\ state = 0 /\ since[c] = 0 /\ cache[c][id] = Absent /\ msgs[id] = Absent
    BY DEF SyncInit, Init
  <2>2. 0 + 1 .. 0 = {}
    OBVIOUS
  <2>3. QED
    BY <2>1, <2>2 DEF Follows, Tracks, CreatedIn, DestroyedIn, UpdatedIn
<1>4. QED
  BY <1>1, <1>2, <1>3 DEF SyncIInv

\* Every thread's step is taken while the store is open.
LEMMA StepUp ==
    ASSUME IInv, NEW w \in Workers, Step(w)
    PROVE  up /\ up'
<1>1. ~ up => job[w].kind = "idle"
  BY DEF IInv, JobsWellFormed, Idle
<1>2. QED
  BY <1>1 DEF IInv, TypeOK, Step, PutBegin, PutWrite, PutFails, PutIndex, DeleteIndex, DeleteFile,
     PurgeIndex, PurgeFile, PatchIndex, PatchTruncate, PatchWrite, PatchFails

LEMMA ServerStepSync ==
    ASSUME SyncIInv, NEW w \in Workers, ServerStep(w)
    PROVE  SyncIInv'
<1>1. IInv /\ IInv' /\ up /\ up'
  BY StepIInv, StepUp DEF SyncIInv, ServerStep
<1>2. SyncTypeOK'
  BY <1>1 DEF SyncIInv, SyncTypeOK, ServerStep, IInv, ReplacedUnannounced
<1>3. \/ Feed!Announce \/ Feed!Replace \/ UNCHANGED Feed!feedVars
  <2>1. [Feed!FeedNext]_Feed!feedVars
    BY <1>1, StepFeed DEF ServerStep
  <2>2. QED
    BY <1>1, <2>1 DEF Feed!FeedNext, Feed!Fail, Feed!Restart
<1>4. ASSUME NEW c \in Clients, NEW id \in Ids \ suspect'[c] PROVE Follows(c, id)'
  <2>1. UNCHANGED <<cache, since, todo>> /\ id \notin suspect[c] /\ id \notin ReplacedUnannounced
    BY DEF ServerStep, SyncIInv, SyncTypeOK
  <2>2. Tracks(cache[c][id], id \notin todo[c], since[c], state, changes, id, msgs[id])
    BY <1>1, <2>1 DEF SyncIInv, Follows
  <2>3. /\ since[c] \in Nat /\ state \in Nat /\ DOMAIN changes = 1 .. state
    BY DEF SyncIInv, SyncTypeOK, TypeOK, IInv, LogComplete
  <2>4. Tracks(cache[c][id], id \notin todo[c], since[c], state', changes', id, msgs'[id])
    <3>1. CASE Feed!Announce
      <4>1. PICK rec \in ChangeRecord : /\ state' = state + 1
                                        /\ changes' = Insert(changes, state + 1, rec)
                                        /\ Feed!Describes(rec, msgs, msgs')
        BY <3>1 DEF Feed!Announce, Feed!ChangeRecord, ChangeRecord, Feed!Insert, Insert
      <4>2. /\ id \in rec.added <=> msgs[id] = Absent /\ msgs'[id] # Absent
            /\ id \in rec.removed <=> msgs[id] # Absent /\ msgs'[id] = Absent
            /\ id \in rec.updated => msgs'[id] # Absent
            /\ msgs[id] # Absent /\ msgs'[id] # Absent /\ msgs[id] # msgs'[id]
               => id \in rec.updated
        BY <4>1 DEF Feed!Describes, Feed!Present
      <4>3. QED
        BY <2>2, <2>3, <4>1, <4>2, TracksNext
    <3>2. CASE Feed!Replace
      <4>1. /\ state' = state /\ changes' = changes
            /\ msgs[id] # Absent <=> msgs'[id] # Absent
        BY <3>2 DEF Feed!Replace, Feed!Present
      <4>2. msgs'[id] = msgs[id]
        BY <2>1, <4>1 DEF ReplacedUnannounced
      <4>3. QED
        BY <2>2, <4>1, <4>2
    <3>3. CASE UNCHANGED Feed!feedVars
      BY <2>2, <3>3 DEF Feed!feedVars
    <3>4. QED
      BY <1>3, <3>1, <3>2, <3>3
  <2>5. QED
    BY <1>1, <2>1, <2>4 DEF Follows
<1>5. QED
  BY <1>1, <1>2, <1>4 DEF SyncIInv

LEMMA CrashStepSync ==
    ASSUME SyncIInv, CrashStep
    PROVE  SyncIInv'
<1>1. IInv /\ IInv' /\ up /\ ~ up'
  BY CrashIInv DEF SyncIInv, CrashStep, Crash
<1>2. SyncTypeOK'
  BY <1>1 DEF SyncIInv, SyncTypeOK, CrashStep, Crash, IInv, Unsettled, TypeOK
<1>3. ASSUME NEW c \in Clients, NEW id \in Ids \ suspect'[c] PROVE Follows(c, id)'
  <2>1. /\ delta' # Torn /\ delta' = Saved(state, changes)
        /\ id \notin suspect[c] /\ id \notin Unsettled
    BY DEF CrashStep
  <2>2. Readable(file[id]) = msgs[id]
    BY <1>1, <2>1 DEF IInv, DiskMatchesIndex, Unsettled
  <2>3. Tracks(cache[c][id], id \notin todo[c], since[c], state, changes, id, msgs[id])
    BY <1>1, <2>1 DEF SyncIInv, Follows
  <2>4. /\ UNCHANGED <<cache, since, todo, file>>
        /\ delta'.state = state /\ delta'.changes = changes
    BY <2>1 DEF CrashStep, Crash, Saved
  <2>5. QED
    BY <1>1, <2>1, <2>2, <2>3, <2>4 DEF Follows, Readable
<1>4. QED
  BY <1>1, <1>2, <1>3 DEF SyncIInv

LEMMA OpenStepSync ==
    ASSUME SyncIInv, OpenStep
    PROVE  SyncIInv'
<1>1. IInv /\ IInv' /\ ~ up /\ up'
  BY OpenIInv DEF SyncIInv, OpenStep, Open
<1>2. SyncTypeOK'
  BY <1>1 DEF SyncIInv, SyncTypeOK, OpenStep, IInv
<1>3. ASSUME NEW c \in Clients, NEW id \in Ids \ suspect'[c] PROVE Follows(c, id)'
  <2>1. /\ UNCHANGED <<cache, since, todo, suspect>> /\ msgs'[id] = Readable(file[id])
        /\ delta # Torn => state' = delta.state /\ changes' = delta.changes
    BY DEF OpenStep, Open
  <2>2. Follows(c, id)
    BY <2>1 DEF SyncIInv
  <2>3. QED
    BY <1>1, <2>1, <2>2 DEF Follows
<1>4. QED
  BY <1>1, <1>2, <1>3 DEF SyncIInv

\* A window of no version.
LEMMA TracksNow ==
    ASSUME NEW had, NEW fetched, NEW s \in Nat, NEW log, NEW id, NEW m,
           ~ fetched \/ had = m
    PROVE  Tracks(had, fetched, s, s, log, id, m)
<1>1. s + 1 .. s = {}
  OBVIOUS
<1>2. QED
  BY <1>1 DEF Tracks, CreatedIn, DestroyedIn, UpdatedIn

LEMMA QueryStateSync ==
    ASSUME SyncIInv, NEW c \in Clients, QueryState(c)
    PROVE  SyncIInv'
<1>1. IInv /\ IInv' /\ up /\ up'
  BY StutterIInv DEF SyncIInv, QueryState, vars
<1>2. SyncTypeOK'
  <2>1. listing[c] \in SUBSET Ids
    BY DEF SyncIInv, SyncTypeOK, QueryState
  <2>2. TypeOK' /\ state \in Nat
    BY <1>1 DEF IInv, TypeOK
  <2>3. QED
    BY <2>1, <2>2 DEF SyncIInv, SyncTypeOK, QueryState, Indexed
<1>3. ASSUME NEW d \in Clients, NEW id \in Ids \ suspect'[d] PROVE Follows(d, id)'
  <2>0. UNCHANGED <<state, changes, msgs>> /\ state \in Nat
    BY DEF QueryState, vars, SyncIInv, IInv, TypeOK
  <2>1. CASE d = c
    <3>1. /\ cache'[c][id] = Absent /\ since'[c] = state
          /\ id \in todo'[c] <=> id \in listing[c]
          /\ id \in listing[c] <=> msgs[id] # Absent
      BY <2>1 DEF QueryState, SyncIInv, SyncTypeOK, Indexed
    <3>2. Tracks(cache'[c][id], id \notin todo'[c], since'[c], state, changes, id, msgs[id])
      BY <2>0, <3>1, TracksNow
    <3>3. QED
      BY <1>1, <2>0, <2>1, <3>2 DEF Follows
  <2>2. CASE d # c
    <3>1. /\ cache'[d] = cache[d] /\ since'[d] = since[d] /\ todo'[d] = todo[d]
          /\ suspect'[d] = suspect[d]
      BY <2>2 DEF QueryState, SyncIInv, SyncTypeOK
    <3>2. QED
      BY <1>1, <2>0, <3>1 DEF Follows, SyncIInv
  <2>3. QED
    BY <2>1, <2>2
<1>4. QED
  BY <1>1, <1>2, <1>3 DEF SyncIInv

LEMMA ChangesSync ==
    ASSUME SyncIInv, NEW c \in Clients, Changes(c)
    PROVE  SyncIInv'
<1>1. IInv /\ IInv' /\ up /\ up'
  BY StutterIInv DEF SyncIInv, Changes, vars
<1> DEFINE net == NetChanges(changes, since[c], state)
<1>2. FoldChanges(changes, since[c], state) = net
  <2>1. /\ since[c] \in Nat /\ state \in Nat /\ since[c] <= state
        /\ \A v \in since[c] + 1 .. state : changes[v] \in ChangeRecord
    BY <1>1 DEF SyncIInv, SyncTypeOK, IInv, TypeOK, LogComplete, IsLog, Changes
  <2>2. QED
    BY <2>1, FoldIsNet
<1>3. /\ net.destroyed \subseteq Ids /\ net.created \subseteq Ids /\ net.updated \subseteq Ids
      /\ \A id \in Ids :
             /\ id \in net.created <=> CreatedIn(changes, since[c], state, id)
             /\ id \in net.destroyed <=> DestroyedIn(changes, since[c], state, id)
             /\ id \in net.updated <=> UpdatedIn(changes, since[c], state, id)
  BY DEF NetChanges
<1> HIDE DEF net
<1>4. /\ cache' = [cache EXCEPT ![c] = [id \in Ids |-> IF id \in net.destroyed THEN Absent
                                                       ELSE cache[c][id]]]
      /\ todo' = [todo EXCEPT ![c] = (@ \ net.destroyed) \cup net.created \cup net.updated]
      /\ since' = [since EXCEPT ![c] = state]
      /\ UNCHANGED <<state, changes, msgs, listing, suspect>>
  BY <1>2 DEF Changes, vars
<1>5. SyncTypeOK'
  <2>1. TypeOK' /\ state \in Nat
    BY <1>1 DEF IInv, TypeOK
  <2>2. QED
    BY <1>3, <1>4, <2>1 DEF SyncIInv, SyncTypeOK
<1>6. ASSUME NEW d \in Clients, NEW id \in Ids \ suspect'[d] PROVE Follows(d, id)'
  <2>1. CASE d = c
    <3>1. Tracks(cache[c][id], id \notin todo[c], since[c], state, changes, id, msgs[id])
      BY <1>1, <1>4, <2>1 DEF SyncIInv, Follows
    <3>2. /\ cache'[c][id] = IF id \in net.destroyed THEN Absent ELSE cache[c][id]
          /\ id \in todo'[c] <=> \/ id \in todo[c] /\ id \notin net.destroyed
                                 \/ id \in net.created \cup net.updated
          /\ since'[c] = state
      BY <1>4 DEF SyncIInv, SyncTypeOK
    <3>3. id \notin todo'[c] => cache'[c][id] = msgs[id]
      BY <1>3, <3>1, <3>2 DEF Tracks
    <3>4. Tracks(cache'[c][id], id \notin todo'[c], since'[c], state, changes, id, msgs[id])
      BY <3>2, <3>3, TracksNow DEF SyncIInv, IInv, TypeOK
    <3>5. QED
      BY <1>1, <1>4, <2>1, <3>4 DEF Follows
  <2>2. CASE d # c
    <3>1. /\ cache'[d] = cache[d] /\ since'[d] = since[d] /\ todo'[d] = todo[d]
          /\ suspect'[d] = suspect[d]
      BY <1>4, <2>2 DEF SyncIInv, SyncTypeOK
    <3>2. QED
      BY <1>1, <1>4, <3>1 DEF Follows, SyncIInv
  <2>3. QED
    BY <2>1, <2>2
<1>7. QED
  BY <1>1, <1>5, <1>6 DEF SyncIInv

LEMMA GetSync ==
    ASSUME SyncIInv, NEW c \in Clients, NEW i \in Ids, Get(c, i)
    PROVE  SyncIInv'
<1>1. IInv /\ IInv' /\ up /\ up'
  BY StutterIInv DEF SyncIInv, Get, vars
<1>2. SyncTypeOK'
  <2>1. TypeOK' /\ msgs[i] \in {Absent} \cup Content
    BY <1>1 DEF IInv, TypeOK
  <2>2. cache' \in [Clients -> [Ids -> {Absent} \cup Content]]
    BY <2>1 DEF Get, SyncIInv, SyncTypeOK
  <2>3. QED
    BY <2>1, <2>2 DEF SyncIInv, SyncTypeOK, Get
<1>3. ASSUME NEW d \in Clients, NEW id \in Ids \ suspect'[d] PROVE Follows(d, id)'
  <2>0. UNCHANGED <<state, changes, msgs, since, suspect>>
    BY DEF Get, vars
  <2>1. Tracks(cache[d][id], id \notin todo[d], since[d], state, changes, id, msgs[id])
    BY <1>1, <2>0 DEF SyncIInv, Follows
  <2>2. CASE d = c /\ id = i
    <3>1. cache'[d][id] = msgs[id] /\ id \notin todo'[d]
      BY <2>2 DEF Get, SyncIInv, SyncTypeOK
    <3>2. Tracks(msgs[id], TRUE, since[d], state, changes, id, msgs[id])
      BY <2>1 DEF Tracks
    <3>3. Tracks(cache'[d][id], id \notin todo'[d], since[d], state, changes, id, msgs[id])
      BY <3>1, <3>2 DEF Tracks
    <3>4. QED
      BY <1>1, <2>0, <3>3 DEF Follows
  <2>3. CASE d # c \/ id # i
    <3>1. cache'[d][id] = cache[d][id] /\ (id \in todo'[d] <=> id \in todo[d])
      BY <2>3 DEF Get, SyncIInv, SyncTypeOK
    <3>2. Tracks(cache'[d][id], id \notin todo'[d], since[d], state, changes, id, msgs[id])
      BY <2>1, <3>1 DEF Tracks
    <3>3. QED
      BY <1>1, <2>0, <3>2 DEF Follows
  <2>4. QED
    BY <2>2, <2>3
<1>4. QED
  BY <1>1, <1>2, <1>3 DEF SyncIInv

\* A step that touches neither the store nor what the clients hold of it.
LEMMA QuietSync ==
    ASSUME SyncIInv, UNCHANGED <<vars, cache, since, todo, suspect>>, SyncTypeOK'
    PROVE  SyncIInv'
<1>1. IInv'
  BY StutterIInv DEF SyncIInv
<1>2. ASSUME NEW c \in Clients, NEW id \in Ids \ suspect'[c] PROVE Follows(c, id)'
  BY DEF SyncIInv, Follows, vars, Readable
<1>3. QED
  BY <1>1, <1>2 DEF SyncIInv

LEMMA SyncNextIInv == SyncIInv /\ [SyncNext]_syncVars => SyncIInv'
<1> SUFFICES ASSUME SyncIInv, [SyncNext]_syncVars PROVE SyncIInv'
  OBVIOUS
<1>1. ASSUME NEW c \in Clients, QueryIds(c) PROVE SyncIInv'
  <2>1. TypeOK'
    BY <1>1, StutterIInv DEF QueryIds, SyncIInv, IInv
  <2>2. SyncTypeOK'
    BY <1>1, <2>1 DEF QueryIds, SyncIInv, SyncTypeOK, Indexed
  <2>3. QED
    BY <1>1, <2>2, QuietSync DEF QueryIds
<1>2. ASSUME UNCHANGED syncVars PROVE SyncIInv'
  <2>1. TypeOK'
    BY <1>2, StutterIInv DEF syncVars, SyncIInv, IInv
  <2>2. SyncTypeOK'
    BY <1>2, <2>1 DEF syncVars, clientVars, SyncIInv, SyncTypeOK
  <2>3. QED
    BY <1>2, <2>2, QuietSync DEF syncVars, clientVars
<1>3. QED
  BY <1>1, <1>2, ServerStepSync, CrashStepSync, OpenStepSync, QueryStateSync, ChangesSync, GetSync
  DEF SyncNext

(* A client that Email/changes still answers is never silently stale, for    *)
(* any numbers of ids, clients and threads: outside suspect, one             *)
(* Email/changes and one Email/get of what it names bring it to what the     *)
(* store holds, and one Email/queryChanges its lists.                        *)
THEOREM NeverSilentlyStale == SyncSpec => []NoSilentStaleness
<1>1. SyncIInv => NoSilentStaleness
  <2>1. SUFFICES ASSUME SyncIInv, up, NEW c \in Clients, NEW id \in Ids \ suspect[c]
                 PROVE  CatchesUp(c, id) /\ (id \notin todo[c] => ListsFollow(c, id))
    BY DEF NoSilentStaleness
  <2>2. Tracks(cache[c][id], id \notin todo[c], since[c], state, changes, id, msgs[id])
    BY <2>1 DEF SyncIInv, Follows
  <2>3. QED
    BY <2>1, <2>2, TracksSuffices DEF SyncIInv, IInv
<1>2. QED
  BY <1>1, SyncInitIInv, SyncNextIInv, PTL DEF SyncSpec

=============================================================================
