------------------------------- MODULE Store -------------------------------
(***************************************************************************)
(* The message half of the JMAP object store (jmapserver/src/store.rs):    *)
(* an index in memory behind one lock, one file per message on disk, and   *)
(* the change log, which is written to delta.json inside the lock.         *)
(*                                                                         *)
(* The code holds the lock for the index and the log, and writes or        *)
(* removes the message file outside it.  An operation is therefore split   *)
(* into the steps between which another thread, a failed system call or a  *)
(* crash can come: put writes its file and then indexes; patch, delete and *)
(* purge index and then touch the file.                                    *)
(*                                                                         *)
(* A message is abstracted to its set of flags (keywords and mailboxes),   *)
(* the part a patch changes.  Ids whose file names collide are outside the *)
(* model: each id has a file of its own.                                   *)
(***************************************************************************)
EXTENDS ChangeLog, FiniteSets

CONSTANTS Flags,        \* keywords and mailbox memberships a message can carry
          Workers,      \* threads that call into the store
          Absent,       \* no such message, no such file
          Torn,         \* a file that was truncated and not written to the end
          MaxState,     \* bound on the state counter
          MaxCrashes,   \* bound on the number of crashes
          MaxFailures   \* bound on the number of failed file operations

ASSUME StoreAssumption ==
    /\ \A content \in SUBSET Flags : content # Absent /\ content # Torn
    /\ Absent # Torn
    /\ MaxState \in Nat
    /\ MaxCrashes \in Nat
    /\ MaxFailures \in Nat

Content == SUBSET Flags

VARIABLES
    up,        \* the process runs and the store is open
    msgs,      \* index: msgs[id] is a message or Absent
    state,     \* the state counter clients see
    changes,   \* the change log: version -> record
    file,      \* messages/<id>.json: content, Absent or Torn
    delta,     \* delta.json: the state and log last saved, or Torn
    job,       \* what each thread is in the middle of
    doubt,     \* ghost: ids whose operations overlapped, or whose file operation failed
    crashes,   \* number of crashes so far
    failures   \* number of failed file operations so far

memory == <<msgs, state, changes>>
disk   == <<file, delta>>
vars   == <<up, msgs, state, changes, file, delta, job, doubt, crashes, failures>>

-----------------------------------------------------------------------------
(* A thread's job: the step it is about to take, the ids whose file that   *)
(* step and the ones after it concern, and the message it is to write.     *)
(*   put     the message file is truncated and being written               *)
(*   index   the file is written, the message not yet in the index         *)
(*   delete  out of the index, the file still to be removed                *)
(*   patch   patched in the index, the file still to be rewritten          *)
(*   rewrite the patched file is truncated and being written               *)
(*   purge   the index is cleared, the files of ids still to be removed    *)
JobKind == {"idle", "put", "index", "delete", "patch", "rewrite", "purge"}
Job == [kind: JobKind, ids: SUBSET Ids, val: Content]
Idle == [kind |-> "idle", ids |-> {}, val |-> {}]

Start(w, kind, ids, val) ==
    job' = [job EXCEPT ![w] = [kind |-> kind, ids |-> ids, val |-> val]]

Become(w, kind) == job' = [job EXCEPT ![w].kind = kind]
Finish(w) == job' = [job EXCEPT ![w] = Idle]

InFlight(id) == \E w \in Workers : id \in job[w].ids
Overlapping(ids) == {id \in ids : InFlight(id)}

Saved(s, log) == [state |-> s, changes |-> log]
IsSaved(d) == d = Saved(d.state, d.changes) /\ d.state \in Nat /\ IsLog(d.changes)

\* Mutant: what is left of a torn file is read as a message.
ReadableTorn(f) == IF f = Torn THEN {Torn} ELSE f

\* What opening the store reads from a message file.
Readable(f) == IF f = Torn THEN Absent ELSE f

Indexed == {id \in Ids : msgs[id] # Absent}

-----------------------------------------------------------------------------
Init ==
    /\ up = TRUE
    /\ msgs = [id \in Ids |-> Absent]
    /\ state = 0
    /\ changes = EmptyLog
    /\ file = [id \in Ids |-> Absent]
    /\ delta = Saved(0, EmptyLog)
    /\ job = [w \in Workers |-> Idle]
    /\ doubt = {}
    /\ crashes = 0
    /\ failures = 0

CanFail == failures < MaxFailures
Failed == failures' = failures + 1

\* Mutant: the state is saved before the counter advances.
SaveStateBefore ==
    \/ delta' = Saved(state, changes) /\ UNCHANGED failures
    \/ CanFail /\ Failed /\ delta' \in {delta, Torn}

\* save_state_locked: a failed write is swallowed and leaves the old file or a torn one.
SaveState ==
    \/ delta' = Saved(state', changes') /\ UNCHANGED failures
    \/ CanFail /\ Failed /\ delta' \in {delta, Torn}

\* Advance the state counter and record what happened at the new version.
Bump(rec) ==
    /\ state' = state + 1
    /\ changes' = Insert(changes, state + 1, rec)
    /\ SaveState

\* The bound on the counter, met when an operation begins: what has begun can finish.
Room == state + Cardinality({w \in Workers : job[w].kind \in {"put", "index"}}) < MaxState

\* put: an insert that replaces a message does not advance the counter.
PutBegin(w, id, val) ==
    /\ up /\ job[w] = Idle /\ Room
    /\ file' = [file EXCEPT ![id] = Torn]
    /\ Start(w, "put", {id}, val)
    /\ doubt' = doubt \cup Overlapping({id})
    /\ UNCHANGED <<up, memory, delta, crashes, failures>>

PutWrite(w) ==
    /\ job[w].kind = "put"
    /\ \E id \in job[w].ids :
           file' = [file EXCEPT ![id] = job[w].val]
    /\ Become(w, "index")
    /\ UNCHANGED <<up, memory, delta, doubt, crashes, failures>>

\* The write fails: put returns the error and indexes nothing.
PutFails(w) ==
    /\ job[w].kind = "put"
    /\ CanFail /\ Failed
    /\ doubt' = doubt \cup job[w].ids
    /\ Finish(w)
    /\ UNCHANGED <<up, memory, disk, crashes>>

\* Mutant: a new message is indexed with no new version.
PutIndexNoBump(w) ==
    /\ job[w].kind = "index"
    /\ \E id \in job[w].ids :
           msgs' = [msgs EXCEPT ![id] = job[w].val]
    /\ Finish(w)
    /\ UNCHANGED <<up, state, changes, file, delta, doubt, crashes, failures>>

PutIndex(w) ==
    /\ job[w].kind = "index"
    /\ \E id \in job[w].ids :
           /\ msgs' = [msgs EXCEPT ![id] = job[w].val]
           /\ IF msgs[id] = Absent
              THEN Bump(AddedRec({id}))
              ELSE UNCHANGED <<state, changes, delta, failures>>
    /\ Finish(w)
    /\ UNCHANGED <<up, file, doubt, crashes>>

-----------------------------------------------------------------------------
\* delete and purge: the index first, the files after the lock is released.
DeleteIndex(w, id) ==
    /\ up /\ job[w] = Idle /\ Room
    /\ IF msgs[id] # Absent
       THEN msgs' = [msgs EXCEPT ![id] = Absent] /\ Bump(RemovedRec({id}))
       ELSE UNCHANGED <<memory, delta, failures>>
    /\ Start(w, "delete", {id}, {})
    /\ doubt' = doubt \cup Overlapping({id})
    /\ UNCHANGED <<up, file, crashes>>

\* Mutant: the file of a deleted message stays.
RemoveFileNever(id) == UNCHANGED <<file, doubt, failures>>

\* remove_file, whose error is ignored.
RemoveFile(id) ==
    \/ file' = [file EXCEPT ![id] = Absent] /\ UNCHANGED <<doubt, failures>>
    \/ /\ file[id] # Absent /\ CanFail /\ Failed
       /\ doubt' = doubt \cup {id}
       /\ UNCHANGED file

DeleteFile(w) ==
    /\ job[w].kind = "delete"
    /\ \E id \in job[w].ids : RemoveFile(id)
    /\ Finish(w)
    /\ UNCHANGED <<up, memory, delta, crashes>>

PurgeIndex(w) ==
    /\ up /\ job[w] = Idle /\ Room
    /\ msgs' = [id \in Ids |-> Absent]
    /\ IF Indexed # {}
       THEN Bump(RemovedRec(Indexed))
       ELSE UNCHANGED <<state, changes, delta, failures>>
    /\ Start(w, "purge", Ids, {})
    /\ doubt' = doubt \cup Overlapping(Ids)
    /\ UNCHANGED <<up, file, crashes>>

PurgeFile(w, id) ==
    /\ job[w].kind = "purge"
    /\ id \in job[w].ids
    /\ RemoveFile(id)
    /\ IF job[w].ids = {id} THEN Finish(w)
       ELSE job' = [job EXCEPT ![w].ids = @ \ {id}]
    /\ UNCHANGED <<up, memory, delta, crashes>>

-----------------------------------------------------------------------------
\* patch: an unknown id is a no-op; a known one always advances the counter.
PatchIndex(w, id, on, off) ==
    /\ up /\ job[w] = Idle /\ Room
    /\ msgs[id] # Absent
    /\ LET patched == (msgs[id] \cup on) \ off
       IN  /\ msgs' = [msgs EXCEPT ![id] = patched]
           /\ Start(w, "patch", {id}, patched)
    /\ Bump(UpdatedRec({id}))
    /\ doubt' = doubt \cup Overlapping({id})
    /\ UNCHANGED <<up, file, crashes>>

PatchTruncate(w) ==
    /\ job[w].kind = "patch"
    /\ \E id \in job[w].ids : file' = [file EXCEPT ![id] = Torn]
    /\ Become(w, "rewrite")
    /\ UNCHANGED <<up, memory, delta, doubt, crashes, failures>>

PatchWrite(w) ==
    /\ job[w].kind = "rewrite"
    /\ \E id \in job[w].ids : file' = [file EXCEPT ![id] = job[w].val]
    /\ Finish(w)
    /\ UNCHANGED <<up, memory, delta, doubt, crashes, failures>>

\* The write fails: the caller gets an error for a patch the index keeps.
PatchFails(w) ==
    /\ job[w].kind = "rewrite"
    /\ CanFail /\ Failed
    /\ doubt' = doubt \cup job[w].ids
    /\ Finish(w)
    /\ UNCHANGED <<up, memory, disk, crashes>>

-----------------------------------------------------------------------------
\* A thread that can be inside save_state_locked when the process dies.
MaySave == \E w \in Workers : job[w].kind \in {"idle", "index"}

Crash ==
    /\ up
    /\ crashes < MaxCrashes
    /\ crashes' = crashes + 1
    /\ up' = FALSE
    /\ msgs' = [id \in Ids |-> Absent]
    /\ state' = 0
    /\ changes' = EmptyLog
    /\ delta' \in {delta} \cup {d \in {Torn} : MaySave}
    /\ job' = [w \in Workers |-> Idle]
    /\ doubt' = {}
    /\ UNCHANGED <<file, failures>>

\* open: every readable message file, and the saved state unless it is unreadable.
Open ==
    /\ ~up
    /\ up' = TRUE
    /\ msgs' = [id \in Ids |-> Readable(file[id])]
    /\ IF delta = Torn
       THEN state' = 0 /\ changes' = EmptyLog
       ELSE state' = delta.state /\ changes' = delta.changes
    /\ UNCHANGED <<disk, job, doubt, crashes, failures>>

Step(w) ==
    \/ \E id \in Ids, val \in Content : PutBegin(w, id, val)
    \/ PutWrite(w)
    \/ PutFails(w)
    \/ PutIndex(w)
    \/ \E id \in Ids : DeleteIndex(w, id)
    \/ DeleteFile(w)
    \/ PurgeIndex(w)
    \/ \E id \in Ids : PurgeFile(w, id)
    \/ \E id \in Ids, on, off \in SUBSET Flags : PatchIndex(w, id, on, off)
    \/ PatchTruncate(w)
    \/ PatchWrite(w)
    \/ PatchFails(w)

Next ==
    \/ \E w \in Workers : Step(w)
    \/ Crash
    \/ Open

Spec == Init /\ [][Next]_vars

-----------------------------------------------------------------------------
TypeOK ==
    /\ up \in BOOLEAN
    /\ msgs \in [Ids -> {Absent} \cup Content]
    /\ state \in Nat
    /\ IsLog(changes)
    /\ file \in [Ids -> {Absent, Torn} \cup Content]
    /\ delta = Torn \/ IsSaved(delta)
    /\ job \in [Workers -> Job]
    /\ doubt \subseteq Ids
    /\ crashes \in Nat
    /\ failures \in Nat

(* An id whose operations did not overlap and whose file operations did not  *)
(* fail is on disk exactly as it is in the index once none of them is in     *)
(* flight: what a restart would load is what clients are being shown.        *)
DiskMatchesIndex ==
    up => \A id \in Ids \ doubt : ~ InFlight(id) => Readable(file[id]) = msgs[id]

(* No version is skipped, in memory or in delta.json.  While the store runs  *)
(* delta.json has a beginning of the log in memory, record for record, so    *)
(* that a version a restart still knows means what it meant before; and as   *)
(* long as nothing failed it has all of it, or it was torn in a crash and    *)
(* nothing was announced since.  What becomes of clients whose state was     *)
(* lost is the subject of StoreSync.                                         *)
LogComplete ==
    /\ DOMAIN changes = 1 .. state
    /\ delta # Torn => DOMAIN delta.changes = 1 .. delta.state
    /\ up /\ delta # Torn =>
           /\ delta.state <= state
           /\ \A v \in 1 .. delta.state : delta.changes[v] = changes[v]
    /\ up /\ failures = 0 => delta = Saved(state, changes) \/ (delta = Torn /\ state = 0)

(* The store implements the change feed: every step of every thread either   *)
(* leaves the index alone, replaces a message, or moves the index by exactly *)
(* what the record of the new version says.                                  *)
Feed == INSTANCE ChangeFeed WITH live <- up, view <- msgs, version <- state, log <- changes

ImplementsFeed == Feed!FeedSpec

=============================================================================
