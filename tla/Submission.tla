------------------------------ MODULE Submission ------------------------------
(***************************************************************************)
(* One account's drafts and what becomes of them: Email/set create, copy,  *)
(* import and destroy, EmailSubmission/set, the two hooks the relay puts   *)
(* in the store (submit.rs, hooks.rs) and the task that builds, signs and  *)
(* sends the message and then writes the stored copy once more.            *)
(*                                                                         *)
(* Store models the steps inside put and patch and OutboundQueue what      *)
(* happens to a message after its first attempt.  Here both are one step,  *)
(* and the subject is which copy of a message goes where.                  *)
(***************************************************************************)
EXTENDS Naturals, FiniteSets

CONSTANTS
    Id,             \* message ids; a client may name its own
    Peer,           \* addresses of other people
    Worker,         \* request threads, each with the send it has spawned
    None,
    Torn,           \* the content of a key file whose write was cut short
    MaxEmails, MaxSubmissions, MaxChanges, MaxFaults

ASSUME SubmissionAssumption ==
    /\ None \notin Id \cup Peer \cup Worker
    /\ Torn \notin Worker /\ None # Torn
    /\ {MaxEmails, MaxSubmissions, MaxChanges, MaxFaults} \subseteq Nat

VARIABLES
    pending,        \* Inner.pending: drafts, in memory only
    stored,         \* Inner.msgs and the files
    subs,           \* Inner.submissions: the messages recorded as submitted
    job,            \* where each request is in EmailSubmission/set
    task,           \* the send each request has spawned
    keyOnFile,      \* the account's pubkey.pgp exists
    dkim,           \* the domain's key.pem: None, Torn, or who made the key
    wire,           \* the message last handed to SMTP
    emails,         \* messages made so far; each has a number, its tag
    fate,           \* ghost: what has happened to each of them
    submissions,    \* EmailSubmission/set creates so far
    changes,        \* keyword changes and deletions so far
    faults          \* crashes and failed writes and encryptions so far

vars == <<pending, stored, subs, job, task, keyOnFile, dkim, wire,
          emails, fate, submissions, changes, faults>>

Tag == 1 .. MaxEmails

(***************************************************************************)
(* An Email.  text is what its text part holds: plaintext, a PGP message   *)
(* of the client's own, or one sealed to the account's key; html whether   *)
(* body_values holds a plaintext HTML alternative.                         *)
(***************************************************************************)
Email == [tag : Tag, draft : BOOLEAN, seen : BOOLEAN, e2e : BOOLEAN,
          text : {"plain", "pgp", "sealed"}, html : BOOLEAN,
          from : Peer \cup {None},
          parent : Id \cup {None}, thread : Id \cup {None}]

ASSUME EmailAssumption == None \notin Email

Idle == [step |-> "idle"]

Fresh(text, html, from, parent) ==
    [tag |-> emails + 1, draft |-> FALSE, seen |-> FALSE, e2e |-> FALSE,
     text |-> text, html |-> html, from |-> from,
     parent |-> parent, thread |-> None]

Init ==
    /\ pending = [i \in Id |-> None]
    /\ stored = [i \in Id |-> None]
    /\ subs = {}
    /\ job = [w \in Worker |-> Idle]
    /\ task = [w \in Worker |-> Idle]
    /\ keyOnFile \in BOOLEAN
    /\ dkim = None
    /\ wire = None
    /\ emails = 0
    /\ fate = [t \in Tag |-> {}]
    /\ submissions = 0 /\ changes = 0 /\ faults = 0

Mark(tags, what) == [t \in Tag |-> IF t \in tags THEN fate[t] \cup {what} ELSE fate[t]]

-----------------------------------------------------------------------------
(* The store.                                                              *)

\* put finds the thread of a message that has none.
Resolve(i, m) ==
    IF m.thread # None THEN m
    ELSE [m EXCEPT !.thread =
            IF m.parent # None /\ stored[m.parent] # None
            THEN stored[m.parent].thread ELSE i]

Put(i, m) == stored' = [stored EXCEPT ![i] = Resolve(i, m)]

\* Ghost: the sends under way whose message, or its parent, changes now.
Touched(i) ==
    [w \in Worker |->
        IF task[w].step # "idle" /\ (task[w].id = i \/ task[w].stored.parent = i)
        THEN [task[w] EXCEPT !.touched = TRUE] ELSE task[w]]

\* Inbound delivery: sealed to the account's key when there is one.  Its ids
\* are msg-<Message-ID>, which no draft has.
Receive(i, p) ==
    /\ emails < MaxEmails
    /\ stored[i] # None => stored[i].from # None
    /\ Put(i, Fresh(IF keyOnFile THEN "sealed" ELSE "plain", FALSE, p, None))
    /\ emails' = emails + 1
    /\ fate' = Mark({emails + 1}, "stored")
    /\ task' = Touched(i)
    /\ UNCHANGED <<submissions, pending, subs, job, keyOnFile, dkim, wire, changes, faults>>

\* Email/import of a blob still in memory: stored as it was uploaded.
Import(i, p) ==
    /\ emails < MaxEmails
    /\ stored[i] = None             \* import-<key>-<now> is a new id
    /\ Put(i, Fresh("plain", FALSE, p, None))
    /\ emails' = emails + 1
    /\ fate' = Mark({emails + 1}, "stored")
    /\ task' = Touched(i)
    /\ UNCHANGED <<submissions, pending, subs, job, keyOnFile, dkim, wire, changes, faults>>

\* Email/copy under the id <id>-cp-<key>; the thread is copied with the rest.
\* store.get finds a draft too, so a copy of one is a stored message.
Copy(i, j) ==
    LET m == IF stored[i] # None THEN stored[i] ELSE pending[i]
    IN  /\ i # j /\ m # None /\ stored[j] = None
        /\ emails < MaxEmails
        /\ Put(j, [m EXCEPT !.tag = emails + 1])
        /\ emails' = emails + 1
        /\ fate' = Mark({emails + 1}, "stored")
        /\ task' = Touched(j)
        /\ UNCHANGED <<submissions, pending, subs, job, keyOnFile, dkim, wire, changes, faults>>

\* Email/set update of a keyword.  A draft is not in msgs: nothing happens to
\* it, and the answer is "updated" all the same.
Patch(i) ==
    /\ stored[i] # None
    /\ changes < MaxChanges
    /\ stored' = [stored EXCEPT ![i].seen = ~@]
    /\ changes' = changes + 1
    /\ task' = Touched(i)
    /\ UNCHANGED <<submissions, pending, subs, job, keyOnFile, dkim, wire, emails, fate, faults>>

\* Email/set destroy; a draft under the same id stays where it is.
Destroy(i) ==
    /\ stored[i] # None
    /\ changes < MaxChanges
    /\ stored' = [stored EXCEPT ![i] = None]
    /\ changes' = changes + 1
    /\ task' = Touched(i)
    /\ UNCHANGED <<submissions, pending, subs, job, keyOnFile, dkim, wire, emails, fate, faults>>

\* The client uploads a public key.
UploadKey ==
    /\ ~keyOnFile
    /\ keyOnFile' = TRUE
    /\ UNCHANGED <<submissions, pending, stored, subs, job, task, dkim, wire, emails, fate,
                   changes, faults>>

-----------------------------------------------------------------------------
(* Email/set create: on_create_email.  Over the cap nothing happens.       *)

Create(i, text, html, parent) ==
    /\ emails < MaxEmails
    /\ parent # None => parent # i /\ stored[parent] # None    \* a reply answers mail
    /\ html => text = "plain"
    /\ pending' = [pending EXCEPT ![i] =
                     [Fresh(text, html, None, parent) EXCEPT !.draft = TRUE]]
    /\ emails' = emails + 1
    /\ fate' = IF pending[i] = None THEN fate ELSE Mark({pending[i].tag}, "lost")
    /\ UNCHANGED <<submissions, stored, subs, job, task, keyOnFile, dkim, wire,
                   changes, faults>>

-----------------------------------------------------------------------------
(* EmailSubmission/set create.                                             *)

\* The draft leaves pending before the hook is asked; without one the stored
\* message of that id is sent again, as far as clients do that to mail of
\* their own.
\* to is what resolve_envelope makes of the envelope supplied or, when that
\* has no sender, of the headers; one supplied may name nobody.
Job(i, m, to) == [step |-> "hook", id |-> i, msg |-> m, to |-> to]

\* Mutant: the stored message is preferred, and the draft of that id dropped.
TakeStoredFirst(w, i, to) ==
    /\ job[w].step = "idle" /\ task[w].step = "idle"
    /\ submissions < MaxSubmissions
    /\ submissions' = submissions + 1
    /\ pending[i] = None => stored[i] # None /\ stored[i].from = None
    /\ job' = [job EXCEPT ![w] =
                 Job(i, IF stored[i] # None THEN stored[i] ELSE pending[i], to)]
    /\ pending' = [pending EXCEPT ![i] = None]
    /\ UNCHANGED <<stored, subs, task, keyOnFile, dkim, wire, emails, fate,
                   changes, faults>>

Take(w, i, to) ==
    /\ job[w].step = "idle" /\ task[w].step = "idle"
    /\ submissions < MaxSubmissions
    /\ submissions' = submissions + 1
    /\ pending[i] = None => stored[i] # None /\ stored[i].from = None
    /\ job' = [job EXCEPT ![w] =
                 Job(i, IF pending[i] # None THEN pending[i] ELSE stored[i], to)]
    /\ pending' = [pending EXCEPT ![i] = None]
    /\ UNCHANGED <<stored, subs, task, keyOnFile, dkim, wire, emails, fate,
                   changes, faults>>

\* Mutant: the copy to be stored shares its HTML alternative with the one sent.
SealStoredBodyTextOnly(m) == [m EXCEPT !.text = "sealed"]

SealStoredBody(m) == [m EXCEPT !.text = "sealed", !.html = FALSE]

\* The copy that stays; works says whether encrypting succeeds.
StoredCopy(m, works) ==
    LET s == [m EXCEPT !.draft = FALSE]
    IN  IF s.text # "plain" THEN [s EXCEPT !.e2e = TRUE]
        ELSE IF keyOnFile /\ works THEN SealStoredBody(s)
        ELSE s

\* on_submit_email has its answer from put, and spawns the send.
Submit(w) ==
    LET j == job[w] IN
    /\ j.step = "hook"
    /\ \E works \in BOOLEAN :
        LET copy == StoredCopy(j.msg, works)
            sealed == j.msg.text = "plain" /\ copy.text = "sealed"
        IN  /\ works \/ faults < MaxFaults
            /\ faults' = faults + (IF works THEN 0 ELSE 1)
            /\ Put(j.id, copy)
            /\ fate' = [fate EXCEPT ![j.msg.tag] =
                          (@ \ {"ended", "cut", "nobody"})
                            \cup {"stored"} \cup (IF sealed THEN {"sealed"} ELSE {})
                            \cup (IF works THEN {} ELSE {"undone"})]
            /\ task' = [Touched(j.id) EXCEPT ![w] =
                          [step |-> "build", id |-> j.id, outbound |-> j.msg,
                           stored |-> copy, to |-> j.to, key |-> None,
                           touched |-> FALSE]]
    /\ job' = [job EXCEPT ![w] = [@ EXCEPT !.step = "record"]]
    /\ UNCHANGED <<submissions, pending, subs, keyOnFile, dkim, wire, emails, changes>>

\* The storage cap (the disk is outside the model), an envelope derived from
\* headers that name nobody, or reply_only_outbound and the mail the account
\* has had: notCreated.
Refuse(w) ==
    LET j == job[w] IN
    /\ j.step = "hook"
    /\ job' = [job EXCEPT ![w] = Idle]
    /\ fate' = Mark({j.msg.tag}, "lost")
    /\ UNCHANGED <<submissions, pending, stored, subs, task, keyOnFile, dkim, wire, emails,
                   changes, faults>>

\* Mutant: the error of put is dropped, and the record made.
PutFailsUnseen(w) ==
    LET j == job[w] IN
    /\ j.step = "hook"
    /\ faults < MaxFaults
    /\ faults' = faults + 1
    /\ job' = [job EXCEPT ![w] = [@ EXCEPT !.step = "record"]]
    /\ fate' = Mark({j.msg.tag}, "lost")
    /\ UNCHANGED <<submissions, pending, stored, subs, task, keyOnFile, dkim, wire, emails,
                   changes>>

\* The message file cannot be written: the hook fails, and so does the create.
PutFails(w) ==
    LET j == job[w] IN
    /\ j.step = "hook"
    /\ faults < MaxFaults
    /\ faults' = faults + 1
    /\ job' = [job EXCEPT ![w] = Idle]
    /\ fate' = Mark({j.msg.tag}, "lost")
    /\ UNCHANGED <<submissions, pending, stored, subs, task, keyOnFile, dkim, wire, emails,
                   changes>>

\* The record is made after the hook has returned, while the send is on.
Record(w) ==
    /\ job[w].step = "record"
    /\ subs' = subs \cup {job[w].msg.tag}
    /\ job' = [job EXCEPT ![w] = Idle]
    /\ UNCHANGED <<submissions, pending, stored, task, keyOnFile, dkim, wire, emails, fate,
                   changes, faults>>

-----------------------------------------------------------------------------
(* The send: outbound::send, then the rest of spawn_send.                  *)

\* Step 1 to 5 of outbound.rs, each on what the one before has produced.
Build(m) == [form |-> m.text, wrapped |-> FALSE,
             signer |-> None, over |-> FALSE]
Wrap(x) == IF x.form = "plain" THEN x ELSE [x EXCEPT !.wrapped = TRUE]
Sign(x, key) == IF key = None THEN x
                ELSE [x EXCEPT !.signer = key, !.over = x.wrapped]
Assemble(m, key) == Sign(Wrap(Build(m)), key)

Ends(w, next, how) ==
    /\ task' = [task EXCEPT ![w] = next]
    /\ fate' = Mark({task[w].outbound.tag}, how)

\* An envelope that names nobody: the send is an error, told to the log alone.
NobodyToSendTo(w) ==
    /\ task[w].step = "build" /\ task[w].to = {}
    /\ Ends(w, Idle, "nobody")
    /\ UNCHANGED <<submissions, pending, stored, subs, job, keyOnFile, dkim, wire, emails,
                   changes, faults>>

\* load_or_generate_key: a readable key file is used ...
LoadKey(w) ==
    /\ task[w].step = "build" /\ task[w].to # {}
    /\ task' = [task EXCEPT ![w] =
                  IF dkim \in Worker THEN [@ EXCEPT !.step = "deliver", !.key = dkim]
                  ELSE [@ EXCEPT !.step = "generate"]]
    /\ UNCHANGED <<submissions, pending, stored, subs, job, keyOnFile, dkim, wire, emails, fate,
                   changes, faults>>

\* Mutant: the key file is overwritten.
WriteKeyOver(w) ==
    /\ task[w].step = "generate"
    /\ dkim' = w
    /\ task' = [task EXCEPT ![w] = [@ EXCEPT !.step = "deliver", !.key = w]]
    /\ UNCHANGED <<submissions, pending, stored, subs, job, keyOnFile, wire, emails, fate,
                   changes, faults>>

\* ... or one is made, and written only if there is still no file.  Whoever
\* finds one sends unsigned.
WriteKey(w) ==
    /\ task[w].step = "generate"
    /\ dkim' = IF dkim = None THEN w ELSE dkim
    /\ task' = [task EXCEPT ![w] =
                  [@ EXCEPT !.step = "deliver", !.key = IF dkim = None THEN w ELSE None]]
    /\ UNCHANGED <<submissions, pending, stored, subs, job, keyOnFile, wire, emails, fate,
                   changes, faults>>

\* Accepted, held in the queue, or refused for good.
Send(w) ==
    LET x == Assemble(task[w].outbound, task[w].key) IN
    /\ task[w].step = "deliver"
    /\ \E next \in {[task[w] EXCEPT !.step = "back"], Idle} : Ends(w, next, "ended")
    /\ wire' = x
    /\ UNCHANGED <<submissions, pending, stored, subs, job, keyOnFile, dkim, emails,
                   changes, faults>>

\* Mutant: the copy with the plaintext is written back.
PutBackOutbound(w) ==
    LET t == task[w] IN
    /\ t.step = "back"
    /\ Put(t.id, t.outbound)
    /\ fate' = IF t.touched THEN Mark({t.stored.tag}, "undone") ELSE fate
    /\ task' = [Touched(t.id) EXCEPT ![w] = Idle]
    /\ UNCHANGED <<submissions, pending, subs, job, keyOnFile, dkim, wire, emails,
                   changes, faults>>

\* The copy made at submission is put again, with the Message-ID sent, and
\* its thread is looked up again: the copy never had one.
PutBack(w) ==
    LET t == task[w] IN
    /\ t.step = "back"
    /\ Put(t.id, t.stored)
    /\ fate' = IF t.touched THEN Mark({t.stored.tag}, "undone") ELSE fate
    /\ task' = [Touched(t.id) EXCEPT ![w] = Idle]
    /\ UNCHANGED <<submissions, pending, subs, job, keyOnFile, dkim, wire, emails,
                   changes, faults>>

-----------------------------------------------------------------------------
(* The process ends and starts again: drafts, requests and sends are gone, *)
(* and a key file may have been cut short.                                 *)

Busy(f) == {w \in Worker : f[w].step # "idle"}

Crash ==
    /\ faults < MaxFaults
    /\ faults' = faults + 1
    /\ pending' = [i \in Id |-> None]
    /\ job' = [w \in Worker |-> Idle]
    /\ task' = [w \in Worker |-> Idle]
    /\ dkim' \in {dkim} \cup
         (IF dkim = None /\ \E w \in Worker : task[w].step = "generate" THEN {Torn} ELSE {})
    /\ LET drafts == {pending[i].tag : i \in {k \in Id : pending[k] # None}}
           taken == {job[w].msg.tag : w \in {v \in Busy(job) : job[v].step = "hook"}}
           sent == {task[w].outbound.tag : w \in Busy(task)}
       IN  fate' = [t \in Tag |-> fate[t]
                      \cup (IF t \in drafts \cup taken THEN {"lost"} ELSE {})
                      \cup (IF t \in sent THEN {"cut"} ELSE {})]
    /\ UNCHANGED <<submissions, stored, subs, keyOnFile, wire, emails, changes>>

Next ==
    \/ \E i \in Id, p \in Peer : Receive(i, p) \/ Import(i, p)
    \/ \E i, j \in Id : Copy(i, j)
    \/ \E i \in Id : Patch(i) \/ Destroy(i)
    \/ UploadKey
    \/ \E i \in Id, text \in {"plain", "pgp"}, html \in BOOLEAN,
          parent \in Id \cup {None} :
          Create(i, text, html, parent)
    \/ \E w \in Worker, i \in Id, to \in SUBSET Peer : Take(w, i, to)
    \/ \E w \in Worker :
          \/ Submit(w) \/ Refuse(w) \/ PutFails(w) \/ Record(w)
          \/ NobodyToSendTo(w) \/ LoadKey(w) \/ WriteKey(w) \/ Send(w) \/ PutBack(w)
    \/ Crash

Spec == Init /\ [][Next]_vars

-----------------------------------------------------------------------------
Jobs == {Idle} \cup [step : {"hook", "record"}, id : Id, msg : Email, to : SUBSET Peer]

Tasks == {Idle} \cup [step : {"build", "generate", "deliver", "back"}, id : Id,
                      outbound : Email, stored : Email, to : SUBSET Peer,
                      key : Worker \cup {None}, touched : BOOLEAN]

\* Every variable keeps its type; a stored message has a thread, and a pending
\* one has none yet.
TypeOK ==
    /\ pending \in [Id -> {None} \cup {m \in Email : m.draft /\ m.thread = None}]
    /\ stored \in [Id -> {None} \cup {m \in Email : m.thread # None}]
    /\ subs \subseteq Tag
    /\ job \in [Worker -> Jobs]
    /\ task \in [Worker -> Tasks]
    /\ keyOnFile \in BOOLEAN
    /\ dkim \in Worker \cup {None, Torn}
    /\ emails \in 0 .. MaxEmails
    /\ fate \in [Tag -> SUBSET {"lost", "stored", "sealed", "ended", "nobody", "cut", "undone"}]

(***************************************************************************)
(* A message that was sealed when it was submitted stays sealed on the     *)
(* relay: neither the second write after the send nor a submission of the  *)
(* stored copy brings its plaintext, or its HTML alternative, back.  The   *)
(* ways it comes back (undone) are the write of an older copy, by a first  *)
(* submission without a key whose send ends after the second one has       *)
(* sealed, and a second submission, under way already, that cannot encrypt.*)
(* submit.rs on_submit_email and spawn_send, hooks.rs seal_stored_body.    *)
(***************************************************************************)
SealedStaysSealed ==
    \A i \in Id :
        (stored[i] # None /\ "sealed" \in fate[stored[i].tag]
                          /\ "undone" \notin fate[stored[i].tag])
        => stored[i].text # "plain" /\ ~stored[i].html

(***************************************************************************)
(* A draft the client was told of is pending, in a submission under way,   *)
(* or was stored; or it is one of those lost to a restart, a refused       *)
(* submission, a failed write, or another draft created under its id.      *)
(* There is no other way to lose one, however two submissions of an id and *)
(* a stored message of that id meet.                                       *)
(***************************************************************************)
DraftsAccounted ==
    \A t \in 1 .. emails :
        \/ fate[t] \cap {"lost", "stored"} # {}
        \/ \E i \in Id : pending[i] # None /\ pending[i].tag = t
        \/ \E w \in Worker : job[w].step = "hook" /\ job[w].msg.tag = t

(***************************************************************************)
(* What EmailSubmission/get lists was stored, and its send is under way or *)
(* has been tried, with two exceptions: a crash has cut it (cut), or the   *)
(* envelope the client gave has a sender and no recipient, which the hook  *)
(* lets through and the send then finds out (nobody).  A failed hook lists *)
(* nothing, whatever else is under way for the message.                    *)
(* submission.rs set, submit.rs on_submit_email and spawn_send.            *)
(***************************************************************************)
RecordsAreTrue ==
    \A t \in subs :
        /\ "stored" \in fate[t]
        /\ \/ fate[t] \cap {"ended", "nobody", "cut"} # {}
           \/ \E w \in Worker : task[w].step # "idle" /\ task[w].outbound.tag = t

(***************************************************************************)
(* "A submission with no recipients is refused rather than silently        *)
(* dropped" (hooks.rs:197): none is listed whose envelope names nobody.    *)
(***************************************************************************)
NobodyIsRefused == \A t \in subs : "nobody" \notin fate[t]

(***************************************************************************)
(* A signature verifies: it was made with the one key the domain has, and  *)
(* over the message in the form it left in.  Two sends that both find no   *)
(* key must not sign with two, and nothing may be wrapped after signing.   *)
(* dkim.rs load_or_generate_key, outbound.rs send.                         *)
(***************************************************************************)
SignaturesHold ==
    wire # None => (wire.signer # None => wire.signer = dkim /\ wire.over = wire.wrapped)

(***************************************************************************)
(* The second write of a sent message changes nothing when no one has      *)
(* touched the message, or the parent its thread is taken from, since the  *)
(* first: a keyword or a deletion is undone only if it came between.       *)
(* submit.rs spawn_send.                                                   *)
(***************************************************************************)
PutBackChangesNothing ==
    [][\A w \in Worker :
          (task[w].step = "back" /\ task'[w].step = "idle" /\ ~task[w].touched)
          => stored' = stored]_vars

=============================================================================
