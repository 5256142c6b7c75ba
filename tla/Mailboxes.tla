----------------------------- MODULE Mailboxes -----------------------------
(***************************************************************************)
(* The mailbox list and the identity list of one account and the clients   *)
(* that mirror them: Mailbox/get, /changes, /set and Identity/get, /set    *)
(* (methods/mailbox.rs, methods/identity.rs, store.rs).                    *)
(*                                                                         *)
(* The mailbox list lives in its file alone and its change log in memory   *)
(* and delta.json; a set reads the file, computes, writes it and then      *)
(* advances the log, with no lock across the three.  A save of delta.json  *)
(* that fails goes unnoticed, and the next start has an older log, or      *)
(* none.  The identity list lives in memory, replaced with its file under  *)
(* the store's lock, and its state is a counter that starts at 0 with      *)
(* every process.                                                          *)
(***************************************************************************)
EXTENDS Integers, Sequences

CONSTANTS
    Workers,      \* threads that run a method
    Clients,      \* clients that mirror the lists
    Ids,          \* ids of mailboxes and of identities
    Default,      \* the inbox's id, and the default identity's
    Names,        \* their names
    BoxRequests, IdentityRequests,    \* the set requests that are made
    Torn,         \* a file that does not parse
    None,
    MaxSets, MaxCrashes, MaxFailures     \* bounds

Entry == [id : Ids, name : Names]

\* The list every account has from its start, whatever it had before.
FirstName   == CHOOSE n \in Names : TRUE
DefaultList == << [id |-> Default, name |-> FirstName] >>

\* One set request: at most one create, one rename and one destroy.  What is created has the
\* first name, a rename gives it another.
Requests ==
    LET fresh == {e \in Entry : e.name = FirstName}
    IN  [create : {None} \cup fresh, rename : {None} \cup (Entry \ fresh),
         destroy : {None} \cup Ids]

ASSUME MailboxesAssumption ==
    /\ Default \in Ids /\ Names # {}
    /\ Torn \notin Seq(Entry) /\ None \notin Seq(Entry)
    /\ BoxRequests \cup IdentityRequests \subseteq Requests
    /\ {MaxSets, MaxCrashes, MaxFailures} \subseteq Nat

Kinds  == {"mailbox", "identity"}
Entries == UNION {[1..n -> Entry] : n \in 0..(MaxSets + 2)}
Record == [created : SUBSET Ids, updated : SUBSET Ids, destroyed : SUBSET Ids]
View   == [list : Entries \cup {None}, state : Nat]

VARIABLES
    up,
    boxFile,      \* mailboxes.json: a list or Torn
    log,          \* mailbox_changes, version by version; its length is mailbox_state
    saved,        \* delta.json: a log or Torn
    idList,       \* identities in memory
    idFile,       \* identities.json: a list or Torn
    idState,      \* identity_state
    job,          \* job[w]: the Mailbox/set of thread w between its read and its end
    view,         \* view[c][k]: the list c has and the state it came with
    half,         \* half[c][k]: what the first read of a get under way returned
    budget,       \* sets, crashes and failures so far
    missed,       \* ghost: <<c, k>>: c may hold a list that went unannounced
    rewound,      \* ghost: clients that hold a state of a log that was lost
    strayed,      \* ghost: clients that hold a list from before the log explained it
    tangled,      \* ghost: a Mailbox/set has overlapped another, or failed, and some are on
    base          \* ghost: the version since which the log explains the list

lists  == <<idList, idFile, idState>>
ghosts == <<missed, rewound, strayed, tangled, base>>
vars == <<up, boxFile, log, saved, lists, job, view, half, budget, ghosts>>

Job  == [pc : {"idle", "truncate", "write", "bump", "replace"},
         next : Entries, rec : Record, bumps : Nat]
Idle == [pc |-> "idle", next |-> <<>>,
         rec |-> [created |-> {}, updated |-> {}, destroyed |-> {}],
         bumps |-> 0]

\* What a file that does not parse is read as.
Read(file) == IF file = Torn THEN <<>> ELSE file

IdsOf(list) == {list[i].id : i \in DOMAIN list}

Init ==
    /\ up = TRUE
    /\ boxFile = DefaultList /\ log = <<>> /\ saved = <<>>
    /\ idList = <<>> /\ idFile = <<>> /\ idState = 0
    /\ job = [w \in Workers |-> Idle]
    /\ view = [c \in Clients |-> [k \in Kinds |-> [list |-> None, state |-> 0]]]
    /\ half = [c \in Clients |-> [k \in Kinds |-> None]]
    /\ budget = [sets |-> 0, crashes |-> 0, failures |-> 0]
    /\ missed = {} /\ rewound = {} /\ strayed = {} /\ tangled = FALSE /\ base = 0

-----------------------------------------------------------------------------
(* Mailboxes.                                                              *)

\* A creation is appended, whether or not its id is taken.
Created(list, q) == IF q.create = None THEN list ELSE Append(list, q.create)

\* A rename is of the first entry with the id.
Renamed(list, e) ==
    IF e = None \/ e.id \notin IdsOf(list) THEN list
    ELSE LET i == CHOOSE i \in DOMAIN list :
                      list[i].id = e.id /\ \A j \in 1..(i - 1) : list[j].id # e.id
         IN  [list EXCEPT ![i].name = e.name]

\* A destruction is of every entry with the id, at the end.
Kept(list, id) ==
    LET kept[n \in 0..Len(list)] ==
            IF n = 0 THEN <<>>
            ELSE IF list[n].id = id THEN kept[n - 1] ELSE Append(kept[n - 1], list[n])
    IN  IF id = None THEN list ELSE kept[Len(list)]

Applied(list, q) == Kept(Renamed(Created(list, q), q.rename), q.destroy)

\* What the request did, for the log: the operations that found their mailbox.
RecordOf(list, q) ==
    LET there == IdsOf(Created(list, q))
    IN  [created   |-> IF q.create = None THEN {} ELSE {q.create.id},
         updated   |-> IF q.rename = None THEN {} ELSE {q.rename.id} \cap there,
         destroyed |-> IF q.destroy = None THEN {} ELSE {q.destroy} \cap there]

Nothing(rec) == rec.created \cup rec.updated \cup rec.destroyed = {}

InFlight(w) == job[w].pc # "idle"

\* A Mailbox/set is under way.
InSet(w) == job[w].pc \in {"truncate", "write", "bump"}

Counted(what, max) ==
    /\ budget[what] < max
    /\ budget' = [budget EXCEPT ![what] = @ + 1]

\* Mailbox/set reads the list and works on its copy.  A request that changed nothing writes
\* nothing.
SetRead(w, q) ==
    /\ up /\ ~InFlight(w)
    /\ Counted("sets", MaxSets)
    /\ LET list == Read(boxFile)  rec == RecordOf(list, q)
       IN  /\ ~Nothing(rec)
           /\ job' = [job EXCEPT ![w] = [pc |-> "truncate", next |-> Applied(list, q),
                                         rec |-> rec, bumps |-> 0]]
    /\ tangled' = (tangled \/ \E v \in Workers : InSet(v))
    /\ strayed' = IF tangled' THEN Clients ELSE strayed
    /\ UNCHANGED <<up, boxFile, log, saved, lists, view, half, missed, rewound, base>>

SetTruncate(w) ==
    /\ up /\ job[w].pc = "truncate"
    /\ boxFile' = Torn
    /\ job' = [job EXCEPT ![w].pc = "write"]
    /\ UNCHANGED <<up, log, saved, lists, view, half, budget, ghosts>>

SetWrite(w) ==
    /\ up /\ job[w].pc = "write"
    /\ boxFile' = job[w].next
    /\ job' = [job EXCEPT ![w].pc = "bump"]
    /\ UNCHANGED <<up, log, saved, lists, view, half, budget, ghosts>>

\* Mutant: an error of the write ends the method.
SetFailsUnannounced(w) ==
    /\ up /\ job[w].pc \in {"truncate", "write"}
    /\ Counted("failures", MaxFailures)
    /\ job' = [job EXCEPT ![w] = Idle]
    /\ tangled' = TRUE /\ strayed' = Clients
    /\ UNCHANGED <<up, boxFile, log, saved, lists, view, half, missed, rewound, base>>

\* An error of the write is ignored: the log advances all the same.
SetFails(w) ==
    /\ up /\ job[w].pc \in {"truncate", "write"}
    /\ Counted("failures", MaxFailures)
    /\ job' = [job EXCEPT ![w].pc = "bump"]
    /\ tangled' = TRUE /\ strayed' = Clients
    /\ UNCHANGED <<up, boxFile, log, saved, lists, view, half, missed, rewound, base>>

\* The end of a Mailbox/set.  When the last of those that overlapped, or failed, is through,
\* the log explains the list again: to a client that gets it from now on.
SetEnds(w) ==
    /\ job' = [job EXCEPT ![w] = Idle]
    /\ IF tangled /\ \A v \in Workers \ {w} : ~InSet(v)
       THEN tangled' = FALSE /\ base' = Len(log')
       ELSE UNCHANGED <<tangled, base>>
    /\ UNCHANGED <<up, boxFile, lists, view, half, missed, rewound, strayed>>

\* Mutant: what was destroyed is not in the record.
SetBumpForgets(w) ==
    /\ up /\ job[w].pc = "bump"
    /\ log' = Append(log, [job[w].rec EXCEPT !.destroyed = {}])
    /\ saved' = log'
    /\ SetEnds(w)
    /\ UNCHANGED budget

\* The record is in the log and in delta.json in one step of the lock.
SetBump(w) ==
    /\ up /\ job[w].pc = "bump"
    /\ log' = Append(log, job[w].rec)
    /\ saved' = log'
    /\ SetEnds(w)
    /\ UNCHANGED budget

\* An error of the save is ignored: the log in memory advances all the same.
SetBumpUnsaved(w) ==
    /\ up /\ job[w].pc = "bump"
    /\ Counted("failures", MaxFailures)
    /\ log' = Append(log, job[w].rec)
    /\ saved' \in {saved, Torn}
    /\ SetEnds(w)

\* Any other method of the store that announces something saves the log as well, or fails to.
OtherSave ==
    /\ up /\ saved # log /\ saved' = log
    /\ UNCHANGED <<up, boxFile, log, lists, job, view, half, budget, ghosts>>

OtherSaveFails ==
    /\ up /\ saved # Torn /\ saved' = Torn
    /\ Counted("failures", MaxFailures)
    /\ UNCHANGED <<up, boxFile, log, lists, job, view, half, ghosts>>

\* Mailbox/get: the state, then the file.  Ids are not looked at; the client gets the list,
\* an empty one from a file that is being written.
BoxState(c) ==
    /\ up /\ half[c]["mailbox"] = None
    /\ half' = [half EXCEPT ![c]["mailbox"] = Len(log)]
    /\ UNCHANGED <<up, boxFile, log, saved, lists, job, view, budget, ghosts>>

BoxList(c) ==
    /\ up /\ half[c]["mailbox"] # None
    /\ view' = [view EXCEPT ![c]["mailbox"] = [list |-> Read(boxFile),
                                               state |-> half[c]["mailbox"]]]
    /\ half' = [half EXCEPT ![c]["mailbox"] = None]
    /\ missed' = IF boxFile = Torn THEN missed \cup {<<c, "mailbox">>}
                 ELSE missed \ {<<c, "mailbox">>}
    /\ rewound' = rewound \ {c}
    /\ strayed' = IF tangled \/ half[c]["mailbox"] < base THEN strayed \cup {c}
                  ELSE strayed \ {c}
    /\ UNCHANGED <<up, boxFile, log, saved, lists, job, budget, tangled, base>>

\* Mailbox/changes: the records after a state, oldest first, folded into one.
Folded(net, rec) ==
    LET created == net.created \cup rec.created
    IN  [created   |-> created \ rec.destroyed,
         updated   |-> (net.updated \cup (rec.updated \ created)) \ rec.destroyed,
         destroyed |-> (net.destroyed \ rec.created) \cup rec.destroyed]

ChangesSince(records, since) ==
    LET net[v \in since..Len(records)] ==
            IF v = since THEN Idle.rec ELSE Folded(net[v - 1], records[v])
    IN  net[Len(records)]

\* Mailbox/queryChanges: the same fold, without what was renamed.
QueryFolded(net, rec) == [added   |-> (net.added \cup rec.created) \ rec.destroyed,
                          removed |-> (net.removed \ rec.created) \cup rec.destroyed]

QueryChangesSince(records, since) ==
    LET net[v \in since..Len(records)] ==
            IF v = since THEN [added |-> {}, removed |-> {}]
            ELSE QueryFolded(net[v - 1], records[v])
    IN  net[Len(records)]

-----------------------------------------------------------------------------
(* Identities.                                                             *)

\* The default identity stands in for an empty list, and an update of it stores it.
Shown(list) == IF list = <<>> THEN DefaultList ELSE list

IdentityApplied(list, q) ==
    LET created == Created(list, q)
        upsert  == q.rename # None /\ q.rename.id = Default /\ Default \notin IdsOf(created)
    IN  Kept(IF upsert THEN Append(created, q.rename) ELSE Renamed(created, q.rename), q.destroy)

IdentityBumps(list, q) ==
    LET created == Created(list, q)
        updated == q.rename # None /\ q.rename.id \in IdsOf(created) \cup {Default}
        there   == IdsOf(created) \cup (IF updated THEN {q.rename.id} ELSE {})
    IN  (IF q.create = None THEN 0 ELSE 1) + (IF updated THEN 1 ELSE 0)
            + (IF q.destroy \in there THEN 1 ELSE 0)

\* Identity/set reads the list and works on its copy.
IdentityRead(w, q) ==
    /\ up /\ ~InFlight(w)
    /\ Counted("sets", MaxSets)
    /\ LET bumps == IdentityBumps(idList, q)
       IN  /\ bumps > 0
           /\ job' = [job EXCEPT ![w] = [pc |-> "replace", next |-> IdentityApplied(idList, q),
                                         rec |-> Idle.rec, bumps |-> bumps]]
    /\ UNCHANGED <<up, boxFile, log, saved, lists, view, half, ghosts>>

\* The list is replaced and its file written under one lock.
IdentityReplace(w) ==
    /\ up /\ job[w].pc = "replace"
    /\ idList' = job[w].next /\ idFile' = idList'
    /\ idState' = idState + job[w].bumps
    /\ job' = [job EXCEPT ![w] = Idle]
    /\ UNCHANGED <<up, boxFile, log, saved, view, half, budget, ghosts>>

\* An error of the write is ignored: the list in memory stands.
IdentityFileFails(w) ==
    /\ up /\ job[w].pc = "replace"
    /\ Counted("failures", MaxFailures)
    /\ idList' = job[w].next /\ idFile' \in {idFile, Torn}
    /\ idState' = idState + job[w].bumps
    /\ job' = [job EXCEPT ![w] = Idle]
    /\ UNCHANGED <<up, boxFile, log, saved, view, half, ghosts>>

\* Identity/get: the list, then the state: a set in between goes unnoticed.
IdentityList(c) ==
    /\ up /\ half[c]["identity"] = None
    /\ half' = [half EXCEPT ![c]["identity"] = Shown(idList)]
    /\ UNCHANGED <<up, boxFile, log, saved, lists, job, view, budget, ghosts>>

IdentityState(c) ==
    /\ up /\ half[c]["identity"] # None
    /\ view' = [view EXCEPT ![c]["identity"] = [list |-> half[c]["identity"],
                                                state |-> idState]]
    /\ half' = [half EXCEPT ![c]["identity"] = None]
    /\ missed' = IF half[c]["identity"] = Shown(idList) THEN missed \ {<<c, "identity">>}
                 ELSE missed \cup {<<c, "identity">>}
    /\ UNCHANGED <<up, boxFile, log, saved, lists, job, budget, rewound, strayed, tangled, base>>

-----------------------------------------------------------------------------
\* A crash in the middle of a replacement or a save leaves its file old, cut short or new.
\* What was in memory is kept here, for the start to be compared with.
Crash ==
    /\ up /\ Counted("crashes", MaxCrashes)
    /\ up' = FALSE
    /\ idFile' \in {idFile} \cup {Torn : w \in {v \in Workers : job[v].pc = "replace"}}
                       \cup {job[w].next : w \in {v \in Workers : job[v].pc = "replace"}}
    /\ saved' \in {saved, Torn}
                       \cup {Append(log, job[w].rec) : w \in {v \in Workers : job[v].pc = "bump"}}
    /\ job' = [w \in Workers |-> Idle]
    /\ half' = [c \in Clients |-> [k \in Kinds |-> None]]
    /\ missed' = missed
           \cup (IF \E w \in Workers : job[w].pc \in {"write", "bump"}
                 THEN Clients \X {"mailbox"} ELSE {})
           \cup (IF idState > 0 THEN Clients \X {"identity"} ELSE {})
    /\ tangled' = (tangled \/ \E w \in Workers : job[w].pc \in {"write", "bump"})
    /\ UNCHANGED <<boxFile, log, idList, idState, view, rewound, strayed, base>>

\* What may fail in a start, counted as one failure.
Failing == IF budget.failures < MaxFailures THEN SUBSET {"delta", "mailboxes", "identities"}
           ELSE {{}}

(* The start: delta.json and identities.json are read, and the mailbox list *)
(* is the default one again, with no entry in the log.  A log that cannot   *)
(* be read, or does not parse, is an empty one, and an error of the write   *)
(* of the mailbox list is ignored.                                          *)
Start(failing) ==
    /\ ~up /\ up' = TRUE
    /\ log' = IF saved = Torn \/ "delta" \in failing THEN <<>> ELSE saved
    /\ IF "mailboxes" \in failing THEN boxFile' \in {boxFile, Torn} ELSE boxFile' = DefaultList
    /\ idList' = (IF "identities" \in failing THEN <<>> ELSE Read(idFile)) /\ idState' = 0
    /\ budget' = IF failing = {} THEN budget ELSE [budget EXCEPT !.failures = @ + 1]
    /\ missed' = missed \cup (IF boxFile' = boxFile THEN {} ELSE Clients \X {"mailbox"})
                         \cup (IF idList' = idList THEN {} ELSE Clients \X {"identity"})
    /\ rewound' = IF log' = log THEN rewound ELSE Clients
    /\ strayed' = IF tangled THEN Clients ELSE strayed
    /\ tangled' = FALSE /\ base' = Len(log')
    /\ UNCHANGED <<saved, idFile, job, view, half>>

Next ==
    \/ Crash \/ OtherSave \/ OtherSaveFails
    \/ \E failing \in Failing : Start(failing)
    \/ \E w \in Workers :
           \/ \E q \in BoxRequests : SetRead(w, q)
           \/ \E q \in IdentityRequests : IdentityRead(w, q)
           \/ SetTruncate(w) \/ SetWrite(w) \/ SetFails(w)
           \/ SetBump(w) \/ SetBumpUnsaved(w)
           \/ IdentityReplace(w) \/ IdentityFileFails(w)
    \/ \E c \in Clients : BoxState(c) \/ BoxList(c) \/ IdentityList(c) \/ IdentityState(c)

Spec == Init /\ [][Next]_vars

-----------------------------------------------------------------------------
TypeOK ==
    /\ up \in BOOLEAN
    /\ boxFile \in Entries \cup {Torn} /\ idList \in Entries /\ idFile \in Entries \cup {Torn}
    /\ \A records \in {log} \cup ({saved} \ {Torn}) :
           \A i \in DOMAIN records : records[i] \in Record /\ ~Nothing(records[i])
    /\ idState \in Nat
    /\ \A w \in Workers : job[w] \in Job
    /\ \A c \in Clients, k \in Kinds : view[c][k] \in View
    /\ \A c \in Clients : /\ half[c]["mailbox"] \in Nat \cup {None}
                          /\ half[c]["identity"] \in Entries \cup {None}
    /\ budget \in [sets : 0..MaxSets, crashes : 0..MaxCrashes, failures : 0..MaxFailures]
    /\ missed \subseteq Clients \X Kinds /\ rewound \cup strayed \subseteq Clients
    /\ tangled \in BOOLEAN /\ base \in Nat

Current(k) == IF k = "mailbox" THEN [list |-> Read(boxFile), state |-> Len(log)]
              ELSE [list |-> Shown(idList), state |-> idState]

\* A Mailbox/set has touched the file and not yet the log.
Unannounced == \E w \in Workers : job[w].pc \in {"write", "bump"}

HasCurrent(c, k) == view[c][k].list # None /\ view[c][k].state = Current(k).state

(* A client that holds the current state of a list holds the current list,  *)
(* so that one told "no changes" has nothing to fetch.  The exceptions are   *)
(* a Mailbox/set not yet through, a list a start has overwritten, found      *)
(* otherwise than it was, or has reset the counter of, a set between the two *)
(* reads of Identity/get, and, until its next Mailbox/get, a client from     *)
(* before a start that found another log than the one that stopped.          *)
ViewsAreCurrent ==
    up => \A c \in Clients, k \in Kinds :
        (/\ HasCurrent(c, k)
         /\ <<c, k>> \notin missed
         /\ k = "mailbox" => ~Unannounced /\ c \notin rewound)
        => view[c][k] = Current(k)

Named(list, id) == {list[i].name : i \in {j \in DOMAIN list : list[j].id = id}}

(* A client that keeps a list and applies what Mailbox/changes says since    *)
(* its state has the mailboxes on file, and is told of each it has another   *)
(* name for; Mailbox/queryChanges leads to the same ids.  The exceptions,    *)
(* each until the client's next Mailbox/get: its list is from before the end *)
(* of sets that overlapped or failed, from a file being written, or from     *)
(* before a start that overwrote the list or found another log.              *)
LogExplainsList ==
    \A c \in Clients :
        LET mine  == view[c]["mailbox"].list
            since == view[c]["mailbox"].state
            theirs == Read(boxFile)
        IN  (/\ up /\ \A w \in Workers : ~InSet(w)
             /\ mine # None /\ <<c, "mailbox">> \notin missed /\ c \notin rewound \cup strayed) =>
            LET net == ChangesSince(log, since)  qnet == QueryChangesSince(log, since)
            IN  /\ (IdsOf(mine) \cup net.created) \ net.destroyed = IdsOf(theirs)
                /\ (IdsOf(mine) \cup qnet.added) \ qnet.removed = IdsOf(theirs)
                /\ \A id \in IdsOf(mine) \cap IdsOf(theirs) :
                       Named(mine, id) # Named(theirs, id) => id \in net.created \cup net.updated

=============================================================================
