-------------------------- MODULE MailboxesProofs ---------------------------
(***************************************************************************)
(* A client that holds the current state of the mailbox list or of the     *)
(* identity list holds the current list, and one that applies what         *)
(* Mailbox/changes or Mailbox/queryChanges says comes to the list on file, *)
(* for any clients, threads, lists, requests and faults.                   *)
(*                                                                         *)
(* The first needs no type of a list and the first invariant gives none.   *)
(* The second is about what is in a list and what a fold over the log      *)
(* computes, and has an invariant of its own beside the first.             *)
(***************************************************************************)
EXTENDS Mailboxes, WellFoundedInduction, TLAPS

-----------------------------------------------------------------------------
(* The inductive invariant.                                                *)

IsJob(j) ==
    /\ j = [pc |-> j.pc, next |-> j.next, rec |-> j.rec, bumps |-> j.bumps]
    /\ j.rec \in Record
    /\ j.bumps \in Nat /\ (j.pc = "replace" => j.bumps > 0)

IsView(v) == v = [list |-> v.list, state |-> v.state] /\ v.state \in Nat

Types ==
    /\ up \in BOOLEAN
    /\ log \in Seq(Record) /\ saved \in Seq(Record) \cup {Torn} /\ idState \in Nat
    /\ job = [w \in Workers |-> job[w]] /\ \A w \in Workers : IsJob(job[w])
    /\ view = [c \in Clients |-> [k \in Kinds |-> view[c][k]]]
    /\ \A c \in Clients, k \in Kinds : IsView(view[c][k])
    /\ half = [c \in Clients |-> [k \in Kinds |-> half[c][k]]]

Missed(c, k) == \/ view[c][k].list = None \/ <<c, k>> \in missed
                \/ k = "mailbox" /\ c \in rewound

(* No client is ahead of the log, unless a start lost it, and no get under  *)
(* way is with the state it has read: when a set announces itself, every    *)
(* list read before, in the middle of it or not, has an older state.        *)
BoxInv(c) ==
    /\ ~Missed(c, "mailbox") => view[c]["mailbox"].state <= Len(log)
    /\ half[c]["mailbox"] # None => half[c]["mailbox"] \in 0..Len(log)
    /\ ~up => half[c]["mailbox"] = None
    /\ (~Missed(c, "mailbox") /\ ~Unannounced /\ view[c]["mailbox"].state = Len(log))
           => view[c]["mailbox"].list = Read(boxFile)

IdentityInv(c) ==
    ~Missed(c, "identity") =>
        /\ view[c]["identity"].state <= idState
        /\ view[c]["identity"].state = idState => view[c]["identity"].list = Shown(idList)

(* The counter of the identities starts again with the process, and a       *)
(* client may be left with a state of the process before.  Where it is not  *)
(* named, that process has replaced nothing.                                *)
Unreplaced == ~up => \A c \in Clients : ~Missed(c, "identity") => idState = 0

IInv == /\ Types
        /\ \A c \in Clients : BoxInv(c) /\ IdentityInv(c)
        /\ Unreplaced

-----------------------------------------------------------------------------
(* What a thread becomes.                                                  *)

Becomes(w, j) == job' = [v \in Workers |-> IF v = w THEN j ELSE job[v]]

\* The record of a request names ids, whatever the list it is applied to.
LEMMA RecordTyped ==
    ASSUME NEW list, NEW q \in Requests
    PROVE  RecordOf(list, q) \in Record
<1>1. q.create # None => q.create.id \in Ids
  BY DEF Requests, Entry
<1>2. q.rename # None => q.rename.id \in Ids
  BY DEF Requests, Entry
<1>3. q.destroy # None => q.destroy \in Ids
  BY DEF Requests
<1>4. QED
  BY <1>1, <1>2, <1>3 DEF RecordOf, Record

LEMMA IdleIsJob == IsJob(Idle)
BY DEF IsJob, Idle, Record

\* A step of a Mailbox/set inside its handler, or of any request's end.
LEMMA GoesOn ==
    ASSUME Types, NEW w \in Workers, NEW pc \in {"write", "bump"},
           job' = [job EXCEPT ![w].pc = pc]
    PROVE  /\ Becomes(w, job'[w]) /\ IsJob(job'[w]) /\ job'[w].pc = pc
           /\ job'[w].rec = job[w].rec
<1>1. job'[w] = [pc |-> pc, next |-> job[w].next, rec |-> job[w].rec, bumps |-> job[w].bumps]
  BY DEF Types, IsJob
<1>2. Becomes(w, job'[w])
  BY DEF Types, Becomes
<1>3. QED
  BY <1>1, <1>2 DEF Types, IsJob

LEMMA Ends ==
    ASSUME Types, NEW w \in Workers, job' = [job EXCEPT ![w] = Idle]
    PROVE  Becomes(w, Idle)
BY DEF Types, Becomes

LEMMA JobsTyped ==
    ASSUME Types, NEW w \in Workers, NEW j, IsJob(j), Becomes(w, j)
    PROVE  job' = [v \in Workers |-> job'[v]] /\ \A v \in Workers : IsJob(job'[v])
BY DEF Types, Becomes

(* A step that leaves the mailbox list, its log and its clients alone and   *)
(* announces nothing keeps what is known of them.                           *)
LEMMA BoxFrame ==
    ASSUME UNCHANGED <<up, log, boxFile>>, Unannounced => Unannounced', NEW c \in Clients, BoxInv(c),
           view'[c]["mailbox"] = view[c]["mailbox"], half'[c]["mailbox"] = half[c]["mailbox"],
           <<c, "mailbox">> \in missed => <<c, "mailbox">> \in missed',
           c \in rewound => c \in rewound'
    PROVE  BoxInv(c)'
BY DEF BoxInv, Missed

LEMMA IdentityFrame ==
    ASSUME UNCHANGED <<idList, idState>>, NEW c \in Clients, IdentityInv(c),
           view'[c]["identity"] = view[c]["identity"],
           <<c, "identity">> \in missed => <<c, "identity">> \in missed'
    PROVE  IdentityInv(c)'
BY DEF IdentityInv, Missed

\* While the relay runs the exception for a stopped one has nothing to say.
LEMMA UnreplacedFrame ==
    ASSUME up'
    PROVE  Unreplaced'
BY DEF Unreplaced

-----------------------------------------------------------------------------
(* One lemma for each action.                                              *)

LEMMA InitIInv ==
    ASSUME Init
    PROVE  IInv
<1> USE DEF Init
<1>1. Types
  <2>1. log \in Seq(Record)
    OBVIOUS
  <2>2. job = [w \in Workers |-> job[w]] /\ \A w \in Workers : IsJob(job[w])
    BY IdleIsJob
  <2>3. view = [c \in Clients |-> [k \in Kinds |-> view[c][k]]]
    OBVIOUS
  <2>4. \A c \in Clients, k \in Kinds : IsView(view[c][k])
    BY DEF IsView
  <2>5. half = [c \in Clients |-> [k \in Kinds |-> half[c][k]]]
    OBVIOUS
  <2>6. QED
    BY <2>1, <2>2, <2>3, <2>4, <2>5 DEF Types
<1>2. \A c \in Clients : BoxInv(c) /\ IdentityInv(c)
  BY DEF BoxInv, IdentityInv, Missed, Kinds
<1>3. Unreplaced
  BY DEF Unreplaced
<1>4. QED
  BY <1>1, <1>2, <1>3 DEF IInv

LEMMA SetReadIInv ==
    ASSUME IInv, NEW w \in Workers, NEW q \in Requests, SetRead(w, q)
    PROVE  IInv'
<1> USE DEF IInv, lists
<1>1. ~InFlight(w) /\ Becomes(w, job'[w]) /\ IsJob(job'[w]) /\ job'[w].pc = "truncate"
  <2>1. RecordOf(Read(boxFile), q) \in Record
    BY RecordTyped
  <2> DEFINE next == Applied(Read(boxFile), q)
             rec  == RecordOf(Read(boxFile), q)
             j    == [pc |-> "truncate", next |-> next, rec |-> rec, bumps |-> 0]
  <2>2. job' = [job EXCEPT ![w] = j]
    BY DEF SetRead
  <2>3. Becomes(w, j) /\ job'[w] = j
    BY <2>2 DEF Types, Becomes
  <2>4. IsJob(j)
    BY <2>1 DEF IsJob
  <2>5. QED
    BY <2>3, <2>4 DEF SetRead
<1>2. Unannounced => Unannounced'
  BY <1>1 DEF Unannounced, Becomes, InFlight
<1>3. Types'
  BY <1>1, JobsTyped DEF SetRead, Types
<1>4. QED
  BY <1>2, <1>3, BoxFrame, IdentityFrame, UnreplacedFrame DEF SetRead

LEMMA SetTruncateIInv ==
    ASSUME IInv, NEW w \in Workers, SetTruncate(w)
    PROVE  IInv'
<1> USE DEF IInv, lists
<1>1. Becomes(w, job'[w]) /\ IsJob(job'[w]) /\ job'[w].pc = "write"
  BY GoesOn DEF SetTruncate
<1>2. Unannounced'
  BY <1>1 DEF Unannounced
<1>3. Types'
  BY <1>1, JobsTyped DEF SetTruncate, Types
<1>4. \A c \in Clients : BoxInv(c)'
  BY <1>2 DEF SetTruncate, ghosts, BoxInv, Missed
<1>5. QED
  BY <1>3, <1>4, IdentityFrame, UnreplacedFrame DEF SetTruncate, ghosts

LEMMA SetWriteIInv ==
    ASSUME IInv, NEW w \in Workers, SetWrite(w)
    PROVE  IInv'
<1> USE DEF IInv, lists
<1>1. Becomes(w, job'[w]) /\ IsJob(job'[w]) /\ job'[w].pc = "bump"
  BY GoesOn DEF SetWrite
<1>2. Unannounced'
  BY <1>1 DEF Unannounced
<1>3. Types'
  BY <1>1, JobsTyped DEF SetWrite, Types
<1>4. \A c \in Clients : BoxInv(c)'
  BY <1>2 DEF SetWrite, ghosts, BoxInv, Missed
<1>5. QED
  BY <1>3, <1>4, IdentityFrame, UnreplacedFrame DEF SetWrite, ghosts

LEMMA SetFailsIInv ==
    ASSUME IInv, NEW w \in Workers, SetFails(w)
    PROVE  IInv'
<1> USE DEF IInv, lists
<1>1. Becomes(w, job'[w]) /\ IsJob(job'[w]) /\ job'[w].pc = "bump"
  BY GoesOn DEF SetFails
<1>2. Unannounced'
  BY <1>1 DEF Unannounced
<1>3. Types'
  BY <1>1, JobsTyped DEF SetFails, Types
<1>4. \A c \in Clients : BoxInv(c)'
  BY <1>2 DEF SetFails, BoxInv, Missed
<1>5. QED
  BY <1>3, <1>4, IdentityFrame, UnreplacedFrame DEF SetFails

\* Every list a client has got so far is now an older one, whether or not the log is saved.
LEMMA SetBumpIInv ==
    ASSUME IInv, NEW w \in Workers, SetBump(w) \/ SetBumpUnsaved(w)
    PROVE  IInv'
<1> USE DEF IInv
<1>1. /\ up /\ log' = Append(log, job[w].rec) /\ job' = [job EXCEPT ![w] = Idle]
      /\ saved' \in {saved, Torn, log'}
      /\ UNCHANGED <<up, boxFile, lists, view, half, missed, rewound>>
  BY DEF SetBump, SetBumpUnsaved, SetEnds
<1>2. Becomes(w, Idle)
  BY <1>1, Ends
<1>3. log' \in Seq(Record) /\ Len(log') = Len(log) + 1 /\ Len(log) \in Nat
  BY <1>1 DEF Types, IsJob
<1>4. Types'
  BY <1>1, <1>2, <1>3, JobsTyped, IdleIsJob DEF lists, Types
<1>5. \A c \in Clients : BoxInv(c)'
  <2> SUFFICES ASSUME NEW c \in Clients
               PROVE  BoxInv(c)'
    OBVIOUS
  <2>1. view[c]["mailbox"].state \in Nat
    BY DEF Types, IsView, Kinds
  <2>2. QED
    BY <1>1, <1>3, <2>1 DEF BoxInv, Missed
<1>6. QED
  BY <1>1, <1>4, <1>5, IdentityFrame, UnreplacedFrame DEF lists

\* A save of the log, or one that fails, is seen by no client.
LEMMA OtherSaveIInv ==
    ASSUME IInv, OtherSave \/ OtherSaveFails
    PROVE  IInv'
<1> USE DEF IInv
<1>1. /\ up /\ saved' \in {log, Torn}
      /\ UNCHANGED <<up, boxFile, log, lists, job, view, half, ghosts>>
  BY DEF OtherSave, OtherSaveFails
<1>2. Types'
  BY <1>1 DEF lists, Types
<1>3. Unannounced' = Unannounced
  BY <1>1 DEF Unannounced
<1>4. QED
  BY <1>1, <1>2, <1>3, BoxFrame, IdentityFrame, UnreplacedFrame DEF lists, ghosts

LEMMA BoxStateIInv ==
    ASSUME IInv, NEW c \in Clients, BoxState(c)
    PROVE  IInv'
<1> USE DEF IInv, lists
<1>1. /\ half' = [d \in Clients |-> [k \in Kinds |-> half'[d][k]]]
      /\ half'[c]["mailbox"] = Len(log)
      /\ \A d \in Clients \ {c} : half'[d] = half[d]
  <2>1. /\ half = [d \in Clients |-> [k \in Kinds |-> half[d][k]]] /\ "mailbox" \in Kinds
        /\ half' = [half EXCEPT ![c]["mailbox"] = Len(log)]
    BY DEF BoxState, Types, Kinds
  <2>2. QED
    BY <2>1
<1>2. Types'
  BY <1>1 DEF BoxState, Types
<1>3. Unannounced' = Unannounced
  BY DEF BoxState, Unannounced
<1>4. \A d \in Clients : BoxInv(d)'
  <2>1. BoxInv(c)'
    <3>1. Len(log) \in 0..Len(log)
      BY DEF Types
    <3>2. QED
      BY <1>1, <1>3, <3>1 DEF BoxState, ghosts, BoxInv, Missed
  <2>2. \A d \in Clients \ {c} : BoxInv(d)'
    BY <1>1, <1>3, BoxFrame DEF BoxState, ghosts
  <2>3. QED
    BY <2>1, <2>2
<1>5. QED
  BY <1>2, <1>4, IdentityFrame, UnreplacedFrame DEF BoxState, ghosts

(* The list a client gets is the one on file, and it holds a state read     *)
(* before: the present one, unless a set has announced itself in between.   *)
LEMMA BoxListIInv ==
    ASSUME IInv, NEW c \in Clients, BoxList(c)
    PROVE  IInv'
<1> USE DEF IInv, lists
<1> DEFINE new == [list |-> Read(boxFile), state |-> half[c]["mailbox"]]
<1>1. /\ view' = [d \in Clients |-> [k \in Kinds |-> view'[d][k]]]
      /\ view'[c]["mailbox"] = new /\ view'[c]["identity"] = view[c]["identity"]
      /\ \A d \in Clients \ {c} : view'[d] = view[d]
  <2>1. /\ view = [d \in Clients |-> [k \in Kinds |-> view[d][k]]]
        /\ "mailbox" \in Kinds /\ "identity" \in Kinds
        /\ view' = [view EXCEPT ![c]["mailbox"] = new]
    BY DEF BoxList, Types, Kinds
  <2> HIDE DEF new
  <2>2. QED
    BY <2>1
<1>2. /\ half' = [d \in Clients |-> [k \in Kinds |-> half'[d][k]]]
      /\ half'[c]["mailbox"] = None
      /\ \A d \in Clients \ {c} : half'[d] = half[d]
  <2>1. /\ half = [d \in Clients |-> [k \in Kinds |-> half[d][k]]] /\ "mailbox" \in Kinds
        /\ half' = [half EXCEPT ![c]["mailbox"] = None]
    BY DEF BoxList, Types, Kinds
  <2>2. QED
    BY <2>1
<1>3. half[c]["mailbox"] \in 0..Len(log) /\ Len(log) \in Nat
  <2>1. BoxInv(c) /\ half[c]["mailbox"] # None
    BY DEF BoxList
  <2>2. Len(log) \in Nat
    BY DEF Types
  <2>3. QED
    BY <2>1, <2>2 DEF BoxInv
<1>4. IsView(new)
  BY <1>3 DEF IsView
<1>5. Types'
  <2>1. \A d \in Clients, k \in Kinds : IsView(view'[d][k])
    BY <1>1, <1>4 DEF Types, Kinds
  <2>2. QED
    BY <1>1, <1>2, <2>1 DEF BoxList, Types
<1>6. Unannounced' = Unannounced
  BY DEF BoxList, Unannounced
<1>7. \A d \in Clients, k \in Kinds :
          <<d, k>> # <<c, "mailbox">> => /\ <<d, k>> \in missed <=> <<d, k>> \in missed'
                                         /\ d # c => (d \in rewound <=> d \in rewound')
  BY DEF BoxList
<1>8. \A d \in Clients : BoxInv(d)'
  <2>1. BoxInv(c)'
    BY <1>1, <1>2, <1>3 DEF BoxList, BoxInv, Missed
  <2>2. \A d \in Clients \ {c} : BoxInv(d)'
    BY <1>1, <1>2, <1>6, <1>7, BoxFrame DEF BoxList, Kinds
  <2>3. QED
    BY <2>1, <2>2
<1>9. \A d \in Clients : IdentityInv(d)'
  BY <1>1, <1>7, IdentityFrame DEF BoxList, Kinds
<1>10. QED
  BY <1>5, <1>8, <1>9, UnreplacedFrame DEF BoxList

LEMMA IdentityReadIInv ==
    ASSUME IInv, NEW w \in Workers, NEW q \in Requests, IdentityRead(w, q)
    PROVE  IInv'
<1> USE DEF IInv, lists
<1>1. ~InFlight(w) /\ Becomes(w, job'[w]) /\ IsJob(job'[w]) /\ job'[w].pc = "replace"
  <2> DEFINE bumps == IdentityBumps(idList, q)
             next  == IdentityApplied(idList, q)
             j     == [pc |-> "replace", next |-> next, rec |-> Idle.rec, bumps |-> bumps]
  <2>1. bumps \in Nat
    BY DEF IdentityBumps
  <2>2. job' = [job EXCEPT ![w] = j] /\ bumps > 0
    BY DEF IdentityRead
  <2> HIDE DEF bumps, next
  <2>3. Becomes(w, j) /\ job'[w] = j
    BY <2>2 DEF Types, Becomes
  <2>4. IsJob(j)
    BY <2>1, <2>2 DEF IsJob, Idle, Record
  <2>5. QED
    BY <2>3, <2>4 DEF IdentityRead
<1>2. Unannounced => Unannounced'
  BY <1>1 DEF Unannounced, Becomes, InFlight
<1>3. Types'
  BY <1>1, JobsTyped DEF IdentityRead, Types
<1>4. QED
  BY <1>2, <1>3, BoxFrame, IdentityFrame, UnreplacedFrame DEF IdentityRead, ghosts

(* Whether or not the file follows, the counter moves past every state a    *)
(* client holds that is not named.                                          *)
LEMMA ReplaceIInv ==
    ASSUME IInv, NEW w \in Workers, up, job[w].pc = "replace",
           idState' = idState + job[w].bumps, job' = [job EXCEPT ![w] = Idle],
           UNCHANGED <<up, boxFile, log, saved, view, half, ghosts>>
    PROVE  IInv'
<1> USE DEF IInv, lists
<1>1. Becomes(w, Idle)
  BY Ends
<1>2. idState' \in Nat /\ idState' > idState /\ idState \in Nat
  BY DEF Types, IsJob
<1>3. Types'
  BY <1>1, <1>2, JobsTyped, IdleIsJob DEF Types
<1>4. Unannounced => Unannounced'
  BY <1>1 DEF Unannounced, Becomes
<1>5. \A c \in Clients : BoxInv(c)'
  BY <1>4, BoxFrame DEF ghosts
<1>6. \A c \in Clients : IdentityInv(c)'
  <2> SUFFICES ASSUME NEW c \in Clients
               PROVE  IdentityInv(c)'
    OBVIOUS
  <2>1. view[c]["identity"].state \in Nat
    BY DEF Types, IsView, Kinds
  <2>2. QED
    BY <1>2, <2>1 DEF IdentityInv, Missed, ghosts
<1>7. Unreplaced'
  BY UnreplacedFrame
<1>8. QED
  BY <1>3, <1>5, <1>6, <1>7

LEMMA IdentityListIInv ==
    ASSUME IInv, NEW c \in Clients, IdentityList(c)
    PROVE  IInv'
<1> USE DEF IInv, lists
<1>1. /\ half' = [d \in Clients |-> [k \in Kinds |-> half'[d][k]]]
      /\ \A d \in Clients : half'[d]["mailbox"] = half[d]["mailbox"]
  <2>1. /\ half = [d \in Clients |-> [k \in Kinds |-> half[d][k]]]
        /\ "mailbox" \in Kinds /\ "identity" \in Kinds
        /\ half' = [half EXCEPT ![c]["identity"] = Shown(idList)]
    BY DEF IdentityList, Types, Kinds
  <2>2. QED
    BY <2>1
<1>2. Types'
  BY <1>1 DEF IdentityList, Types
<1>3. Unannounced' = Unannounced
  BY DEF IdentityList, Unannounced
<1>4. QED
  BY <1>1, <1>2, <1>3, BoxFrame, IdentityFrame, UnreplacedFrame DEF IdentityList, ghosts

LEMMA IdentityStateIInv ==
    ASSUME IInv, NEW c \in Clients, IdentityState(c)
    PROVE  IInv'
<1> USE DEF IInv, lists
<1> DEFINE new == [list |-> half[c]["identity"], state |-> idState]
<1>1. /\ view' = [d \in Clients |-> [k \in Kinds |-> view'[d][k]]]
      /\ view'[c]["identity"] = new /\ view'[c]["mailbox"] = view[c]["mailbox"]
      /\ \A d \in Clients \ {c} : view'[d] = view[d]
  <2>1. /\ view = [d \in Clients |-> [k \in Kinds |-> view[d][k]]]
        /\ "mailbox" \in Kinds /\ "identity" \in Kinds
        /\ view' = [view EXCEPT ![c]["identity"] = new]
    BY DEF IdentityState, Types, Kinds
  <2> HIDE DEF new
  <2>2. QED
    BY <2>1
<1>2. /\ half' = [d \in Clients |-> [k \in Kinds |-> half'[d][k]]]
      /\ \A d \in Clients : half'[d]["mailbox"] = half[d]["mailbox"]
  <2>1. /\ half = [d \in Clients |-> [k \in Kinds |-> half[d][k]]]
        /\ "mailbox" \in Kinds /\ "identity" \in Kinds
        /\ half' = [half EXCEPT ![c]["identity"] = None]
    BY DEF IdentityState, Types, Kinds
  <2>2. QED
    BY <2>1
<1>3. Types'
  <2>1. IsView(new)
    BY DEF IsView, Types
  <2>2. \A d \in Clients, k \in Kinds : IsView(view'[d][k])
    BY <1>1, <2>1 DEF Types, Kinds
  <2>3. QED
    BY <1>1, <1>2, <2>2 DEF IdentityState, Types
<1>4. Unannounced' = Unannounced
  BY DEF IdentityState, Unannounced
<1>5. \A d \in Clients, k \in Kinds :
          <<d, k>> # <<c, "identity">> => (<<d, k>> \in missed <=> <<d, k>> \in missed')
  BY DEF IdentityState
<1>6. \A d \in Clients : BoxInv(d)'
  BY <1>1, <1>2, <1>4, <1>5, BoxFrame DEF IdentityState, Kinds
<1>7. \A d \in Clients : IdentityInv(d)'
  <2>1. IdentityInv(c)'
    <3>1. /\ view'[c]["identity"].list = half[c]["identity"]
          /\ view'[c]["identity"].state = idState /\ idState \in Nat
      BY <1>1 DEF Types
    <3>2. <<c, "identity">> \notin missed' => half[c]["identity"] = Shown(idList)
      BY DEF IdentityState
    <3>3. UNCHANGED <<idList, idState>>
      BY DEF IdentityState
    <3>4. QED
      BY <3>1, <3>2, <3>3 DEF IdentityInv, Missed
  <2>2. \A d \in Clients \ {c} : IdentityInv(d)'
    BY <1>1, <1>5, IdentityFrame DEF IdentityState, Kinds
  <2>3. QED
    BY <2>1, <2>2
<1>8. QED
  BY <1>3, <1>6, <1>7, UnreplacedFrame DEF IdentityState

(* A crash names every client of a list that a set has touched, and of the  *)
(* identities once they were replaced.                                      *)
LEMMA CrashIInv ==
    ASSUME IInv, Crash
    PROVE  IInv'
<1> USE DEF IInv, lists
<1>1. Types'
  <2>1. job' = [w \in Workers |-> job'[w]] /\ \A w \in Workers : IsJob(job'[w])
    BY IdleIsJob DEF Crash
  <2>2. half' = [c \in Clients |-> [k \in Kinds |-> half'[c][k]]]
    BY DEF Crash
  <2>3. \A w \in Workers : Append(log, job[w].rec) \in Seq(Record)
    <3>1. log \in Seq(Record) /\ \A w \in Workers : job[w].rec \in Record
      BY DEF Types, IsJob
    <3>2. TAKE w \in Workers
    <3>3. job[w].rec \in Record
      BY <3>1
    <3>4. QED
      BY <3>1, <3>3
  <2>4. saved' \in Seq(Record) \cup {Torn}
    BY <2>3 DEF Crash, Types
  <2>5. QED
    BY <2>1, <2>2, <2>4 DEF Crash, Types
<1>2. missed \subseteq missed' /\ (Unannounced => Clients \X {"mailbox"} \subseteq missed')
  BY DEF Crash, Unannounced
<1>3. \A c \in Clients : BoxInv(c)'
  <2> SUFFICES ASSUME NEW c \in Clients
               PROVE  BoxInv(c)'
    OBVIOUS
  <2>1. half'[c]["mailbox"] = None
    BY DEF Crash, Kinds
  <2>2. Unannounced => <<c, "mailbox">> \in missed'
    BY <1>2
  <2>3. UNCHANGED <<view, log, boxFile, rewound>>
    BY DEF Crash
  <2>4. QED
    BY <1>2, <2>1, <2>2, <2>3 DEF BoxInv, Missed
<1>4. \A c \in Clients : IdentityInv(c)'
  BY <1>2, IdentityFrame DEF Crash
<1>5. Unreplaced'
  BY DEF Crash, Unreplaced, Missed, Types
<1>6. QED
  BY <1>1, <1>3, <1>4, <1>5

\* A start names every client of a list or a log it finds otherwise than it stopped.
LEMMA StartIInv ==
    ASSUME IInv, NEW failing \in Failing, Start(failing)
    PROVE  IInv'
<1> USE DEF IInv
<1>1. Types'
  <2>1. log' \in Seq(Record)
    BY DEF Start, Types
  <2>2. QED
    BY <2>1 DEF Start, Types
<1>2. /\ missed \subseteq missed' /\ (log' = log => rewound \subseteq rewound')
      /\ boxFile' # boxFile => Clients \X {"mailbox"} \subseteq missed'
      /\ log' # log => Clients \subseteq rewound'
      /\ idList' # idList => Clients \X {"identity"} \subseteq missed'
  BY DEF Start
<1>3. \A c \in Clients : BoxInv(c)'
  <2> SUFFICES ASSUME NEW c \in Clients
               PROVE  BoxInv(c)'
    OBVIOUS
  <2>1. UNCHANGED <<view, half>> /\ Unannounced' = Unannounced /\ ~up /\ up'
    BY DEF Start, Unannounced
  <2>2. half'[c]["mailbox"] = None
    BY <2>1 DEF BoxInv
  <2>3. ~Missed(c, "mailbox")' => boxFile' = boxFile /\ log' = log /\ ~Missed(c, "mailbox")
    BY <1>2, <2>1 DEF Missed
  <2>4. QED
    BY <2>1, <2>2, <2>3 DEF BoxInv
<1>4. \A c \in Clients : IdentityInv(c)'
  <2> SUFFICES ASSUME NEW c \in Clients, ~Missed(c, "identity")'
               PROVE  IdentityInv(c)'
    BY DEF IdentityInv
  <2>1. idList' = idList /\ ~Missed(c, "identity") /\ ~up /\ idState' = 0 /\ view' = view
    BY <1>2 DEF Start, Missed
  <2>2. QED
    BY <2>1 DEF IdentityInv, Unreplaced
<1>5. Unreplaced'
  BY UnreplacedFrame DEF Start
<1>6. QED
  BY <1>1, <1>3, <1>4, <1>5

-----------------------------------------------------------------------------
LEMMA NextIInv ==
    ASSUME IInv, [Next]_vars
    PROVE  IInv'
<1>1. CASE Crash
  BY <1>1, CrashIInv
<1>2. CASE \E failing \in Failing : Start(failing)
  BY <1>2, StartIInv
<1>3. CASE \E w \in Workers : \/ \E q \in BoxRequests : SetRead(w, q)
                            \/ \E q \in IdentityRequests : IdentityRead(w, q)
  BY <1>3, MailboxesAssumption, SetReadIInv, IdentityReadIInv
<1>4. CASE \E w \in Workers : SetTruncate(w) \/ SetWrite(w) \/ SetFails(w)
                            \/ SetBump(w) \/ SetBumpUnsaved(w)
  BY <1>4, SetTruncateIInv, SetWriteIInv, SetFailsIInv, SetBumpIInv
<1>5. CASE \E w \in Workers : IdentityReplace(w) \/ IdentityFileFails(w)
  BY <1>5, ReplaceIInv DEF IdentityReplace, IdentityFileFails
<1>6. CASE \E c \in Clients : BoxState(c) \/ BoxList(c)
  BY <1>6, BoxStateIInv, BoxListIInv
<1>7. CASE \E c \in Clients : IdentityList(c) \/ IdentityState(c)
  BY <1>7, IdentityListIInv, IdentityStateIInv
<1>8. CASE OtherSave \/ OtherSaveFails
  BY <1>8, OtherSaveIInv
<1>9. CASE UNCHANGED vars
  <2>1. Unannounced' = Unannounced
    BY <1>9 DEF vars, Unannounced
  <2>2. Types' /\ Unreplaced'
    BY <1>9 DEF vars, lists, ghosts, IInv, Types, Unreplaced, Missed
  <2>3. QED
    BY <1>9, <2>1, <2>2, BoxFrame, IdentityFrame DEF vars, lists, ghosts, IInv
<1>10. QED
  BY <1>1, <1>2, <1>3, <1>4, <1>5, <1>6, <1>7, <1>8, <1>9 DEF Next

\* The inductive invariant of the lists and the clients that mirror them.
THEOREM MailboxesInvariant == Spec => []IInv
<1>1. Init => IInv
  BY InitIInv
<1>2. IInv /\ [Next]_vars => IInv'
  BY NextIInv
<1>3. QED
  BY <1>1, <1>2, PTL DEF Spec

(* A client that has the current state of a list has the current list,       *)
(* though Mailbox/get and Identity/get read the two one after the other, a   *)
(* set writes its file long before it announces itself and a start may have  *)
(* lost the log: where a client's list is one of the exceptions of           *)
(* ViewsAreCurrent, until its next get.                                      *)
THEOREM NoViewIsStale == Spec => []ViewsAreCurrent
<1>1. IInv => ViewsAreCurrent
  <2> SUFFICES ASSUME IInv, NEW c \in Clients, NEW k \in Kinds,
                      view[c][k].state = Current(k).state, ~Missed(c, k),
                      k = "mailbox" => ~Unannounced
               PROVE  view[c][k] = Current(k)
    BY DEF ViewsAreCurrent, HasCurrent, Missed
  <2>1. view[c][k] = [list |-> view[c][k].list, state |-> view[c][k].state]
    BY DEF IInv, Types, IsView
  <2>2. CASE k = "mailbox"
    BY <2>1, <2>2 DEF IInv, BoxInv, Current
  <2>3. CASE k = "identity"
    BY <2>1, <2>3 DEF IInv, IdentityInv, Current
  <2>4. QED
    BY <2>2, <2>3 DEF Kinds
<1>2. QED
  BY <1>1, MailboxesInvariant, PTL

-----------------------------------------------------------------------------
(* Recurrences.  A recursive definition is a choice among the functions that *)
(* fulfil its equation: there is one, and all agree.                         *)

\* There is a least number in every set of some.
LEMMA LeastNumber ==
    ASSUME NEW T, T \subseteq Nat, T # {}
    PROVE  \E d \in T : \A e \in T : d <= e
<1> DEFINE R == {ss \in Nat \X Nat : ss[1] < ss[2]}
<1>1. IsWellFoundedOn(R, Nat)
  BY NatLessThanWellFounded DEF OpToRel
<1>2. \A d, e \in Nat : <<e, d>> \notin R => d <= e
  OBVIOUS
<1> HIDE DEF R
<1>3. \E d \in T : \A e \in T : <<e, d>> \notin R
  BY <1>1, WFMin
<1>4. QED
  BY <1>2, <1>3

\* Functions that agree at s and go on alike from there agree up to t.
LEMMA SameRecurrence ==
    \A s, t \in Nat : \A f, g :
        /\ f[s] = g[s]
        /\ \A v \in s + 1 .. t : f[v - 1] = g[v - 1] => f[v] = g[v]
        => \A v \in s .. t : f[v] = g[v]
<1> TAKE s, t \in Nat
<1> TAKE f, g
<1> HAVE /\ f[s] = g[s]
         /\ \A v \in s + 1 .. t : f[v - 1] = g[v - 1] => f[v] = g[v]
<1> DEFINE T == {v \in s .. t : f[v] # g[v]}
<1>1. SUFFICES ASSUME T # {} PROVE FALSE
  OBVIOUS
<1>2. PICK v \in T : \A e \in T : v <= e
  <2>1. T \subseteq Nat
    OBVIOUS
  <2> HIDE DEF T
  <2>2. QED
    BY <1>1, <2>1, LeastNumber
<1>3. v \in s .. t /\ f[v] # g[v]
  BY <1>2
<1>4. v \in s + 1 .. t
  BY <1>3
<1>5. v - 1 \in s .. t /\ v - 1 \notin T
  <2>1. v \in Nat /\ v - 1 \in s .. t /\ ~ (v <= v - 1)
    BY <1>4
  <2>2. QED
    BY <1>2, <2>1
<1>6. f[v - 1] = g[v - 1]
  BY <1>5
<1>7. QED
  BY <1>3, <1>4, <1>6

\* What takes one value of S to the next, from s on up to t, and a function that follows it.
Steps(S, s, t) == [s + 1 .. t -> [S -> S]]
Solvable(S, start, s, t, step) ==
    \E f \in [s .. t -> S] : f[s] = start /\ \A v \in s + 1 .. t : f[v] = step[v][f[v - 1]]

\* A recurrence over values of S, one step after another, has a solution.
LEMMA RecurrenceExists ==
    \A S : \A start \in S : \A s, t \in Nat : \A step \in Steps(S, s, t) :
        s <= t => Solvable(S, start, s, t, step)
<1> USE DEF Steps, Solvable
<1> TAKE S
<1> TAKE start \in S
<1> TAKE s, t \in Nat
<1> TAKE step \in Steps(S, s, t)
<1> HAVE s <= t
<1> DEFINE Solves(f, n) == /\ f \in [s .. n -> S] /\ f[s] = start
                           /\ \A v \in s + 1 .. n : f[v] = step[v][f[v - 1]]
           T == {n \in s .. t : \A f : ~ Solves(f, n)}
<1>1. SUFFICES ASSUME T # {} PROVE FALSE
  <2>1. t \in s .. t
    OBVIOUS
  <2>2. T = {} => \E f : Solves(f, t)
    BY <2>1
  <2>3. QED
    BY <1>1, <2>2
<1>2. PICK n \in T : \A e \in T : n <= e
  <2>1. T \subseteq Nat
    OBVIOUS
  <2> HIDE DEF T
  <2>2. QED
    BY <1>1, <2>1, LeastNumber
<1>3. n \in s .. t /\ n \in Nat /\ \A f : ~ Solves(f, n)
  BY <1>2
<1>4. n # s
  <2>1. Solves([v \in s .. s |-> start], s)
    OBVIOUS
  <2> HIDE DEF Solves
  <2>2. QED
    BY <1>3, <2>1
<1>5. n - 1 \in s .. t /\ n \in s + 1 .. t /\ n - 1 \notin T
  <2>1. n - 1 \in s .. t /\ n \in s + 1 .. t /\ ~ (n <= n - 1)
    BY <1>3, <1>4
  <2>2. QED
    BY <1>2, <2>1
<1>6. PICK f : Solves(f, n - 1)
  BY <1>5
<1> DEFINE g == [v \in s .. n |-> IF v = n THEN step[n][f[n - 1]] ELSE f[v]]
<1>7. Solves(g, n)
  <2>1. step[n][f[n - 1]] \in S
    BY <1>5, <1>6
  <2>2. \A v \in s .. n : v # n => v \in s .. n - 1
    BY <1>3
  <2>3. g \in [s .. n -> S]
    BY <1>6, <2>1, <2>2
  <2>4. g[s] = start
    BY <1>3, <1>4, <1>6
  <2>5. ASSUME NEW v \in s + 1 .. n PROVE g[v] = step[v][g[v - 1]]
    <3>1. v - 1 \in s .. n /\ v - 1 # n /\ v \in s .. n
      BY <1>3, <2>5
    <3>2. g[v - 1] = f[v - 1]
      BY <3>1
    <3>3. CASE v = n
      BY <3>1, <3>2, <3>3
    <3>4. CASE v # n
      <4>1. v \in s + 1 .. n - 1 /\ g[v] = f[v]
        BY <1>3, <2>5, <3>1, <3>4
      <4>2. QED
        BY <1>6, <3>2, <4>1
    <3>5. QED
      BY <3>3, <3>4
  <2>6. QED
    BY <2>3, <2>4, <2>5
<1>8. QED
  BY <1>3, <1>7

-----------------------------------------------------------------------------
(* The two folds over the log, one record longer.                            *)

QRecord == [added : SUBSET Ids, removed : SUBSET Ids]

\* f is the loop of a fold over records from since on, with the step of the method.
ChangesRun(records, since, f) ==
    /\ f[since] = Idle.rec
    /\ \A v \in since + 1 .. Len(records) : f[v] = Folded(f[v - 1], records[v])
QueryRun(records, since, f) ==
    /\ f[since] = [added |-> {}, removed |-> {}]
    /\ \A v \in since + 1 .. Len(records) : f[v] = QueryFolded(f[v - 1], records[v])

LEMMA FoldedTyped ==
    ASSUME NEW rec \in Record
    PROVE  /\ \A net \in Record : Folded(net, rec) \in Record
           /\ \A net \in QRecord : QueryFolded(net, rec) \in QRecord
<1>1. ASSUME NEW net \in Record PROVE Folded(net, rec) \in Record
  BY DEF Folded, Record
<1>2. ASSUME NEW net \in QRecord PROVE QueryFolded(net, rec) \in QRecord
  BY DEF QueryFolded, QRecord, Record
<1>3. QED
  BY <1>1, <1>2

LEMMA ChangesRuns ==
    ASSUME NEW records \in Seq(Record), NEW since \in 0 .. Len(records)
    PROVE  \E f : /\ ChangesRun(records, since, f)
                  /\ f[Len(records)] \in Record
                  /\ ChangesSince(records, since) = f[Len(records)]
<1> DEFINE t == Len(records)
           step == [v \in since + 1 .. t |-> [net \in Record |-> Folded(net, records[v])]]
           Loop(f) == [v \in since .. t |->
                           IF v = since THEN Idle.rec ELSE Folded(f[v - 1], records[v])]
           net == CHOOSE f : f = Loop(f)
<1>1. t \in Nat /\ since \in Nat /\ since <= t /\ Idle.rec \in Record
  BY DEF Idle, Record
<1>2. \A v \in since + 1 .. t : records[v] \in Record
  BY <1>1
<1>3. step \in [since + 1 .. t -> [Record -> Record]]
  BY <1>2, FoldedTyped
<1>4. PICK f \in [since .. t -> Record] :
          f[since] = Idle.rec /\ \A v \in since + 1 .. t : f[v] = step[v][f[v - 1]]
  <2> HIDE DEF step, t
  <2>1. step \in Steps(Record, since, t)
    BY <1>3 DEF Steps
  <2>2. Solvable(Record, Idle.rec, since, t, step)
    BY <1>1, <2>1, RecurrenceExists, Zenon
  <2>3. QED
    BY <2>2, Zenon DEF Solvable
<1>5. \A v \in since + 1 .. t : f[v] = Folded(f[v - 1], records[v])
  <2>1. TAKE v \in since + 1 .. t
  <2>2. v - 1 \in since .. t
    BY <1>1
  <2>3. f[v - 1] \in Record /\ f[v] = step[v][f[v - 1]]
    BY <1>4, <2>2
  <2>4. QED
    BY <2>3
<1>6. f = Loop(f)
  <2>1. \A v \in since .. t : v # since => v \in since + 1 .. t
    BY <1>1
  <2>2. \A v \in since .. t : f[v] = IF v = since THEN Idle.rec ELSE Folded(f[v - 1], records[v])
    BY <1>4, <1>5, <2>1
  <2>3. QED
    BY <2>2
<1>7. net = Loop(net)
  <2> HIDE DEF Loop
  <2>1. QED
    BY <1>6
<1>8. ChangesSince(records, since) = net[t]
  BY DEF ChangesSince
<1> HIDE DEF net
<1>9. net[since] = Idle.rec
  BY <1>1, <1>7
<1>10. \A v \in since + 1 .. t : net[v] = Folded(net[v - 1], records[v])
  <2>1. \A v \in since + 1 .. t : v \in since .. t /\ v # since
    BY <1>1
  <2>2. QED
    BY <1>7, <2>1
<1> HIDE DEF t
<1>11. \A v \in since .. t : net[v] = f[v]
  <2>1. \A g, h : (/\ g[since] = h[since]
                   /\ \A v \in since + 1 .. t : g[v - 1] = h[v - 1] => g[v] = h[v])
                  => \A v \in since .. t : g[v] = h[v]
    BY <1>1, SameRecurrence, Zenon
  <2>2. net[since] = f[since]
    BY <1>4, <1>9
  <2>3. \A v \in since + 1 .. t : net[v - 1] = f[v - 1] => net[v] = f[v]
    BY <1>5, <1>10
  <2>4. QED
    BY <2>1, <2>2, <2>3, Zenon
<1>12. f[t] \in Record /\ net[t] = f[t]
  BY <1>1, <1>4, <1>11
<1>13. QED
  BY <1>8, <1>9, <1>10, <1>12 DEF ChangesRun, t

LEMMA QueryRuns ==
    ASSUME NEW records \in Seq(Record), NEW since \in 0 .. Len(records)
    PROVE  \E f : /\ QueryRun(records, since, f)
                  /\ f[Len(records)] \in QRecord
                  /\ QueryChangesSince(records, since) = f[Len(records)]
<1> DEFINE t == Len(records)
           none == [added |-> {}, removed |-> {}]
           step == [v \in since + 1 .. t |-> [net \in QRecord |-> QueryFolded(net, records[v])]]
           Loop(f) == [v \in since .. t |->
                           IF v = since THEN none ELSE QueryFolded(f[v - 1], records[v])]
           net == CHOOSE f : f = Loop(f)
<1>1. t \in Nat /\ since \in Nat /\ since <= t /\ none \in QRecord
  BY DEF QRecord
<1>2. \A v \in since + 1 .. t : records[v] \in Record
  BY <1>1
<1>3. step \in [since + 1 .. t -> [QRecord -> QRecord]]
  BY <1>2, FoldedTyped
<1>4. PICK f \in [since .. t -> QRecord] :
          f[since] = none /\ \A v \in since + 1 .. t : f[v] = step[v][f[v - 1]]
  <2> HIDE DEF step, t, none
  <2>1. step \in Steps(QRecord, since, t)
    BY <1>3 DEF Steps
  <2>2. Solvable(QRecord, none, since, t, step)
    BY <1>1, <2>1, RecurrenceExists, Zenon
  <2>3. QED
    BY <2>2, Zenon DEF Solvable
<1>5. \A v \in since + 1 .. t : f[v] = QueryFolded(f[v - 1], records[v])
  <2>1. TAKE v \in since + 1 .. t
  <2>2. v - 1 \in since .. t
    BY <1>1
  <2>3. f[v - 1] \in QRecord /\ f[v] = step[v][f[v - 1]]
    BY <1>4, <2>2
  <2>4. QED
    BY <2>3
<1>6. f = Loop(f)
  <2>1. \A v \in since .. t : v # since => v \in since + 1 .. t
    BY <1>1
  <2>2. \A v \in since .. t : f[v] = IF v = since THEN none ELSE QueryFolded(f[v - 1], records[v])
    BY <1>4, <1>5, <2>1
  <2>3. QED
    BY <2>2
<1>7. net = Loop(net)
  <2> HIDE DEF Loop
  <2>1. QED
    BY <1>6
<1>8. QueryChangesSince(records, since) = net[t]
  BY DEF QueryChangesSince
<1> HIDE DEF net
<1>9. net[since] = none
  BY <1>1, <1>7
<1>10. \A v \in since + 1 .. t : net[v] = QueryFolded(net[v - 1], records[v])
  <2>1. \A v \in since + 1 .. t : v \in since .. t /\ v # since
    BY <1>1
  <2>2. QED
    BY <1>7, <2>1
<1> HIDE DEF t
<1>11. \A v \in since .. t : net[v] = f[v]
  <2>1. \A g, h : (/\ g[since] = h[since]
                   /\ \A v \in since + 1 .. t : g[v - 1] = h[v - 1] => g[v] = h[v])
                  => \A v \in since .. t : g[v] = h[v]
    BY <1>1, SameRecurrence, Zenon
  <2>2. net[since] = f[since]
    BY <1>4, <1>9
  <2>3. \A v \in since + 1 .. t : net[v - 1] = f[v - 1] => net[v] = f[v]
    BY <1>5, <1>10
  <2>4. QED
    BY <2>1, <2>2, <2>3, Zenon
<1>12. f[t] \in QRecord /\ net[t] = f[t]
  BY <1>1, <1>4, <1>11
<1>13. QED
  BY <1>8, <1>9, <1>10, <1>12 DEF QueryRun, t

LEMMA FoldEmpty ==
    ASSUME NEW records \in Seq(Record)
    PROVE  /\ ChangesSince(records, Len(records)) = Idle.rec
           /\ QueryChangesSince(records, Len(records)) = [added |-> {}, removed |-> {}]
<1>1. Len(records) \in 0 .. Len(records)
  OBVIOUS
<1>2. QED
  BY <1>1, ChangesRuns, QueryRuns DEF ChangesRun, QueryRun

LEMMA FoldAppend ==
    ASSUME NEW records \in Seq(Record), NEW since \in 0 .. Len(records), NEW rec \in Record
    PROVE  /\ ChangesSince(Append(records, rec), since)
                  = Folded(ChangesSince(records, since), rec)
           /\ QueryChangesSince(Append(records, rec), since)
                  = QueryFolded(QueryChangesSince(records, since), rec)
<1> DEFINE longer == Append(records, rec)
           t      == Len(records)
<1>1. /\ t \in Nat /\ longer \in Seq(Record) /\ Len(longer) = t + 1 /\ since \in 0 .. Len(longer)
      /\ longer[t + 1] = rec /\ \A v \in since + 1 .. t : longer[v] = records[v]
      /\ since \in Nat /\ since <= t
  OBVIOUS
<1> HIDE DEF longer
<1>2. PICK f : ChangesRun(records, since, f) /\ ChangesSince(records, since) = f[t]
  BY ChangesRuns
<1>3. PICK g : ChangesRun(longer, since, g) /\ ChangesSince(longer, since) = g[t + 1]
  BY <1>1, ChangesRuns
<1>4. PICK h : QueryRun(records, since, h) /\ QueryChangesSince(records, since) = h[t]
  BY QueryRuns
<1>5. PICK k : QueryRun(longer, since, k) /\ QueryChangesSince(longer, since) = k[t + 1]
  BY <1>1, QueryRuns
<1> HIDE DEF t
<1>6. f[t] = g[t]
  <2>1. f[since] = g[since] /\ \A v \in since + 1 .. t : f[v - 1] = g[v - 1] => f[v] = g[v]
    BY <1>1, <1>2, <1>3 DEF ChangesRun, t
  <2>2. \A a, b : (/\ a[since] = b[since]
                   /\ \A v \in since + 1 .. t : a[v - 1] = b[v - 1] => a[v] = b[v])
                  => \A v \in since .. t : a[v] = b[v]
    BY <1>1, SameRecurrence, Zenon
  <2>3. t \in since .. t
    BY <1>1
  <2>4. QED
    BY <2>1, <2>2, <2>3, Zenon
<1>7. h[t] = k[t]
  <2>1. h[since] = k[since] /\ \A v \in since + 1 .. t : h[v - 1] = k[v - 1] => h[v] = k[v]
    BY <1>1, <1>4, <1>5 DEF QueryRun, t
  <2>2. \A a, b : (/\ a[since] = b[since]
                   /\ \A v \in since + 1 .. t : a[v - 1] = b[v - 1] => a[v] = b[v])
                  => \A v \in since .. t : a[v] = b[v]
    BY <1>1, SameRecurrence, Zenon
  <2>3. t \in since .. t
    BY <1>1
  <2>4. QED
    BY <2>1, <2>2, <2>3, Zenon
<1>8. t + 1 \in since + 1 .. Len(longer) /\ (t + 1) - 1 = t
  BY <1>1
<1>9. g[t + 1] = Folded(g[t], rec) /\ k[t + 1] = QueryFolded(k[t], rec)
  BY <1>1, <1>3, <1>5, <1>8 DEF ChangesRun, QueryRun
<1>10. QED
  BY <1>2, <1>3, <1>4, <1>5, <1>6, <1>7, <1>9 DEF longer

-----------------------------------------------------------------------------
(* The list after a request.  What matters of a list is what stands in it.   *)

Held(list) == {list[i] : i \in DOMAIN list}

LEMMA HeldTells ==
    ASSUME NEW list
    PROVE  /\ IdsOf(list) = {e.id : e \in Held(list)}
           /\ \A id : Named(list, id) = {e.name : e \in {x \in Held(list) : x.id = id}}
<1>1. IdsOf(list) = {e.id : e \in Held(list)}
  BY DEF IdsOf, Held
<1>2. ASSUME NEW id PROVE Named(list, id) = {e.name : e \in {x \in Held(list) : x.id = id}}
  BY DEF Named, Held
<1>3. QED
  BY <1>1, <1>2

LEMMA HeldAppend ==
    ASSUME NEW list \in Seq(Entry), NEW e \in Entry
    PROVE  Append(list, e) \in Seq(Entry) /\ Held(Append(list, e)) = Held(list) \cup {e}
<1> DEFINE longer == Append(list, e)
<1>1. /\ longer \in Seq(Entry) /\ Len(list) \in Nat /\ DOMAIN list = 1 .. Len(list)
      /\ DOMAIN longer = 1 .. Len(list) + 1 /\ longer[Len(list) + 1] = e
      /\ \A i \in 1 .. Len(list) : longer[i] = list[i]
  OBVIOUS
<1> HIDE DEF longer
<1>2. \A i \in 1 .. Len(list) + 1 : i \in 1 .. Len(list) \/ i = Len(list) + 1
  BY <1>1
<1>3. 1 .. Len(list) \subseteq 1 .. Len(list) + 1 /\ Len(list) + 1 \in 1 .. Len(list) + 1
  BY <1>1
<1>4. Held(longer) = Held(list) \cup {e}
  BY <1>1, <1>2, <1>3 DEF Held
<1>5. QED
  BY <1>1, <1>4 DEF longer

\* retain keeps what has another id.
LEMMA HeldKept ==
    ASSUME NEW list \in Seq(Entry), NEW id
    PROVE  /\ Kept(list, id) \in Seq(Entry)
           /\ Held(Kept(list, id)) = {e \in Held(list) : id # None => e.id # id}
<1> DEFINE t == Len(list)
           keep(n, k) == IF list[n].id = id THEN k ELSE Append(k, list[n])
           step == [n \in 0 + 1 .. t |-> [k \in Seq(Entry) |-> keep(n, k)]]
           Loop(f) == [n \in 0 .. t |->
                           IF n = 0 THEN <<>>
                           ELSE IF list[n].id = id THEN f[n - 1] ELSE Append(f[n - 1], list[n])]
           kept == CHOOSE f : f = Loop(f)
<1>1. t \in Nat /\ 0 <= t /\ <<>> \in Seq(Entry) /\ \A n \in 0 + 1 .. t : list[n] \in Entry
  OBVIOUS
<1>2. \A n \in 0 + 1 .. t, k \in Seq(Entry) : keep(n, k) \in Seq(Entry)
  BY <1>1, HeldAppend
<1>3. step \in Steps(Seq(Entry), 0, t)
  <2> HIDE DEF t, keep
  <2>1. QED
    BY <1>2 DEF Steps
<1>4. Solvable(Seq(Entry), <<>>, 0, t, step)
  <2> HIDE DEF step, t
  <2>1. \A s \in Nat : \A x \in Steps(Seq(Entry), 0, s) : 0 <= s => Solvable(Seq(Entry), <<>>, 0, s, x)
    BY <1>1, RecurrenceExists
  <2>2. QED
    BY <1>1, <1>3, <2>1
<1>5. PICK f \in [0 .. t -> Seq(Entry)] :
          f[0] = <<>> /\ \A n \in 0 + 1 .. t : f[n] = step[n][f[n - 1]]
  <2> HIDE DEF step, t
  <2>1. QED
    BY <1>4, Zenon DEF Solvable
<1>6. \A n \in 0 + 1 .. t : f[n - 1] \in Seq(Entry) /\ f[n] = keep(n, f[n - 1])
  <2>1. TAKE n \in 0 + 1 .. t
  <2>2. n - 1 \in 0 .. t
    BY <1>1
  <2>3. f[n - 1] \in Seq(Entry) /\ f[n] = step[n][f[n - 1]]
    BY <1>5, <2>2
  <2> HIDE DEF t, keep
  <2>4. QED
    BY <2>3
<1>7. f = Loop(f)
  <2>1. \A n \in 0 .. t : n # 0 => n \in 0 + 1 .. t
    BY <1>1
  <2>2. \A n \in 0 .. t : f[n] = IF n = 0 THEN <<>> ELSE keep(n, f[n - 1])
    BY <1>5, <1>6, <2>1
  <2> HIDE DEF t
  <2>3. QED
    BY <2>2
<1>8. kept = Loop(kept)
  <2> HIDE DEF Loop
  <2>1. QED
    BY <1>7
<1>9. Kept(list, id) = IF id = None THEN list ELSE kept[t]
  BY DEF Kept
<1> HIDE DEF kept
<1>10. kept[t] = f[t]
  <2>1. kept[0] = f[0]
    BY <1>1, <1>5, <1>8
  <2>2. \A n \in 0 + 1 .. t : n \in 0 .. t /\ n # 0
    BY <1>1
  <2>3. \A n \in 0 + 1 .. t : kept[n] = keep(n, kept[n - 1])
    BY <1>8, <2>2
  <2>4. \A n \in 0 + 1 .. t : kept[n - 1] = f[n - 1] => kept[n] = f[n]
    BY <1>6, <2>3
  <2> HIDE DEF t, Loop, keep
  <2>5. \A a, b : (/\ a[0] = b[0]
                   /\ \A v \in 0 + 1 .. t : a[v - 1] = b[v - 1] => a[v] = b[v])
                  => \A v \in 0 .. t : a[v] = b[v]
    <3>1. 0 \in Nat
      OBVIOUS
    <3>2. QED
      BY <1>1, <3>1, SameRecurrence, Zenon
  <2>6. t \in 0 .. t
    BY <1>1
  <2>7. QED
    BY <2>1, <2>4, <2>5, <2>6, Zenon
<1> DEFINE Good(n) == Held(f[n]) = {e \in {list[i] : i \in 1 .. n} : e.id # id}
<1>11. Good(0)
  BY <1>1, <1>5 DEF Held
<1>12. ASSUME NEW n \in 0 + 1 .. t, Good(n - 1) PROVE Good(n)
  <2>1. n \in Nat /\ 1 .. n = 1 .. (n - 1) \cup {n}
    BY <1>1
  <2>2. {list[i] : i \in 1 .. n} = {list[i] : i \in 1 .. (n - 1)} \cup {list[n]}
    BY <2>1
  <2>3. CASE list[n].id = id
    BY <1>6, <1>12, <2>2, <2>3
  <2>4. CASE list[n].id # id
    <3>1. f[n] = Append(f[n - 1], list[n]) /\ f[n - 1] \in Seq(Entry) /\ list[n] \in Entry
      BY <1>1, <1>6, <2>4
    <3>2. Held(f[n]) = Held(f[n - 1]) \cup {list[n]}
      BY <3>1, HeldAppend
    <3>3. QED
      BY <1>12, <2>2, <2>4, <3>2
  <2>5. QED
    BY <2>3, <2>4
<1>13. Good(t)
  <2> DEFINE T == {n \in 0 .. t : ~ Good(n)}
  <2> HIDE DEF Good
  <2>1. SUFFICES ASSUME T # {} PROVE FALSE
    BY <1>1
  <2>2. PICK n \in T : \A e \in T : n <= e
    <3>1. T \subseteq Nat
      BY <1>1
    <3> HIDE DEF T
    <3>2. QED
      BY <2>1, <3>1, LeastNumber
  <2>3. n \in 0 .. t /\ ~ Good(n) /\ n # 0
    BY <1>11, <2>2
  <2>4. n \in 0 + 1 .. t /\ n - 1 \in 0 .. t /\ ~ (n <= n - 1)
    BY <1>1, <2>3
  <2>5. Good(n - 1)
    BY <2>2, <2>4
  <2>6. QED
    BY <1>12, <2>3, <2>4, <2>5
<1>14. {list[i] : i \in 1 .. t} = Held(list)
  BY DEF Held
<1>15. f[t] \in Seq(Entry)
  <2>1. t \in 0 .. t
    BY <1>1
  <2> HIDE DEF t
  <2>2. QED
    BY <1>5, <2>1
<1> HIDE DEF t, Loop, step
<1>16. CASE id = None
  BY <1>9, <1>16 DEF Held
<1>17. CASE id # None
  BY <1>9, <1>10, <1>13, <1>14, <1>15, <1>17
<1>18. QED
  BY <1>16, <1>17

\* A rename gives a name to one entry of its id and leaves the others.
LEMMA RenameNames ==
    ASSUME NEW list \in Seq(Entry), NEW e \in Entry \cup {None}
    PROVE  /\ Renamed(list, e) \in Seq(Entry)
           /\ IdsOf(Renamed(list, e)) = IdsOf(list)
           /\ \A id : Named(Renamed(list, e), id) # Named(list, id)
                          => e # None /\ id = e.id /\ id \in IdsOf(list)
<1>1. CASE e = None \/ e.id \notin IdsOf(list)
  BY <1>1 DEF Renamed
<1>2. CASE ~ (e = None \/ e.id \notin IdsOf(list))
  <2> DEFINE First(i) == list[i].id = e.id /\ \A j \in 1 .. (i - 1) : list[j].id # e.id
             T        == {j \in DOMAIN list : list[j].id = e.id}
             at       == CHOOSE i \in DOMAIN list : First(i)
             new      == [list EXCEPT ![at].name = e.name]
  <2>1. Renamed(list, e) = new
    BY <1>2 DEF Renamed
  <2>2. Len(list) \in Nat /\ DOMAIN list = 1 .. Len(list) /\ e \in Entry
    BY <1>2
  <2>3. PICK i \in T : \A j \in T : i <= j
    <3>1. T # {} /\ T \subseteq Nat
      BY <1>2, <2>2 DEF IdsOf
    <3> HIDE DEF T
    <3>2. QED
      BY <3>1, LeastNumber
  <2>4. First(i) /\ i \in DOMAIN list
    <3>1. \A j \in 1 .. (i - 1) : j \in DOMAIN list /\ ~ (i <= j)
      BY <2>2, <2>3
    <3>2. QED
      BY <2>3, <3>1
  <2>5. at \in DOMAIN list /\ First(at)
    <3> HIDE DEF First
    <3>1. QED
      BY <2>4
  <2>6. list[at].id = e.id
    BY <2>5
  <2> HIDE DEF at, First, T
  <2>7. /\ list[at] \in Entry /\ [list[at] EXCEPT !.name = e.name] \in Entry
        /\ [list[at] EXCEPT !.name = e.name].id = e.id
    <3>1. list[at] \in Entry
      BY <2>2, <2>5
    <3> DEFINE x == list[at]
    <3>2. x.id \in Ids /\ x = [id |-> x.id, name |-> x.name] /\ e.name \in Names
      BY <2>2, <3>1 DEF Entry
    <3> HIDE DEF x
    <3>3. [x EXCEPT !.name = e.name] = [id |-> x.id, name |-> e.name]
      BY <3>2
    <3>4. QED
      BY <2>6, <3>1, <3>2, <3>3 DEF Entry, x
  <2>8. /\ new \in Seq(Entry) /\ DOMAIN new = DOMAIN list
        /\ \A j \in DOMAIN list : new[j] = IF j = at THEN [list[at] EXCEPT !.name = e.name] ELSE list[j]
    BY <2>2, <2>5, <2>7
  <2> HIDE DEF new
  <2>9. \A j \in DOMAIN list : new[j].id = list[j].id
    BY <2>6, <2>7, <2>8
  <2>10. IdsOf(new) = IdsOf(list)
    BY <2>8, <2>9 DEF IdsOf
  <2>11. ASSUME NEW id, id # e.id PROVE Named(new, id) = Named(list, id)
    <3>1. \A j \in DOMAIN list : list[j].id = id => new[j] = list[j]
      BY <2>6, <2>8, <2>11
    <3>2. {j \in DOMAIN new : new[j].id = id} = {j \in DOMAIN list : list[j].id = id}
      BY <2>8, <2>9
    <3>3. QED
      BY <3>1, <3>2 DEF Named
  <2>12. QED
    BY <1>2, <2>1, <2>8, <2>10, <2>11
<1>3. QED
  BY <1>1, <1>2

\* A request takes list to next as rec says.
Effect(list, next, rec) ==
    /\ IdsOf(next) = (IdsOf(list) \cup rec.created) \ rec.destroyed
    /\ \A id \in IdsOf(list) \cap IdsOf(next) :
           Named(list, id) # Named(next, id) => id \in rec.created \cup rec.updated

LEMMA RequestEffect ==
    ASSUME NEW list \in Seq(Entry), NEW q \in Requests
    PROVE  Applied(list, q) \in Seq(Entry) /\ Effect(list, Applied(list, q), RecordOf(list, q))
<1> DEFINE made == Created(list, q)
           set  == Renamed(made, q.rename)
           next == Kept(set, q.destroy)
           rec  == RecordOf(list, q)
<1>1. q.create \in Entry \cup {None} /\ q.rename \in Entry \cup {None}
  BY DEF Requests
<1>2. made \in Seq(Entry) /\ Held(made) = Held(list) \cup (IF q.create = None THEN {} ELSE {q.create})
  BY <1>1, HeldAppend DEF Created
<1>3. /\ IdsOf(made) = IdsOf(list) \cup rec.created
      /\ \A id : id \notin rec.created => Named(made, id) = Named(list, id)
  <2>1. rec.created = IF q.create = None THEN {} ELSE {q.create.id}
    BY DEF RecordOf
  <2> HIDE DEF made, rec
  <2>2. IdsOf(made) = IdsOf(list) \cup rec.created
    BY <1>2, <2>1, HeldTells
  <2>3. ASSUME NEW id, id \notin rec.created PROVE Named(made, id) = Named(list, id)
    <3>1. {x \in Held(made) : x.id = id} = {x \in Held(list) : x.id = id}
      BY <1>2, <2>1, <2>3
    <3>2. QED
      BY <3>1, HeldTells
  <2>4. QED
    BY <2>2, <2>3
<1>4. /\ set \in Seq(Entry) /\ IdsOf(set) = IdsOf(made)
      /\ \A id : Named(set, id) # Named(made, id) => id \in rec.updated
  <2>1. rec.updated = IF q.rename = None THEN {} ELSE {q.rename.id} \cap IdsOf(made)
    BY DEF RecordOf
  <2> HIDE DEF made, rec
  <2>2. QED
    <3>1. /\ set \in Seq(Entry) /\ IdsOf(set) = IdsOf(made)
          /\ \A id : Named(set, id) # Named(made, id)
                         => q.rename # None /\ id = q.rename.id /\ id \in IdsOf(made)
      BY <1>1, <1>2, RenameNames
    <3> HIDE DEF set
    <3>2. QED
      BY <2>1, <3>1
<1>5. /\ next \in Seq(Entry)
      /\ IdsOf(next) = IdsOf(set) \ rec.destroyed
      /\ \A id \in IdsOf(next) : Named(next, id) = Named(set, id)
  <2>1. rec.destroyed = IF q.destroy = None THEN {} ELSE {q.destroy} \cap IdsOf(made)
    BY DEF RecordOf
  <2> HIDE DEF made, rec, set
  <2>2. next \in Seq(Entry) /\ Held(next) = {e \in Held(set) : q.destroy # None => e.id # q.destroy}
    BY <1>4, HeldKept
  <2> HIDE DEF next
  <2>3. IdsOf(next) = {id \in IdsOf(set) : q.destroy # None => id # q.destroy}
    BY <2>2, HeldTells
  <2>4. IdsOf(next) = IdsOf(set) \ rec.destroyed
    BY <1>4, <2>1, <2>3
  <2>5. ASSUME NEW id \in IdsOf(next) PROVE Named(next, id) = Named(set, id)
    <3>1. q.destroy # None => id # q.destroy
      BY <2>3
    <3>2. {x \in Held(next) : x.id = id} = {x \in Held(set) : x.id = id}
      BY <2>2, <3>1
    <3>3. QED
      BY <3>2, HeldTells
  <2>6. QED
    BY <2>2, <2>4, <2>5
<1>6. Applied(list, q) = next
  BY DEF Applied
<1> HIDE DEF made, set, next, rec
<1>7. IdsOf(next) = (IdsOf(list) \cup rec.created) \ rec.destroyed
  BY <1>3, <1>4, <1>5
<1>8. \A id \in IdsOf(list) \cap IdsOf(next) :
          Named(list, id) # Named(next, id) => id \in rec.created \cup rec.updated
  BY <1>3, <1>4, <1>5
<1>9. QED
  BY <1>5, <1>6, <1>7, <1>8 DEF Effect, rec

-----------------------------------------------------------------------------
(* The log explains the list.  A Mailbox/set past its truncation is taken    *)
(* for done: its record for the last one of the log, its list for the list.  *)

Replay(since, records, list, mine) ==
    LET net  == ChangesSince(records, since)
        qnet == QueryChangesSince(records, since)
    IN  /\ (IdsOf(mine) \cup net.created) \ net.destroyed = IdsOf(list)
        /\ (IdsOf(mine) \cup qnet.added) \ qnet.removed = IdsOf(list)
        /\ \A id \in IdsOf(mine) \cap IdsOf(list) :
               Named(mine, id) # Named(list, id) => id \in net.created \cup net.updated

\* A client the log explains nothing to, before its next get.
Gone(c) == Missed(c, "mailbox") \/ c \in strayed

\* Every client's list can be brought to this one, and replaying any part of the log since
\* its base on this one again changes nothing: a get may read the state long before the list.
Explained(records, list) ==
    /\ \A since \in base .. Len(records) : Replay(since, records, list, list)
    /\ \A c \in Clients : ~Gone(c) =>
           Replay(view[c]["mailbox"].state, records, list, view[c]["mailbox"].list)

ListsTyped ==
    /\ boxFile \in Seq(Entry) \cup {Torn}
    /\ \A w \in Workers : InSet(w) => job[w].next \in Seq(Entry)
    /\ tangled \in BOOLEAN /\ base \in Nat /\ base <= Len(log)
    /\ ~up => \A w \in Workers : ~InSet(w)

LogInv ==
    /\ tangled => \A c \in Clients : Gone(c)
    /\ ~tangled =>
        /\ \A v, w \in Workers : InSet(v) /\ InSet(w) => v = w
        /\ ~Unannounced => Explained(log, Read(boxFile))
        /\ \A w \in Workers :
               /\ job[w].pc = "truncate" => Effect(Read(boxFile), job[w].next, job[w].rec)
               /\ job[w].pc \in {"write", "bump"} => Explained(Append(log, job[w].rec), job[w].next)
               /\ job[w].pc = "write" => boxFile = Torn
               /\ job[w].pc = "bump" => boxFile = job[w].next

LEMMA ReplayAppend ==
    ASSUME NEW records \in Seq(Record), NEW rec \in Record, NEW since \in 0 .. Len(records),
           NEW list, NEW next, NEW mine, Effect(list, next, rec), Replay(since, records, list, mine)
    PROVE  Replay(since, Append(records, rec), next, mine)
<1> DEFINE net   == ChangesSince(records, since)
           qnet  == QueryChangesSince(records, since)
           net2  == ChangesSince(Append(records, rec), since)
           qnet2 == QueryChangesSince(Append(records, rec), since)
<1>1. /\ net2.created = (net.created \cup rec.created) \ rec.destroyed
      /\ net2.updated = (net.updated \cup (rec.updated \ (net.created \cup rec.created))) \ rec.destroyed
      /\ net2.destroyed = (net.destroyed \ rec.created) \cup rec.destroyed
      /\ qnet2.added = (qnet.added \cup rec.created) \ rec.destroyed
      /\ qnet2.removed = (qnet.removed \ rec.created) \cup rec.destroyed
  BY FoldAppend DEF Folded, QueryFolded
<1>2. /\ (IdsOf(mine) \cup net.created) \ net.destroyed = IdsOf(list)
      /\ (IdsOf(mine) \cup qnet.added) \ qnet.removed = IdsOf(list)
      /\ \A id \in IdsOf(mine) \cap IdsOf(list) :
             Named(mine, id) # Named(list, id) => id \in net.created \cup net.updated
  BY DEF Replay
<1>3. /\ IdsOf(next) = (IdsOf(list) \cup rec.created) \ rec.destroyed
      /\ \A id \in IdsOf(list) \cap IdsOf(next) :
             Named(list, id) # Named(next, id) => id \in rec.created \cup rec.updated
  BY DEF Effect
<1> HIDE DEF net, qnet, net2, qnet2
<1>4. (IdsOf(mine) \cup net2.created) \ net2.destroyed = IdsOf(next)
  BY <1>1, <1>2, <1>3
<1>5. (IdsOf(mine) \cup qnet2.added) \ qnet2.removed = IdsOf(next)
  BY <1>1, <1>2, <1>3
<1>6. ASSUME NEW id \in IdsOf(mine) \cap IdsOf(next), Named(mine, id) # Named(next, id)
      PROVE  id \in net2.created \cup net2.updated
  <2>1. id \notin rec.destroyed
    BY <1>3, <1>6
  <2>2. CASE id \in rec.created
    BY <1>1, <2>1, <2>2
  <2>3. CASE id \notin rec.created
    <3>1. id \in IdsOf(list)
      BY <1>3, <1>6, <2>3
    <3>2. Named(mine, id) # Named(list, id) \/ Named(list, id) # Named(next, id)
      BY <1>6
    <3>3. id \in net.created \cup net.updated \cup rec.updated
      BY <1>2, <1>3, <1>6, <2>3, <3>1, <3>2
    <3>4. QED
      BY <1>1, <2>1, <3>3
  <2>4. QED
    BY <2>2, <2>3
<1>7. QED
  BY <1>4, <1>5, <1>6 DEF Replay, net2, qnet2

\* What a list has had replayed is settled for it, so that the new list is settled too.
LEMMA ReplaySettles ==
    ASSUME NEW records \in Seq(Record), NEW rec \in Record, NEW since \in 0 .. Len(records),
           NEW list, NEW next, Effect(list, next, rec), Replay(since, records, list, list)
    PROVE  Replay(since, Append(records, rec), next, next)
<1> DEFINE net   == ChangesSince(records, since)
           qnet  == QueryChangesSince(records, since)
           net2  == ChangesSince(Append(records, rec), since)
           qnet2 == QueryChangesSince(Append(records, rec), since)
<1>1. /\ net2.created = (net.created \cup rec.created) \ rec.destroyed
      /\ net2.destroyed = (net.destroyed \ rec.created) \cup rec.destroyed
      /\ qnet2.added = (qnet.added \cup rec.created) \ rec.destroyed
      /\ qnet2.removed = (qnet.removed \ rec.created) \cup rec.destroyed
  BY FoldAppend DEF Folded, QueryFolded
<1>2. /\ (IdsOf(list) \cup net.created) \ net.destroyed = IdsOf(list)
      /\ (IdsOf(list) \cup qnet.added) \ qnet.removed = IdsOf(list)
  BY DEF Replay
<1>3. IdsOf(next) = (IdsOf(list) \cup rec.created) \ rec.destroyed
  BY DEF Effect
<1> HIDE DEF net, qnet, net2, qnet2
<1>4. (IdsOf(next) \cup net2.created) \ net2.destroyed = IdsOf(next)
  BY <1>1, <1>2, <1>3
<1>5. (IdsOf(next) \cup qnet2.added) \ qnet2.removed = IdsOf(next)
  BY <1>1, <1>2, <1>3
<1>6. QED
  BY <1>4, <1>5 DEF Replay, net2, qnet2

\* At the end of the log there is nothing to replay.
LEMMA ReplayNothing ==
    ASSUME NEW records \in Seq(Record), NEW list
    PROVE  Replay(Len(records), records, list, list)
<1>1. /\ ChangesSince(records, Len(records)) = [created |-> {}, updated |-> {}, destroyed |-> {}]
      /\ QueryChangesSince(records, Len(records)) = [added |-> {}, removed |-> {}]
  BY FoldEmpty DEF Idle
<1>2. QED
  BY <1>1 DEF Replay

\* What was explained stays so under a record and the list it leads to.
LEMMA ExplainedOn ==
    ASSUME IInv, ListsTyped, NEW list, NEW next, NEW rec \in Record, Effect(list, next, rec),
           Explained(log, list)
    PROVE  Explained(Append(log, rec), next)
<1>1. log \in Seq(Record) /\ Len(log) \in Nat /\ base \in Nat /\ base <= Len(log)
  BY DEF IInv, Types, ListsTyped
<1> DEFINE longer == Append(log, rec)
<1>2. longer \in Seq(Record) /\ Len(longer) = Len(log) + 1
  BY <1>1
<1>3. ASSUME NEW since \in base .. Len(longer) PROVE Replay(since, longer, next, next)
  <2>1. CASE since \in base .. Len(log)
    <3>1. since \in 0 .. Len(log)
      BY <1>1, <2>1
    <3>2. Replay(since, log, list, list)
      BY <2>1 DEF Explained
    <3>3. QED
      BY <1>1, <3>1, <3>2, ReplaySettles
  <2>2. CASE since = Len(longer)
    <3> HIDE DEF longer
    <3>1. QED
      BY <1>2, <2>2, ReplayNothing
  <2>3. QED
    BY <1>1, <1>2, <2>1, <2>2
<1>4. ASSUME NEW c \in Clients, ~Gone(c)
      PROVE  Replay(view[c]["mailbox"].state, longer, next, view[c]["mailbox"].list)
  <2>1. view[c]["mailbox"].state \in 0 .. Len(log)
    <3>1. view[c]["mailbox"].state \in Nat /\ view[c]["mailbox"].state <= Len(log)
      BY <1>4 DEF IInv, Types, IsView, Kinds, BoxInv, Gone
    <3>2. QED
      BY <1>1, <3>1
  <2>2. Replay(view[c]["mailbox"].state, log, list, view[c]["mailbox"].list)
    BY <1>4 DEF Explained
  <2>3. QED
    BY <1>1, <2>1, <2>2, ReplayAppend
<1> HIDE DEF longer
<1>5. Explained(longer, next)
  BY <1>3, <1>4 DEF Explained
<1>6. QED
  BY <1>5 DEF longer

LEMMA RealList ==
    ASSUME NEW list \in Seq(Entry)
    PROVE  Read(list) = list /\ list # Torn
BY MailboxesAssumption DEF Read

LEMMA DefaultTyped == DefaultList \in Seq(Entry)
<1>1. FirstName \in Names
  BY MailboxesAssumption DEF FirstName
<1>2. [id |-> Default, name |-> FirstName] \in Entry
  BY <1>1, MailboxesAssumption DEF Entry
<1>3. QED
  BY <1>2 DEF DefaultList

(* A step that leaves list and log alone, and of the clients at most adds to *)
(* those the log explains nothing to.                                        *)
LEMMA LogFrame ==
    ASSUME ListsTyped, LogInv, UNCHANGED <<up, boxFile, log, tangled, base>>,
           \A w \in Workers : job'[w] = job[w] \/ (~InSet(w) /\ ~InSet(w)'),
           \A c \in Clients : /\ view'[c]["mailbox"] = view[c]["mailbox"]
                              /\ Gone(c) => Gone(c)'
    PROVE  ListsTyped' /\ LogInv'
<1>1. ListsTyped'
  BY DEF ListsTyped, InSet
<1>2. LogInv'
  <2>1. SUFFICES ASSUME ~tangled'
                 PROVE  LogInv'
    BY DEF LogInv
  <2>2. Unannounced' = Unannounced
    BY DEF Unannounced, InSet
  <2>3. \A records, list : Explained(records, list) =>
            /\ \A since \in base .. Len(records) : Replay(since, records, list, list)
            /\ \A c \in Clients : ~Gone(c)' =>
                   Replay(view'[c]["mailbox"].state, records, list, view'[c]["mailbox"].list)
    BY DEF Explained
  <2>4. ~Unannounced' => Explained(log, Read(boxFile))'
    BY <2>1, <2>2, <2>3 DEF LogInv, Explained
  <2>5. \A v, w \in Workers : InSet(v)' /\ InSet(w)' => v = w
    BY <2>1 DEF LogInv, InSet
  <2>6. ASSUME NEW w \in Workers
        PROVE  /\ job'[w].pc = "truncate" => Effect(Read(boxFile'), job'[w].next, job'[w].rec)
               /\ job'[w].pc \in {"write", "bump"}
                      => Explained(Append(log, job[w].rec), job[w].next)'
               /\ job'[w].pc = "write" => boxFile' = Torn
               /\ job'[w].pc = "bump" => boxFile' = job'[w].next
    <3>1. CASE ~InSet(w)'
      BY <3>1 DEF InSet
    <3>2. CASE InSet(w)'
      <4>1. job'[w] = job[w]
        BY <3>2
      <4>2. job'[w].pc \in {"write", "bump"} => Explained(Append(log, job[w].rec), job[w].next)'
        BY <2>1, <2>3, <4>1 DEF LogInv, Explained
      <4>3. QED
        BY <2>1, <4>1, <4>2 DEF LogInv
    <3>3. QED
      BY <3>1, <3>2
  <2>7. QED
    BY <2>4, <2>5, <2>6 DEF LogInv
<1>3. QED
  BY <1>1, <1>2

\* While sets overlap, or one has failed, there is only that no client relies on the log.
LEMMA Tangles ==
    ASSUME tangled', \A c \in Clients : Gone(c)'
    PROVE  LogInv'
BY DEF LogInv

\* Where no client relies on the log it explains the list from its end on.
LEMMA Untangles ==
    ASSUME ~tangled', log' \in Seq(Record), base' = Len(log'), \A c \in Clients : Gone(c)',
           \A w \in Workers : ~InSet(w)'
    PROVE  LogInv'
<1>1. Replay(Len(log'), log', Read(boxFile'), Read(boxFile'))
  BY ReplayNothing
<1>2. \A since \in base' .. Len(log') : since = Len(log')
  OBVIOUS
<1>3. Explained(log, Read(boxFile))'
  BY <1>1, <1>2 DEF Explained
<1>4. QED
  BY <1>3 DEF LogInv, InSet

\* A step that names no client and takes none from among the named.
LEMMA GoneFrame ==
    ASSUME UNCHANGED <<view, missed, rewound, strayed>>
    PROVE  \A c \in Clients : Gone(c)' = Gone(c)
BY DEF Gone, Missed

LEMMA InitLog ==
    ASSUME Init
    PROVE  ListsTyped /\ LogInv
<1> USE DEF Init
<1>1. \A w \in Workers : job[w].pc = "idle"
  BY DEF Idle
<1>2. ListsTyped
  <2>1. base \in Nat /\ base <= Len(log)
    OBVIOUS
  <2>2. QED
    BY <1>1, <2>1, DefaultTyped DEF ListsTyped, InSet
<1>3. Explained(log, Read(boxFile))
  <2>1. Read(boxFile) = DefaultList /\ log \in Seq(Record) /\ Len(log) = 0
    BY DefaultTyped, RealList
  <2>2. Replay(0, log, DefaultList, DefaultList)
    BY <2>1, ReplayNothing
  <2>3. \A c \in Clients : Gone(c)
    BY DEF Gone, Missed, Kinds
  <2>4. QED
    BY <2>1, <2>2, <2>3 DEF Explained
<1>4. LogInv
  BY <1>1, <1>3 DEF LogInv, InSet
<1>5. QED
  BY <1>2, <1>4

LEMMA SetReadLog ==
    ASSUME IInv, ListsTyped, LogInv, NEW w \in Workers, NEW q \in Requests, SetRead(w, q)
    PROVE  ListsTyped' /\ LogInv'
<1> DEFINE list == Read(boxFile)
           j    == [pc |-> "truncate", next |-> Applied(list, q), rec |-> RecordOf(list, q),
                    bumps |-> 0]
<1>1. list \in Seq(Entry)
  BY DEF ListsTyped, Read
<1>2. Applied(list, q) \in Seq(Entry) /\ Effect(list, Applied(list, q), RecordOf(list, q))
  BY <1>1, RequestEffect
<1>3. job' = [job EXCEPT ![w] = j] /\ up /\ ~InFlight(w)
  BY DEF SetRead
<1>4. /\ job'[w].pc = "truncate" /\ job'[w].next = Applied(list, q)
      /\ job'[w].rec = RecordOf(list, q)
      /\ \A v \in Workers \ {w} : job'[v] = job[v]
  BY <1>3 DEF IInv, Types
<1> HIDE DEF list, j
<1>5. /\ UNCHANGED <<up, boxFile, log, view, missed, rewound, base>>
      /\ tangled' <=> tangled \/ \E v \in Workers : InSet(v)
      /\ tangled' => strayed' = Clients
      /\ ~tangled' => strayed' = strayed
  BY DEF SetRead
<1>6. tangled' \in BOOLEAN
  BY DEF SetRead, ListsTyped
<1>7. ListsTyped'
  <2>1. \A v \in Workers : InSet(v)' => job'[v].next \in Seq(Entry)
    BY <1>2, <1>4 DEF ListsTyped, InSet
  <2>2. QED
    BY <1>3, <1>5, <1>6, <2>1 DEF ListsTyped
<1>8. CASE tangled'
  <2>1. \A c \in Clients : Gone(c)'
    BY <1>5, <1>8 DEF Gone
  <2>2. QED
    BY <1>7, <1>8, <2>1, Tangles
<1>9. CASE ~tangled'
  <2>1. ~tangled /\ \A v \in Workers : ~InSet(v)
    BY <1>5, <1>9
  <2>2. \A v \in Workers : InSet(v)' => v = w
    BY <1>4, <2>1 DEF InSet
  <2>3. ~Unannounced
    BY <2>1 DEF Unannounced, InSet
  <2>4. Explained(log, list)
    BY <2>1, <2>3 DEF LogInv, list
  <2>5. Explained(log, Read(boxFile))'
    BY <1>5, <1>9, <2>4, GoneFrame DEF Explained, list
  <2>6. \A v \in Workers : job'[v].pc # "write" /\ job'[v].pc # "bump"
    BY <1>4, <2>1 DEF InSet
  <2>7. \A v \in Workers : job'[v].pc = "truncate" =>
            Effect(Read(boxFile'), job'[v].next, job'[v].rec)
    BY <1>2, <1>4, <1>5, <2>1 DEF list, InSet
  <2>8. LogInv'
    BY <1>9, <2>2, <2>5, <2>6, <2>7 DEF LogInv
  <2>9. QED
    BY <1>7, <2>8
<1>10. QED
  BY <1>8, <1>9

\* From here on the set counts as done.
LEMMA SetTruncateLog ==
    ASSUME IInv, ListsTyped, LogInv, NEW w \in Workers, SetTruncate(w)
    PROVE  ListsTyped' /\ LogInv'
<1>1. /\ job'[w].pc = "write" /\ job'[w].next = job[w].next /\ job'[w].rec = job[w].rec
      /\ \A v \in Workers \ {w} : job'[v] = job[v]
  BY DEF SetTruncate, IInv, Types, IsJob
<1>2. /\ up /\ job[w].pc = "truncate" /\ boxFile' = Torn
      /\ UNCHANGED <<up, log, view, missed, rewound, strayed, tangled, base>>
  BY DEF SetTruncate, ghosts
<1>3. ListsTyped'
  <2>1. \A v \in Workers : InSet(v)' => job'[v].next \in Seq(Entry)
    BY <1>1, <1>2 DEF ListsTyped, InSet
  <2>2. QED
    BY <1>2, <2>1 DEF ListsTyped
<1>4. SUFFICES ASSUME ~tangled PROVE LogInv'
  BY <1>2, <1>3, Tangles, GoneFrame DEF LogInv
<1>5. \A v \in Workers : InSet(v) => v = w
  BY <1>2, <1>4 DEF LogInv, InSet
<1>6. ~Unannounced
  BY <1>2, <1>5 DEF Unannounced, InSet
<1>7. Explained(Append(log, job[w].rec), job[w].next)
  <2>1. Explained(log, Read(boxFile)) /\ Effect(Read(boxFile), job[w].next, job[w].rec)
    BY <1>2, <1>4, <1>6 DEF LogInv
  <2>2. job[w].rec \in Record
    BY DEF IInv, Types, IsJob
  <2>3. QED
    BY <2>1, <2>2, ExplainedOn
<1>8. Explained(Append(log, job[w].rec), job[w].next)'
  BY <1>1, <1>2, <1>7, GoneFrame DEF Explained
<1>9. \A v \in Workers : InSet(v)' => v = w
  BY <1>1, <1>5 DEF InSet
<1>10. Unannounced'
  BY <1>1 DEF Unannounced
<1>11. \A v \in Workers :
           /\ job'[v].pc = "truncate" => Effect(Read(boxFile'), job'[v].next, job'[v].rec)
           /\ job'[v].pc \in {"write", "bump"} => Explained(Append(log, job[v].rec), job[v].next)'
           /\ job'[v].pc = "write" => boxFile' = Torn
           /\ job'[v].pc = "bump" => boxFile' = job'[v].next
  BY <1>1, <1>2, <1>8, <1>9 DEF InSet
<1>12. QED
  BY <1>2, <1>4, <1>9, <1>10, <1>11 DEF LogInv

LEMMA SetWriteLog ==
    ASSUME IInv, ListsTyped, LogInv, NEW w \in Workers, SetWrite(w)
    PROVE  ListsTyped' /\ LogInv'
<1>1. /\ job'[w].pc = "bump" /\ job'[w].next = job[w].next /\ job'[w].rec = job[w].rec
      /\ \A v \in Workers \ {w} : job'[v] = job[v]
  BY DEF SetWrite, IInv, Types, IsJob
<1>2. /\ up /\ job[w].pc = "write" /\ boxFile' = job[w].next
      /\ UNCHANGED <<up, log, view, missed, rewound, strayed, tangled, base>>
  BY DEF SetWrite, ghosts
<1>3. ListsTyped'
  <2>1. \A v \in Workers : InSet(v)' => job'[v].next \in Seq(Entry)
    BY <1>1, <1>2 DEF ListsTyped, InSet
  <2>2. job[w].next \in Seq(Entry)
    BY <1>2 DEF ListsTyped, InSet
  <2>3. QED
    BY <1>2, <2>1, <2>2 DEF ListsTyped
<1>4. SUFFICES ASSUME ~tangled PROVE LogInv'
  BY <1>2, <1>3, Tangles, GoneFrame DEF LogInv
<1>5. \A v \in Workers : InSet(v) => v = w
  BY <1>2, <1>4 DEF LogInv, InSet
<1>6. Explained(Append(log, job[w].rec), job[w].next)
  BY <1>2, <1>4 DEF LogInv
<1>7. Explained(Append(log, job[w].rec), job[w].next)'
  BY <1>1, <1>2, <1>6, GoneFrame DEF Explained
<1>8. \A v \in Workers : InSet(v)' => v = w
  BY <1>1, <1>5 DEF InSet
<1>9. Unannounced'
  BY <1>1 DEF Unannounced
<1>10. \A v \in Workers :
           /\ job'[v].pc = "truncate" => Effect(Read(boxFile'), job'[v].next, job'[v].rec)
           /\ job'[v].pc \in {"write", "bump"} => Explained(Append(log, job[v].rec), job[v].next)'
           /\ job'[v].pc = "write" => boxFile' = Torn
           /\ job'[v].pc = "bump" => boxFile' = job'[v].next
  BY <1>1, <1>2, <1>7, <1>8 DEF InSet
<1>11. QED
  BY <1>2, <1>4, <1>8, <1>9, <1>10 DEF LogInv

LEMMA SetFailsLog ==
    ASSUME IInv, ListsTyped, LogInv, NEW w \in Workers, SetFails(w)
    PROVE  ListsTyped' /\ LogInv'
<1>1. /\ job'[w].pc = "bump" /\ job'[w].next = job[w].next
      /\ \A v \in Workers \ {w} : job'[v] = job[v]
  BY DEF SetFails, IInv, Types, IsJob
<1>2. /\ up /\ InSet(w) /\ UNCHANGED <<up, boxFile, log, base>>
      /\ tangled' = TRUE /\ strayed' = Clients
  BY DEF SetFails, InSet
<1>3. ListsTyped'
  <2>1. \A v \in Workers : InSet(v)' => job'[v].next \in Seq(Entry)
    BY <1>1, <1>2 DEF ListsTyped, InSet
  <2>2. QED
    BY <1>2, <2>1 DEF ListsTyped
<1>4. \A c \in Clients : Gone(c)'
  BY <1>2 DEF Gone
<1>5. QED
  BY <1>2, <1>3, <1>4, Tangles

(* Whether or not the log is saved.  The last of the sets that overlapped,   *)
(* or failed, leaves every client to its next get.                           *)
LEMMA SetBumpLog ==
    ASSUME IInv, ListsTyped, LogInv, NEW w \in Workers, SetBump(w) \/ SetBumpUnsaved(w)
    PROVE  ListsTyped' /\ LogInv'
<1> DEFINE last == \A v \in Workers \ {w} : ~InSet(v)
<1>1. job'[w].pc = "idle" /\ \A v \in Workers \ {w} : job'[v] = job[v]
  BY DEF SetBump, SetBumpUnsaved, SetEnds, IInv, Types, Idle
<1>2. /\ up /\ job[w].pc = "bump" /\ log' = Append(log, job[w].rec)
      /\ UNCHANGED <<up, boxFile, view, missed, rewound, strayed>>
      /\ tangled /\ last => tangled' = FALSE /\ base' = Len(log')
      /\ ~(tangled /\ last) => UNCHANGED <<tangled, base>>
  BY DEF SetBump, SetBumpUnsaved, SetEnds
<1>3. log' \in Seq(Record) /\ Len(log') = Len(log) + 1 /\ Len(log) \in Nat
  BY <1>2 DEF IInv, Types, IsJob
<1>4. ListsTyped'
  <2>1. \A v \in Workers : InSet(v)' => job'[v].next \in Seq(Entry)
    BY <1>1 DEF ListsTyped, InSet
  <2>2. tangled' \in BOOLEAN
    <3>1. CASE tangled /\ last
      BY <1>2, <3>1
    <3>2. CASE ~(tangled /\ last)
      <4> HIDE DEF last
      <4>1. QED
        BY <1>2, <3>2 DEF ListsTyped
    <3>3. QED
      BY <3>1, <3>2
  <2>4. base' \in Nat /\ base' <= Len(log')
    <3> HIDE DEF last
    <3>1. QED
      BY <1>2, <1>3 DEF ListsTyped
  <2>3. QED
    BY <1>2, <2>1, <2>2, <2>4 DEF ListsTyped
<1>5. CASE tangled /\ last
  <2>1. \A v \in Workers : ~InSet(v)'
    BY <1>1, <1>5 DEF InSet
  <2>2. \A c \in Clients : Gone(c)'
    BY <1>2, <1>5, GoneFrame DEF LogInv
  <2>3. QED
    BY <1>2, <1>3, <1>4, <1>5, <2>1, <2>2, Untangles
<1>6. CASE tangled /\ ~last
  BY <1>2, <1>4, <1>6, GoneFrame, Tangles DEF LogInv
<1>7. CASE ~tangled
  <2>1. \A v \in Workers : InSet(v) => v = w
    BY <1>2, <1>7 DEF LogInv, InSet
  <2>2. Explained(log', job[w].next) /\ boxFile = job[w].next
    BY <1>2, <1>7 DEF LogInv
  <2>3. Read(boxFile') = job[w].next
    <3>1. job[w].next \in Seq(Entry)
      BY <1>2 DEF ListsTyped, InSet
    <3>2. QED
      BY <1>2, <2>2, <3>1, RealList
  <2>4. Explained(log, Read(boxFile))'
    BY <1>2, <1>7, <2>2, <2>3, GoneFrame DEF Explained
  <2>5. \A v \in Workers : ~InSet(v)'
    BY <1>1, <2>1 DEF InSet
  <2>6. QED
    BY <1>2, <1>4, <1>7, <2>4, <2>5 DEF LogInv, InSet
<1>8. QED
  BY <1>5, <1>6, <1>7

LEMMA OtherSaveLog ==
    ASSUME IInv, ListsTyped, LogInv, OtherSave \/ OtherSaveFails
    PROVE  ListsTyped' /\ LogInv'
<1>1. UNCHANGED <<up, boxFile, log, job, view, missed, rewound, strayed, tangled, base>>
  BY DEF OtherSave, OtherSaveFails, ghosts
<1>2. \A w \in Workers : job'[w] = job[w]
  BY <1>1
<1>3. QED
  BY <1>1, <1>2, GoneFrame, LogFrame

LEMMA BoxStateLog ==
    ASSUME IInv, ListsTyped, LogInv, NEW c \in Clients, BoxState(c)
    PROVE  ListsTyped' /\ LogInv'
<1>1. UNCHANGED <<up, boxFile, log, job, view, missed, rewound, strayed, tangled, base>>
  BY DEF BoxState, ghosts
<1>2. \A w \in Workers : job'[w] = job[w]
  BY <1>1
<1>3. QED
  BY <1>1, <1>2, GoneFrame, LogFrame

(* The client gets the list of the set that counts as done, or the one on    *)
(* file where there is none, with a state of the log before: since its base, *)
(* or the log explains it nothing.                                           *)
LEMMA BoxListLog ==
    ASSUME IInv, ListsTyped, LogInv, NEW c \in Clients, BoxList(c)
    PROVE  ListsTyped' /\ LogInv'
<1> DEFINE new == [list |-> Read(boxFile), state |-> half[c]["mailbox"]]
<1>1. /\ view'[c]["mailbox"] = new
      /\ \A d \in Clients \ {c} : view'[d] = view[d]
  <2>1. /\ view = [d \in Clients |-> [k \in Kinds |-> view[d][k]]] /\ "mailbox" \in Kinds
        /\ view' = [view EXCEPT ![c]["mailbox"] = new]
    BY DEF BoxList, IInv, Types, Kinds
  <2> HIDE DEF new
  <2>2. QED
    BY <2>1
<1>2. UNCHANGED <<up, boxFile, log, job, tangled, base>>
  BY DEF BoxList
<1>3. /\ \A d \in Clients \ {c} : Gone(d)' <=> Gone(d)
      /\ boxFile = Torn => Gone(c)'
      /\ tangled \/ half[c]["mailbox"] < base => Gone(c)'
  <2> HIDE DEF new
  <2>1. ASSUME NEW d \in Clients \ {c}
        PROVE  /\ <<d, "mailbox">> \in missed' <=> <<d, "mailbox">> \in missed
               /\ d \in rewound' <=> d \in rewound
               /\ d \in strayed' <=> d \in strayed
    <3>1. d # c /\ <<d, "mailbox">> # <<c, "mailbox">>
      OBVIOUS
    <3>2. <<d, "mailbox">> \in missed' <=> <<d, "mailbox">> \in missed
      BY <3>1 DEF BoxList
    <3>3. d \in rewound' <=> d \in rewound
      BY <3>1 DEF BoxList
    <3>4. d \in strayed' <=> d \in strayed
      BY <3>1 DEF BoxList
    <3>5. QED
      BY <3>2, <3>3, <3>4
  <2>2. boxFile = Torn => <<c, "mailbox">> \in missed'
    BY DEF BoxList
  <2>3. tangled \/ half[c]["mailbox"] < base => c \in strayed'
    BY DEF BoxList
  <2>4. ASSUME NEW d \in Clients \ {c} PROVE Gone(d)' <=> Gone(d)
    <3>1. view'[d]["mailbox"].list = view[d]["mailbox"].list
      BY <1>1
    <3>2. QED
      BY <2>1, <3>1, Zenon DEF Gone, Missed
  <2>5. QED
    BY <2>2, <2>3, <2>4 DEF Gone, Missed
<1>4. new.list = Read(boxFile) /\ new.state = half[c]["mailbox"] /\ new.state \in 0 .. Len(log)
  BY DEF BoxList, IInv, BoxInv
<1> HIDE DEF new
<1>5. ListsTyped'
  BY <1>2 DEF ListsTyped, InSet
<1>6. SUFFICES ASSUME ~tangled PROVE LogInv'
  <2>1. tangled => \A d \in Clients : Gone(d)'
    BY <1>3 DEF LogInv
  <2>2. QED
    BY <1>2, <1>5, <2>1, Tangles
<1>7. ASSUME NEW records \in Seq(Record), NEW list, Explained(records, list),
             boxFile = Torn \/ (Read(boxFile) = list /\ new.state <= Len(records))
      PROVE  /\ \A since \in base .. Len(records) : Replay(since, records, list, list)
             /\ \A d \in Clients : ~Gone(d)' =>
                    Replay(view'[d]["mailbox"].state, records, list, view'[d]["mailbox"].list)
  <2>1. \A since \in base .. Len(records) : Replay(since, records, list, list)
    BY <1>7 DEF Explained
  <2>2. ASSUME NEW d \in Clients, ~Gone(d)'
        PROVE  Replay(view'[d]["mailbox"].state, records, list, view'[d]["mailbox"].list)
    <3>1. CASE d = c
      <4>1. boxFile # Torn /\ ~(half[c]["mailbox"] < base)
        BY <1>3, <2>2, <3>1
      <4>2. new.state \in base .. Len(records)
        BY <1>4, <1>7, <4>1 DEF ListsTyped
      <4>3. QED
        BY <1>1, <1>4, <1>7, <2>1, <3>1, <4>1, <4>2
    <3>2. CASE d # c
      BY <1>1, <1>3, <1>7, <2>2, <3>2 DEF Explained
    <3>3. QED
      BY <3>1, <3>2
  <2>3. QED
    BY <2>1, <2>2
<1>8. ~Unannounced' => Explained(log, Read(boxFile))'
  <2>1. Unannounced' = Unannounced
    BY <1>2 DEF Unannounced
  <2>2. ~Unannounced => Explained(log, Read(boxFile))
    BY <1>6 DEF LogInv
  <2>3. QED
    <3>1. log \in Seq(Record)
      BY DEF IInv, Types
    <3>2. QED
      BY <1>2, <1>4, <1>7, <2>1, <2>2, <3>1 DEF Explained
<1>9. ASSUME NEW w \in Workers, job[w].pc \in {"write", "bump"}
      PROVE  Explained(Append(log, job[w].rec), job[w].next)'
  <2>1. Explained(Append(log, job[w].rec), job[w].next)
    BY <1>6, <1>9 DEF LogInv
  <2>2. boxFile = Torn \/ Read(boxFile) = job[w].next
    <3>1. job[w].next \in Seq(Entry)
      BY <1>9 DEF ListsTyped, InSet
    <3>2. QED
      BY <1>6, <1>9, <3>1, RealList DEF LogInv
  <2>3. new.state <= Len(Append(log, job[w].rec)) /\ Append(log, job[w].rec) \in Seq(Record)
    <3>1. /\ Append(log, job[w].rec) \in Seq(Record)
          /\ Len(Append(log, job[w].rec)) = Len(log) + 1 /\ Len(log) \in Nat
      BY DEF IInv, Types, IsJob
    <3>2. QED
      BY <1>4, <3>1
  <2> DEFINE records == Append(log, job[w].rec)
             list    == job[w].next
  <2>4. Append(log, job[w].rec)' = records /\ job'[w].next = list
    BY <1>2
  <2> HIDE DEF records, list
  <2>5. /\ \A since \in base .. Len(records) : Replay(since, records, list, list)
        /\ \A d \in Clients : ~Gone(d)' =>
               Replay(view'[d]["mailbox"].state, records, list, view'[d]["mailbox"].list)
    BY <1>7, <2>1, <2>2, <2>3 DEF records, list
  <2>6. QED
    BY <1>2, <2>4, <2>5 DEF Explained
<1>10. QED
  BY <1>2, <1>6, <1>8, <1>9 DEF LogInv, InSet

LEMMA IdentityReadLog ==
    ASSUME IInv, ListsTyped, LogInv, NEW w \in Workers, NEW q \in Requests, IdentityRead(w, q)
    PROVE  ListsTyped' /\ LogInv'
<1>1. job'[w].pc = "replace" /\ \A v \in Workers \ {w} : job'[v] = job[v]
  BY DEF IdentityRead, IInv, Types
<1>2. /\ ~InFlight(w)
      /\ UNCHANGED <<up, boxFile, log, view, missed, rewound, strayed, tangled, base>>
  BY DEF IdentityRead, ghosts
<1>3. ~InSet(w) /\ ~InSet(w)'
  BY <1>1, <1>2 DEF InSet, InFlight
<1>4. \A v \in Workers : job'[v] = job[v] \/ (~InSet(v) /\ ~InSet(v)')
  BY <1>1, <1>3, Zenon
<1>5. QED
  BY <1>2, <1>4, GoneFrame, LogFrame

LEMMA ReplaceLog ==
    ASSUME IInv, ListsTyped, LogInv, NEW w \in Workers, IdentityReplace(w) \/ IdentityFileFails(w)
    PROVE  ListsTyped' /\ LogInv'
<1>1. job'[w].pc = "idle" /\ \A v \in Workers \ {w} : job'[v] = job[v]
  BY DEF IdentityReplace, IdentityFileFails, IInv, Types, Idle
<1>2. /\ job[w].pc = "replace"
      /\ UNCHANGED <<up, boxFile, log, view, missed, rewound, strayed, tangled, base>>
  BY DEF IdentityReplace, IdentityFileFails, ghosts
<1>3. ~InSet(w) /\ ~InSet(w)'
  BY <1>1, <1>2 DEF InSet
<1>4. \A v \in Workers : job'[v] = job[v] \/ (~InSet(v) /\ ~InSet(v)')
  BY <1>1, <1>3, Zenon
<1>5. QED
  BY <1>2, <1>4, GoneFrame, LogFrame

LEMMA IdentityGetLog ==
    ASSUME IInv, ListsTyped, LogInv, NEW c \in Clients, IdentityList(c) \/ IdentityState(c)
    PROVE  ListsTyped' /\ LogInv'
<1>1. UNCHANGED <<up, boxFile, log, job, rewound, strayed, tangled, base>>
  BY DEF IdentityList, IdentityState, ghosts
<1>2. \A d \in Clients : view'[d]["mailbox"] = view[d]["mailbox"]
  <2>1. /\ view = [d \in Clients |-> [k \in Kinds |-> view[d][k]]]
        /\ "mailbox" \in Kinds /\ "identity" \in Kinds
    BY DEF IInv, Types, Kinds
  <2>2. CASE IdentityList(c)
    BY <2>2 DEF IdentityList
  <2>3. CASE IdentityState(c)
    <3> DEFINE new == [list |-> half[c]["identity"], state |-> idState]
    <3>1. view' = [view EXCEPT ![c]["identity"] = new]
      BY <2>3 DEF IdentityState
    <3> HIDE DEF new
    <3>2. QED
      BY <2>1, <3>1
  <2>4. QED
    BY <2>2, <2>3
<1>3. \A d \in Clients : Gone(d) => Gone(d)'
  <2>1. \A d \in Clients : <<d, "mailbox">> \in missed => <<d, "mailbox">> \in missed'
    BY DEF IdentityList, IdentityState, ghosts
  <2>2. QED
    BY <1>1, <1>2, <2>1 DEF Gone, Missed
<1>4. \A w \in Workers : job'[w] = job[w]
  BY <1>1
<1>5. QED
  BY <1>1, <1>2, <1>3, <1>4, LogFrame

\* A crash between a set's truncation and its announcement names every client.
LEMMA CrashLog ==
    ASSUME IInv, ListsTyped, LogInv, Crash
    PROVE  ListsTyped' /\ LogInv'
<1>1. \A w \in Workers : ~InSet(w)' /\ job'[w].pc = "idle"
  BY DEF Crash, Idle, InSet
<1>2. /\ UNCHANGED <<boxFile, log, view, rewound, strayed, base>> /\ missed \subseteq missed'
      /\ tangled' <=> tangled \/ Unannounced
      /\ tangled' \in BOOLEAN
      /\ Unannounced => Clients \X {"mailbox"} \subseteq missed'
  BY DEF Crash, Unannounced, ListsTyped
<1>3. ListsTyped'
  BY <1>1, <1>2 DEF ListsTyped
<1>4. \A c \in Clients : Gone(c) \/ Unannounced => Gone(c)'
  BY <1>2 DEF Gone, Missed
<1>5. SUFFICES ASSUME ~tangled' PROVE LogInv'
  BY <1>2, <1>3, <1>4, Tangles DEF LogInv
<1>6. Explained(log, Read(boxFile))
  BY <1>2, <1>5 DEF LogInv
<1>7. Explained(log, Read(boxFile))'
  BY <1>2, <1>4, <1>6 DEF Explained
<1>8. QED
  BY <1>1, <1>5, <1>7 DEF LogInv

(* A start that finds list and log as they were left goes on with them; one  *)
(* that does not leaves every client to its next get.                        *)
LEMMA StartLog ==
    ASSUME IInv, ListsTyped, LogInv, NEW failing \in Failing, Start(failing)
    PROVE  ListsTyped' /\ LogInv'
<1> DEFINE same == ~tangled /\ boxFile' = boxFile /\ log' = log
<1>1. /\ UNCHANGED <<job, view>> /\ ~up /\ ~tangled' /\ base' = Len(log')
      /\ missed \subseteq missed'
      /\ boxFile' # boxFile => Clients \X {"mailbox"} \subseteq missed'
      /\ log' # log => rewound' = Clients
      /\ log' = log => rewound' = rewound
      /\ tangled => strayed' = Clients
      /\ ~tangled => strayed' = strayed
  BY DEF Start
<1>2. \A w \in Workers : ~InSet(w) /\ ~InSet(w)'
  BY <1>1 DEF ListsTyped, InSet
<1>3. log \in Seq(Record) /\ log' \in Seq(Record)
  BY DEF Start, IInv, Types
<1>4. ListsTyped'
  <2>1. boxFile' \in Seq(Entry) \cup {Torn}
    BY DefaultTyped DEF Start, ListsTyped
  <2>2. tangled' \in BOOLEAN /\ base' \in Nat /\ base' <= Len(log')
    <3>1. Len(log') \in Nat
      BY <1>3
    <3>2. tangled' \in BOOLEAN
      BY DEF Start
    <3>3. base' = Len(log')
      BY <1>1
    <3>4. QED
      BY <3>1, <3>2, <3>3
  <2>3. QED
    BY <1>2, <2>1, <2>2 DEF ListsTyped
<1>5. CASE same
  <2>1. Explained(log, Read(boxFile))
    BY <1>2, <1>5 DEF LogInv, Unannounced, InSet
  <2>2. \A c \in Clients : Gone(c) => Gone(c)'
    BY <1>1, <1>5 DEF Gone, Missed
  <2>3. \A since \in base' .. Len(log') : since \in base .. Len(log)
    BY <1>1, <1>3, <1>5 DEF ListsTyped
  <2>4. Explained(log, Read(boxFile))'
    BY <1>1, <1>5, <2>1, <2>2, <2>3 DEF Explained
  <2>5. QED
    BY <1>1, <1>2, <1>4, <2>4 DEF LogInv, InSet
<1>6. CASE ~same
  <2>1. \A c \in Clients : Gone(c)'
    BY <1>1, <1>6 DEF Gone, Missed
  <2>2. QED
    BY <1>1, <1>2, <1>3, <1>4, <2>1, Untangles
<1>7. QED
  BY <1>5, <1>6

LEMMA NextLog ==
    ASSUME IInv, ListsTyped, LogInv, [Next]_vars
    PROVE  ListsTyped' /\ LogInv'
<1>1. CASE Crash
  BY <1>1, CrashLog
<1>2. CASE \E failing \in Failing : Start(failing)
  BY <1>2, StartLog
<1>3. CASE \E w \in Workers : \/ \E q \in BoxRequests : SetRead(w, q)
                            \/ \E q \in IdentityRequests : IdentityRead(w, q)
  BY <1>3, MailboxesAssumption, SetReadLog, IdentityReadLog
<1>4. CASE \E w \in Workers : \/ SetTruncate(w) \/ SetWrite(w) \/ SetFails(w)
                            \/ SetBump(w) \/ SetBumpUnsaved(w)
  BY <1>4, SetTruncateLog, SetWriteLog, SetFailsLog, SetBumpLog
<1>5. CASE \E w \in Workers : IdentityReplace(w) \/ IdentityFileFails(w)
  BY <1>5, ReplaceLog
<1>6. CASE \E c \in Clients : BoxState(c) \/ BoxList(c)
  BY <1>6, BoxStateLog, BoxListLog
<1>7. CASE \E c \in Clients : IdentityList(c) \/ IdentityState(c)
  BY <1>7, IdentityGetLog
<1>8. CASE OtherSave \/ OtherSaveFails
  BY <1>8, OtherSaveLog
<1>9. CASE UNCHANGED vars
  <2>1. UNCHANGED <<up, boxFile, log, job, view, missed, rewound, strayed, tangled, base>>
    BY <1>9 DEF vars, ghosts
  <2>2. \A w \in Workers : job'[w] = job[w]
    BY <2>1
  <2>3. QED
    BY <2>1, <2>2, GoneFrame, LogFrame
<1>10. QED
  BY <1>1, <1>2, <1>3, <1>4, <1>5, <1>6, <1>7, <1>8, <1>9 DEF Next

(* A client that keeps the mailbox list by Mailbox/changes has the mailboxes *)
(* on file and is told of every other name, and one that keeps it by         *)
(* Mailbox/queryChanges has the same ids, for any clients, threads and       *)
(* requests, though the log is written long after the list: from its first   *)
(* get after sets that overlapped or failed, and after a start that changed  *)
(* the list or found another log, until the next of these.                   *)
THEOREM LogLeadsToList == Spec => []LogExplainsList
<1>1. Init => IInv /\ ListsTyped /\ LogInv
  BY InitIInv, InitLog
<1>2. IInv /\ ListsTyped /\ LogInv /\ [Next]_vars => (IInv /\ ListsTyped /\ LogInv)'
  BY NextIInv, NextLog
<1>3. LogInv => LogExplainsList
  <2>1. SUFFICES ASSUME LogInv, \A w \in Workers : ~InSet(w), NEW c \in Clients, ~Gone(c)
                 PROVE  Replay(view[c]["mailbox"].state, log, Read(boxFile), view[c]["mailbox"].list)
    BY DEF LogExplainsList, Replay, Gone, Missed
  <2>2. ~Unannounced /\ ~tangled
    BY <2>1 DEF Unannounced, InSet, LogInv
  <2>3. QED
    BY <2>1, <2>2 DEF LogInv, Explained
<1>4. QED
  BY <1>1, <1>2, <1>3, PTL DEF Spec

=============================================================================
