--------------------------- MODULE DomainsProofs ----------------------------
(***************************************************************************)
(* Safety of the domain registry and of the DKIM keys, for any domains,    *)
(* identities, configuration, threads and faults.                          *)
(***************************************************************************)
EXTENDS Domains, TLAPS

-----------------------------------------------------------------------------
(* The inductive invariant.                                                *)

TypeOK ==
    /\ phase \in {"down", "starting", "up"}
    /\ gates \in [Static -> SUBSET Gates]
    /\ dynamic \subseteq Custom /\ served \subseteq Account
    /\ file \in [Custom -> {Absent, Torn, "whole"}]
    /\ key \in [Dirs -> {Absent, Torn} \cup Key]
    /\ accounts \subseteq Account
    /\ minted \in 0 .. MaxKeys
    /\ job \in [Threads -> Job]
    /\ proof \subseteq Custom
    /\ published \in [Domain -> SUBSET Key]
    /\ shown \in [Domain -> {None} \cup Key]
    /\ knows \subseteq Dids \X Domain
    /\ registered \subseteq Custom /\ struck \subseteq Custom /\ kept \subseteq Account
    /\ unread \subseteq Custom /\ unopened \subseteq Account

\* A request is handled while the relay runs, and at no other time.
Quiet == phase # "up" => \A t \in Threads : job[t] = Idle

\* What a request is about: one that adds a domain has its directory in the registry and an
\* identity; one that makes a key has it in hand.
JobFits(t) ==
    /\ job[t].pc # "idle" => job[t].dir \in Dirs
    /\ job[t].pc \in {"truncate", "write"} => job[t].did # None
    /\ job[t].did # None => job[t].dir \in {"registry"} \X Custom
    /\ job[t].pc \in {"create", "fill"} => job[t].key \in Key

\* The disk has the domain, or a request is about to write it, or it was struck.
Firm(c) ==
    \/ file[c] = "whole"
    \/ c \in struck
    \/ \E t \in Threads : job[t].pc = "write" /\ job[t].dir[2] = c

\* A request that has written the file of its domain and not answered.
Added(t) == job[t].did # None /\ job[t].pc \in {"load", "create", "fill"}

\* Every domain that was answered as added, or is about to be, is firm on disk and, while the
\* relay runs, in the registry in memory, unless the start could not read it.
Remembered ==
    /\ \A c \in registered : Firm(c)
    /\ \A t \in Threads : Added(t) => Firm(job[t].dir[2]) /\ job[t].dir[2] \in dynamic
    /\ phase # "down" => registered \ unread \subseteq dynamic

\* The accounts every start has to keep have a hash and a domain that is not forgotten.
KeptStay ==
    /\ kept \subseteq {a \in accounts : a.hash /\ a.domain \in Static \cup (registered \ unread)}
    /\ phase = "up" => kept \ unopened \subseteq served

\* One thread at a time fills a key file, which is torn until then.
OneFills ==
    \A t \in Threads : job[t].pc = "fill" =>
        /\ key[job[t].dir] = Torn
        /\ \A u \in Threads : job[u].pc = "fill" /\ job[u].dir = job[t].dir => u = t

\* The directory whose key the owner of d is shown.
ShownDir(d) == IF d \in Custom THEN <<"registry", d>> ELSE <<"mail", d>>

\* What was shown is on disk, and what was published was shown.
ShownStands(d) ==
    /\ shown[d] # None => shown[d] = key[ShownDir(d)]
    /\ published[d] # {} => shown[d] # None /\ published[d] = {shown[d]}

IInv ==
    /\ TypeOK
    /\ Quiet
    /\ \A t \in Threads : JobFits(t)
    /\ Remembered
    /\ KeptStay
    /\ OneFills
    /\ \A d \in Domain : ShownStands(d)

-----------------------------------------------------------------------------
(* What every step keeps in its type.                                    *)

\* A key directory is of the registry, for a domain its owner added, or of a domain's mail.
LEMMA DirsAre ==
    /\ \A dir \in Dirs : \/ dir[2] \in Custom /\ dir = <<"registry", dir[2]>>
                         \/ dir[2] \in Domain /\ dir = <<"mail", dir[2]>>
    /\ \A c \in Custom : <<"registry", c>> \in Dirs
    /\ \A d \in Domain : <<"mail", d>> \in Dirs
    /\ \A d \in Domain : ShownDir(d) \in Dirs
    /\ \A c \in Custom : ShownDir(c) = <<"registry", c>>
    /\ \A d \in Static : ShownDir(d) = <<"mail", d>>
    /\ Custom \subseteq Domain
  BY DomainsAssumption DEF Dirs, Domain, ShownDir

LEMMA RegistryDir ==
    ASSUME NEW dir \in {"registry"} \X Custom
    PROVE  dir[2] \in Custom /\ dir = <<"registry", dir[2]>>
  OBVIOUS

\* A request that goes on is a request.
LEMMA GoesOnTyped ==
    ASSUME TypeOK, NEW u \in Threads, NEW k \in {None} \cup Key,
           NEW pc \in {"idle", "truncate", "write", "load", "create", "fill"}
    PROVE  /\ [job EXCEPT ![u].pc = pc] \in [Threads -> Job]
           /\ [job EXCEPT ![u].pc = pc, ![u].key = k] \in [Threads -> Job]
<1>1. job[u] \in Job
  BY DEF TypeOK
<1>2. /\ [job[u] EXCEPT !.pc = pc] \in Job
      /\ [job[u] EXCEPT !.pc = pc, !.key = k] \in Job
  BY <1>1 DEF Job
<1>3. /\ [job EXCEPT ![u].pc = pc] = [job EXCEPT ![u] = [job[u] EXCEPT !.pc = pc]]
      /\ [job EXCEPT ![u].pc = pc, ![u].key = k]
             = [job EXCEPT ![u] = [job[u] EXCEPT !.pc = pc, !.key = k]]
  BY DEF TypeOK
<1>4. QED
  BY <1>2, <1>3 DEF TypeOK

\* An answer shows the record, if any, to the owner of a domain of the registry.
LEMMA AnswerShows ==
    ASSUME TypeOK, NEW u \in Threads, JobFits(u), job[u].dir \in Dirs,
           NEW record \in {None} \cup Key, Answer(u, record)
    PROVE  /\ shown' \in [Domain -> {None} \cup Key]
           /\ job' \in [Threads -> Job]
           /\ knows' \subseteq Dids \X Domain /\ registered' \subseteq Custom
           /\ \A d \in Domain : \/ shown'[d] = shown[d]
                                \/ shown'[d] = record /\ record # None
                                   /\ job[u].dir = ShownDir(d)
<1>1. job[u] \in Job /\ Idle \in Job
  BY DEF TypeOK, Job, Idle
<1>2. job' \in [Threads -> Job]
  BY <1>1 DEF Answer, TypeOK
<1>3. job[u].did \in {None} \cup Dids
  BY <1>1 DEF Job
<1>4. knows' \subseteq Dids \X Domain /\ registered' \subseteq Custom
  BY <1>3, DirsAre DEF Answer, TypeOK, JobFits
<1>5. CASE job[u].dir[1] = "registry" /\ record # None
  <2>1. job[u].dir[2] \in Custom /\ job[u].dir = ShownDir(job[u].dir[2])
    BY <1>5, DirsAre
  <2>2. shown' = [shown EXCEPT ![job[u].dir[2]] = record]
    BY <1>5 DEF Answer
  <2>3. job[u].dir[2] \in Domain /\ shown' \in [Domain -> {None} \cup Key]
    BY <2>1, <2>2, DirsAre DEF TypeOK
  <2>4. ASSUME NEW d \in Domain
        PROVE  \/ shown'[d] = shown[d]
               \/ shown'[d] = record /\ record # None /\ job[u].dir = ShownDir(d)
    BY <1>5, <2>1, <2>2, <2>3 DEF TypeOK
  <2>5. QED
    BY <1>2, <1>4, <2>3, <2>4
<1>6. CASE ~ (job[u].dir[1] = "registry" /\ record # None)
  BY <1>2, <1>4, <1>6 DEF Answer, TypeOK
<1>7. QED
  BY <1>5, <1>6

\* What a crash may leave of the keys: one that was being made is torn.
LEMMA CrashTears ==
    ASSUME Crash
    PROVE  \/ key' = key
           \/ \E d \in Static : key[<<"mail", d>>] = Absent
                                /\ key' = [key EXCEPT ![<<"mail", d>>] = Torn]
  BY DEF Crash

-----------------------------------------------------------------------------
(* One lemma for each action.                                              *)

LEMMA ShowProofIInv ==
    ASSUME IInv, NEW c \in Custom, ShowProof(c)
    PROVE  IInv'
<1> USE DomainsAssumption DEF IInv
<1>1. TypeOK'
  BY DEF ShowProof, memory, disk, ghosts, bounds, TypeOK, Job, Idle, JobFits, Dirs, Domain,
         Account
<1>2. Quiet' /\ \A t \in Threads : JobFits(t)'
  BY DEF ShowProof, memory, disk, ghosts, bounds, Quiet, TypeOK, Idle, JobFits, Job, Dirs,
         Domain
<1>3. Remembered' /\ KeptStay'
  BY DEF ShowProof, memory, disk, ghosts, bounds, Remembered, Firm, Added, Quiet, TypeOK,
         JobFits, Idle, Job, KeptStay, Known, Account
<1>4. OneFills' /\ \A d \in Domain : ShownStands(d)'
  BY DEF ShowProof, memory, disk, ghosts, bounds, OneFills, TypeOK, Quiet, JobFits, Job, Idle,
         Dirs, Domain, ShownStands, ShownDir
<1>5. QED
  BY <1>1, <1>2, <1>3, <1>4

LEMMA PublishIInv ==
    ASSUME IInv, NEW e \in Domain, Publish(e)
    PROVE  IInv'
<1> USE DomainsAssumption DEF IInv
<1>1. TypeOK'
  BY DEF Publish, memory, disk, ghosts, bounds, TypeOK, Job, Idle, JobFits, Dirs, Domain,
         Account
<1>2. Quiet' /\ \A t \in Threads : JobFits(t)'
  BY DEF Publish, memory, disk, ghosts, bounds, Quiet, TypeOK, Idle, JobFits, Job, Dirs, Domain
<1>3. Remembered' /\ KeptStay'
  BY DEF Publish, memory, disk, ghosts, bounds, Remembered, Firm, Added, Quiet, TypeOK, JobFits,
         Idle, Job, KeptStay, Known, Account
<1>4. OneFills' /\ \A d \in Domain : ShownStands(d)'
  BY DEF Publish, memory, disk, ghosts, bounds, OneFills, TypeOK, Quiet, JobFits, Job, Idle,
         Dirs, Domain, ShownStands, ShownDir
<1>5. QED
  BY <1>1, <1>2, <1>3, <1>4

LEMMA AskTokenIInv ==
    ASSUME IInv, NEW u \in Threads, NEW c \in Custom, AskToken(u, c)
    PROVE  IInv'
<1> USE DomainsAssumption DEF IInv
<1>1. TypeOK'
  <2>1. job' \in [Threads -> Job]
    BY DirsAre DEF AskToken, Begin, memory, disk, world, ghosts, bounds, TypeOK, Job, Idle,
                   JobFits
  <2>2. QED
    BY <2>1, DirsAre DEF AskToken, Begin, memory, disk, world, ghosts, bounds, TypeOK, JobFits,
                         Domain
<1>2. Quiet' /\ \A t \in Threads : JobFits(t)'
  BY DEF AskToken, Begin, memory, disk, world, ghosts, bounds, Quiet, TypeOK, Idle, JobFits,
         Job, Dirs, Domain
<1>3. Remembered' /\ KeptStay'
  BY DEF AskToken, Begin, memory, disk, world, ghosts, bounds, Remembered, Firm, Added, Quiet,
         TypeOK, JobFits, Idle, Job, KeptStay, Known, Account
<1>4. OneFills' /\ \A d \in Domain : ShownStands(d)'
  BY DEF AskToken, Begin, memory, disk, world, ghosts, bounds, OneFills, TypeOK, Quiet, JobFits,
         Job, Idle, Dirs, Domain, ShownStands, ShownDir
<1>5. QED
  BY <1>1, <1>2, <1>3, <1>4

LEMMA AddDomainIInv ==
    ASSUME IInv, NEW u \in Threads, NEW did \in Dids, NEW c \in Custom, AddDomain(u, did, c)
    PROVE  IInv'
<1> USE DomainsAssumption DEF IInv
<1>1. TypeOK'
  <2>1. job' \in [Threads -> Job]
    BY DirsAre DEF AddDomain, Begin, memory, disk, world, ghosts, bounds, TypeOK, Job, Idle, JobFits
  <2>2. QED
    BY <2>1, DirsAre DEF AddDomain, Begin, memory, disk, world, ghosts, bounds, TypeOK, JobFits, Domain
<1>2. Quiet' /\ \A t \in Threads : JobFits(t)'
  BY DEF AddDomain, Begin, memory, disk, world, ghosts, bounds, Quiet, TypeOK, Idle, JobFits, Job, Dirs,
         Domain
<1>3. Remembered' /\ KeptStay'
  <2>1. Remembered'
    BY DEF AddDomain, Begin, memory, disk, world, ghosts, bounds, Remembered, Firm, Added, Quiet, TypeOK,
           JobFits, Idle, Job
  <2>2. KeptStay'
    BY DEF AddDomain, Begin, memory, disk, world, ghosts, bounds, KeptStay, Known, Account, TypeOK,
           Remembered
  <2>3. QED
    BY <2>1, <2>2
<1>4. OneFills' /\ \A d \in Domain : ShownStands(d)'
  BY DEF AddDomain, Begin, memory, disk, world, ghosts, bounds, OneFills, TypeOK, Quiet, JobFits, Job,
         Idle, Dirs, Domain, ShownStands, ShownDir
<1>5. QED
  BY <1>1, <1>2, <1>3, <1>4

LEMMA SignIInv ==
    ASSUME IInv, NEW u \in Threads, NEW e \in Domain, Sign(u, e)
    PROVE  IInv'
<1> USE DomainsAssumption DEF IInv
<1>1. TypeOK'
  <2>1. job' \in [Threads -> Job]
    BY DirsAre DEF Sign, Begin, memory, disk, world, ghosts, bounds, TypeOK, Job, Idle, JobFits
  <2>2. QED
    BY <2>1, DirsAre DEF Sign, Begin, memory, disk, world, ghosts, bounds, TypeOK, JobFits,
                         Domain
<1>2. Quiet' /\ \A t \in Threads : JobFits(t)'
  BY DEF Sign, Begin, memory, disk, world, ghosts, bounds, Quiet, TypeOK, Idle, JobFits, Job,
         Dirs, Domain
<1>3. Remembered' /\ KeptStay'
  BY DEF Sign, Begin, memory, disk, world, ghosts, bounds, Remembered, Firm, Added, Quiet,
         TypeOK, JobFits, Idle, Job, KeptStay, Known, Account
<1>4. OneFills' /\ \A d \in Domain : ShownStands(d)'
  BY DEF Sign, Begin, memory, disk, world, ghosts, bounds, OneFills, TypeOK, Quiet, JobFits,
         Job, Idle, Dirs, Domain, ShownStands, ShownDir
<1>5. QED
  BY <1>1, <1>2, <1>3, <1>4

LEMMA TruncateFileIInv ==
    ASSUME IInv, NEW u \in Threads, TruncateFile(u)
    PROVE  IInv'
<1> USE DomainsAssumption DEF IInv
<1>1. TypeOK'
  <2>1. job' \in [Threads -> Job]
    BY GoesOnTyped DEF TruncateFile
  <2>2. QED
    BY <2>1, DirsAre DEF TruncateFile, memory, world, ghosts, bounds, TypeOK, JobFits, Domain
<1>2. Quiet' /\ \A t \in Threads : JobFits(t)'
  BY DEF TruncateFile, memory, world, ghosts, bounds, Quiet, TypeOK, Idle, JobFits, Job, Dirs,
         Domain
<1>3. Remembered' /\ KeptStay'
  BY DEF TruncateFile, memory, world, ghosts, bounds, Remembered, Firm, Added, Quiet, TypeOK,
         JobFits, Idle, Job, KeptStay, Known, Account
<1>4. OneFills'
  BY DEF TruncateFile, memory, world, ghosts, bounds, OneFills, TypeOK, Quiet, JobFits, Job,
         Idle, Dirs, Domain
<1>5. \A d \in Domain : ShownStands(d)'
  BY DEF TruncateFile, memory, world, ghosts, bounds, ShownStands, ShownDir, OneFills, JobFits,
         TypeOK, Dirs, Domain
<1>6. QED
  BY <1>1, <1>2, <1>3, <1>4, <1>5

LEMMA WriteFileIInv ==
    ASSUME IInv, NEW u \in Threads, WriteFile(u)
    PROVE  IInv'
<1> USE DomainsAssumption DEF IInv
<1>1. TypeOK'
  <2>1. job' \in [Threads -> Job]
    BY GoesOnTyped DEF WriteFile
  <2>2. QED
    BY <2>1, DirsAre DEF WriteFile, world, bounds, TypeOK, JobFits, Domain
<1>2. Quiet' /\ \A t \in Threads : JobFits(t)'
  BY DEF WriteFile, world, bounds, Quiet, TypeOK, Idle, JobFits, Job, Dirs, Domain
<1>3. Remembered'
  <2>1. job[u].did # None /\ phase = "up"
    <3>1. job[u].pc = "write"
      BY DEF WriteFile
    <3>2. job[u].did # None
      BY <3>1 DEF JobFits
    <3>3. phase = "up"
      BY <3>1 DEF Quiet, Idle
    <3>4. QED
      BY <3>2, <3>3
  <2>2. PICK d \in Custom : job[u].dir = <<"registry", d>>
    <3>1. job[u].dir \in {"registry"} \X Custom
      BY <2>1 DEF JobFits
    <3>2. job[u].dir[2] \in Custom /\ job[u].dir = <<"registry", job[u].dir[2]>>
      BY <3>1, RegistryDir
    <3>3. QED
      BY <3>2
  <2>3. file' = [file EXCEPT ![d] = "whole"] /\ dynamic' = dynamic \cup {d}
        /\ struck' = struck \ {d} /\ registered' = registered /\ phase' = phase
        /\ unread' = unread
    BY <2>2 DEF WriteFile
  <2>4. \A t \in Threads : /\ job'[t].dir = job[t].dir /\ job'[t].did = job[t].did
                           /\ job'[t].pc = IF t = u THEN "load" ELSE job[t].pc
    BY DEF WriteFile, TypeOK, Job
  <2>5. \A c \in Custom : c = d \/ Firm(c) => Firm(c)'
    BY <2>2, <2>3, <2>4 DEF Firm, TypeOK
  <2>6. ASSUME NEW t \in Threads, Added(t)'
        PROVE  Firm(job[t].dir[2])' /\ (job[t].dir[2] \in dynamic)'
    <3>1. t = u \/ Added(t)
      BY <2>4, <2>6 DEF Added
    <3>2. PICK c \in Custom : job'[t].dir = <<"registry", c>> /\ job[t].dir = <<"registry", c>>
      <4>1. job[t].dir \in {"registry"} \X Custom
        BY <2>4, <2>6 DEF Added, JobFits
      <4>2. QED
        BY <2>4, <4>1
    <3>3. Firm(c)' /\ c \in dynamic'
      BY <2>2, <2>3, <2>5, <3>1, <3>2 DEF Remembered, Firm
    <3>4. QED
      BY <3>2, <3>3 DEF Firm
  <2>7. \A c \in registered' : Firm(c)'
    BY <2>3, <2>5 DEF Remembered, TypeOK
  <2>8. QED
    BY <2>1, <2>3, <2>6, <2>7 DEF Remembered
<1>4. KeptStay'
  BY DEF WriteFile, world, bounds, KeptStay, Remembered, TypeOK, Known, Account
<1>5. OneFills' /\ \A d \in Domain : ShownStands(d)'
  BY DEF WriteFile, world, bounds, OneFills, TypeOK, Quiet, JobFits, Job, Idle, Dirs, Domain,
         ShownStands, ShownDir
<1>6. QED
  BY <1>1, <1>2, <1>3, <1>4, <1>5

LEMMA FileFailsIInv ==
    ASSUME IInv, NEW u \in Threads, FileFails(u)
    PROVE  IInv'
<1> USE DomainsAssumption DEF IInv
<1>1. TypeOK'
  <2>1. job' \in [Threads -> Job]
    BY DirsAre DEF FileFails, memory, disk, world, TypeOK, Job, Idle, JobFits
  <2>2. QED
    BY <2>1, DirsAre DEF FileFails, memory, disk, world, TypeOK, JobFits, Domain
<1>2. Quiet' /\ \A t \in Threads : JobFits(t)'
  BY DEF FileFails, memory, disk, world, Quiet, TypeOK, Idle, JobFits, Job, Dirs, Domain
<1>3. Remembered' /\ KeptStay'
  BY DEF FileFails, memory, disk, world, Remembered, Firm, Added, Quiet, TypeOK, JobFits, Idle,
         Job, KeptStay, Known, Account
<1>4. OneFills' /\ \A d \in Domain : ShownStands(d)'
  BY DEF FileFails, memory, disk, world, OneFills, TypeOK, Quiet, JobFits, Job, Idle, Dirs,
         Domain, ShownStands, ShownDir
<1>5. QED
  BY <1>1, <1>2, <1>3, <1>4

LEMMA LoadKeyIInv ==
    ASSUME IInv, NEW u \in Threads, LoadKey(u)
    PROVE  IInv'
<1> USE DomainsAssumption DEF IInv
<1>1. TypeOK'
  <2>1. key[job[u].dir] \in {None} \cup Key /\ job[u].dir \in Dirs
    BY DEF LoadKey, JobFits
  <2>2. QED
    BY <2>1, AnswerShows DEF LoadKey, Answer, memory, disk, world, bounds, TypeOK
<1>2. Quiet' /\ \A t \in Threads : JobFits(t)'
  BY DEF LoadKey, Answer, memory, disk, world, bounds, Quiet, TypeOK, Idle, JobFits, Job, Dirs,
         Domain
<1>3. Remembered' /\ KeptStay'
  BY DEF LoadKey, Answer, memory, disk, world, bounds, Remembered, Firm, Added, Quiet, TypeOK,
         JobFits, Idle, Job, KeptStay, Known, Account
<1>4. OneFills'
  BY DEF LoadKey, Answer, memory, disk, world, bounds, OneFills, TypeOK, Quiet, JobFits, Job,
         Idle, Dirs, Domain
<1>5. \A d \in Domain : ShownStands(d)'
  <2>1. key[job[u].dir] \in Key /\ job[u].dir \in Dirs
    BY DEF LoadKey, JobFits
  <2>2. \A d \in Domain : shown'[d] = shown[d] \/ shown'[d] = key[ShownDir(d)]
    BY <2>1, AnswerShows DEF LoadKey
  <2>3. \A d \in Domain : shown'[d] = shown[d] \/ shown[d] = None
    BY <2>2 DEF ShownStands
  <2>4. QED
    BY <2>2, <2>3 DEF LoadKey, Answer, memory, disk, world, bounds, ShownStands, ShownDir
<1>6. QED
  BY <1>1, <1>2, <1>3, <1>4, <1>5

LEMMA GenerateIInv ==
    ASSUME IInv, NEW u \in Threads, Generate(u)
    PROVE  IInv'
<1> USE DomainsAssumption DEF IInv
<1>1. TypeOK'
  <2>1. minted' \in Key
    BY DEF Generate, TypeOK, Key
  <2>2. job' \in [Threads -> Job]
    BY <2>1, GoesOnTyped DEF Generate
  <2>3. QED
    BY <2>1, <2>2 DEF Generate, Key, memory, disk, world, ghosts, bounds, TypeOK
<1>2. Quiet' /\ \A t \in Threads : JobFits(t)'
  BY DEF Generate, Key, memory, disk, world, ghosts, bounds, Quiet, TypeOK, Idle, JobFits, Job,
         Dirs, Domain
<1>3. Remembered'
  <2>1. /\ UNCHANGED <<file, struck, registered, unread, dynamic, phase>>
        /\ \A t \in Threads : job'[t].did = job[t].did /\ job'[t].dir = job[t].dir
        /\ \A t \in Threads : job[t].pc = "write" <=> job'[t].pc = "write"
        /\ \A t \in Threads : Added(t)' => Added(t)
    BY DEF Generate, memory, disk, world, ghosts, bounds, Added, TypeOK, Idle, Job
  <2>2. QED
    BY <2>1 DEF Remembered, Firm
<1>4. KeptStay'
  BY DEF Generate, Key, memory, disk, world, ghosts, bounds, KeptStay, Remembered, TypeOK,
         Known, Account
<1>5. OneFills' /\ \A d \in Domain : ShownStands(d)'
  BY DEF Generate, Key, memory, disk, world, ghosts, bounds, OneFills, TypeOK, Quiet, JobFits,
         Job, Idle, Dirs, Domain, ShownStands, ShownDir
<1>6. QED
  BY <1>1, <1>2, <1>3, <1>4, <1>5

LEMMA CreateKeyIInv ==
    ASSUME IInv, NEW u \in Threads, CreateKey(u)
    PROVE  IInv'
<1> USE DomainsAssumption DEF IInv
<1>1. TypeOK'
  <2>1. job' \in [Threads -> Job]
    BY GoesOnTyped DEF CreateKey
  <2>2. QED
    BY <2>1, DirsAre DEF CreateKey, memory, world, ghosts, bounds, TypeOK, JobFits, Domain
<1>2. Quiet' /\ \A t \in Threads : JobFits(t)'
  BY DEF CreateKey, memory, world, ghosts, bounds, Quiet, TypeOK, Idle, JobFits, Job, Dirs,
         Domain
<1>3. Remembered' /\ KeptStay'
  <2>1. /\ UNCHANGED <<file, struck, registered, unread, dynamic, phase>>
        /\ \A t \in Threads : job'[t].did = job[t].did /\ job'[t].dir = job[t].dir
        /\ \A t \in Threads : job[t].pc = "write" <=> job'[t].pc = "write"
        /\ \A t \in Threads : Added(t)' => Added(t)
    BY DEF CreateKey, memory, world, ghosts, bounds, Added, TypeOK, Idle, Job
  <2>2. Remembered'
    BY <2>1 DEF Remembered, Firm
  <2>3. KeptStay'
    BY DEF CreateKey, memory, world, ghosts, bounds, KeptStay, TypeOK, Account
  <2>4. QED
    BY <2>2, <2>3
<1>4. OneFills'
  <2>1. job[u].dir \in Dirs /\ key[job[u].dir] = Absent
    BY DEF CreateKey, JobFits
  <2>2. \A t \in Threads : /\ job'[t].dir = job[t].dir
                           /\ job'[t].pc = "fill" => t = u \/ job[t].pc = "fill"
                           /\ job[t].pc = "fill" => job[t].dir # job[u].dir
    BY <2>1, DomainsAssumption DEF CreateKey, TypeOK, Job, OneFills
  <2>3. \A dir \in Dirs : key'[dir] = IF dir = job[u].dir THEN Torn ELSE key[dir]
    BY <2>1 DEF CreateKey, TypeOK
  <2>4. \A t \in Threads : job[t].pc = "fill" => job[t].dir \in Dirs
    BY DEF JobFits
  <2>5. QED
    BY <2>1, <2>2, <2>3, <2>4 DEF OneFills
<1>5. \A d \in Domain : ShownStands(d)'
  <2>1. job[u].dir \in Dirs /\ key[job[u].dir] = Absent
    BY DEF CreateKey, JobFits
  <2>2. ASSUME NEW d \in Domain
        PROVE  ShownStands(d)'
    <3>1. CASE job[u].dir = ShownDir(d)
      <4>1. shown[d] = None /\ published[d] = {}
        BY <2>1, <3>1, DomainsAssumption DEF ShownStands, TypeOK
      <4>2. QED
        BY <4>1 DEF CreateKey, world, ShownStands
    <3>2. CASE job[u].dir # ShownDir(d)
      <4>1. key'[ShownDir(d)] = key[ShownDir(d)]
        BY <2>1, <3>2, DirsAre DEF CreateKey, TypeOK
      <4>2. QED
        BY <4>1 DEF CreateKey, world, ShownStands, ShownDir
    <3>3. QED
      BY <3>1, <3>2
  <2>3. QED
    BY <2>2
<1>6. QED
  BY <1>1, <1>2, <1>3, <1>4, <1>5

LEMMA KeyExistsIInv ==
    ASSUME IInv, NEW u \in Threads, KeyExists(u)
    PROVE  IInv'
<1> USE DomainsAssumption DEF IInv
<1>1. TypeOK'
  <2>1. None \in {None} \cup Key /\ job[u].dir \in Dirs
    BY DEF KeyExists, JobFits
  <2>2. QED
    BY <2>1, AnswerShows DEF KeyExists, Answer, memory, disk, world, bounds, TypeOK
<1>2. Quiet' /\ \A t \in Threads : JobFits(t)'
  BY DEF KeyExists, Answer, memory, disk, world, bounds, Quiet, TypeOK, Idle, JobFits, Job,
         Dirs, Domain
<1>3. Remembered' /\ KeptStay'
  BY DEF KeyExists, Answer, memory, disk, world, bounds, Remembered, Firm, Added, Quiet, TypeOK,
         JobFits, Idle, Job, KeptStay, Known, Account
<1>4. OneFills'
  BY DEF KeyExists, Answer, memory, disk, world, bounds, OneFills, TypeOK, Quiet, JobFits, Job,
         Idle, Dirs, Domain
<1>5. \A d \in Domain : ShownStands(d)'
  <2>1. shown' = shown
    BY DEF KeyExists, Answer
  <2>2. QED
    BY <2>1 DEF KeyExists, Answer, memory, disk, world, bounds, ShownStands
<1>6. QED
  BY <1>1, <1>2, <1>3, <1>4, <1>5

LEMMA FillKeyIInv ==
    ASSUME IInv, NEW u \in Threads, FillKey(u)
    PROVE  IInv'
<1> USE DomainsAssumption DEF IInv
<1>1. TypeOK'
  <2>1. job[u].key \in Key /\ job[u].dir \in Dirs
    BY DEF FillKey, JobFits
  <2>2. QED
    BY <2>1, AnswerShows DEF FillKey, Answer, memory, world, bounds, TypeOK
<1>2. Quiet' /\ \A t \in Threads : JobFits(t)'
  BY DEF FillKey, Answer, memory, world, bounds, Quiet, TypeOK, Idle, JobFits, Job, Dirs, Domain
<1>3. Remembered' /\ KeptStay'
  BY DEF FillKey, Answer, memory, world, bounds, Remembered, Firm, Added, Quiet, TypeOK,
         JobFits, Idle, Job, KeptStay, Known, Account
<1>4. OneFills'
  BY DEF FillKey, Answer, memory, world, bounds, OneFills, TypeOK, Quiet, JobFits, Job, Idle,
         Dirs, Domain
<1>5. \A d \in Domain : ShownStands(d)'
  <2>1. job[u].key \in Key /\ job[u].dir \in Dirs /\ key[job[u].dir] = Torn
    BY DEF FillKey, JobFits, OneFills
  <2>2. ASSUME NEW d \in Domain, job[u].dir = ShownDir(d)
        PROVE  ShownStands(d)'
    <3>1. shown[d] = None /\ published[d] = {}
      BY <2>1, <2>2, DomainsAssumption DEF ShownStands, TypeOK
    <3>2. key'[ShownDir(d)] = job[u].key
      BY <2>1, <2>2 DEF FillKey, TypeOK
    <3>3. shown'[d] \in {None, job[u].key}
      BY <2>1, <3>1, AnswerShows DEF FillKey
    <3>4. QED
      BY <3>1, <3>2, <3>3 DEF FillKey, world, ShownStands, ShownDir
  <2>3. ASSUME NEW d \in Domain, job[u].dir # ShownDir(d)
        PROVE  ShownStands(d)'
    <3>1. shown'[d] = shown[d]
      BY <2>1, <2>3, AnswerShows DEF FillKey
    <3>2. key'[ShownDir(d)] = key[ShownDir(d)]
      BY <2>1, <2>3, DirsAre DEF FillKey, TypeOK
    <3>3. QED
      BY <3>1, <3>2 DEF FillKey, world, ShownStands, ShownDir
  <2>4. QED
    BY <2>2, <2>3
<1>6. QED
  BY <1>1, <1>2, <1>3, <1>4, <1>5

LEMMA FillFailsIInv ==
    ASSUME IInv, NEW u \in Threads, FillFails(u)
    PROVE  IInv'
<1> USE DomainsAssumption DEF IInv
<1>1. TypeOK'
  <2>1. None \in {None} \cup Key /\ job[u].dir \in Dirs
    BY DEF FillFails, JobFits
  <2>2. QED
    BY <2>1, AnswerShows DEF FillFails, Answer, memory, disk, world, TypeOK
<1>2. Quiet' /\ \A t \in Threads : JobFits(t)'
  BY DEF FillFails, Answer, memory, disk, world, Quiet, TypeOK, Idle, JobFits, Job, Dirs, Domain
<1>3. Remembered' /\ KeptStay'
  BY DEF FillFails, Answer, memory, disk, world, Remembered, Firm, Added, Quiet, TypeOK,
         JobFits, Idle, Job, KeptStay, Known, Account
<1>4. OneFills'
  BY DEF FillFails, Answer, memory, disk, world, OneFills, TypeOK, Quiet, JobFits, Job, Idle,
         Dirs, Domain
<1>5. \A d \in Domain : ShownStands(d)'
  <2>1. shown' = shown
    BY DEF FillFails, Answer
  <2>2. QED
    BY <2>1 DEF FillFails, Answer, memory, disk, world, ShownStands
<1>6. QED
  BY <1>1, <1>2, <1>3, <1>4, <1>5

LEMMA ProvisionIInv ==
    ASSUME IInv, NEW did \in Dids, NEW asked \in Domain \cup {None}, Provision(did, asked)
    PROVE  IInv'
<1> USE DomainsAssumption DEF IInv
<1>1. TypeOK'
  <2>1. PICK d \in ResolveDomain(asked) :
              /\ accounts' = accounts \cup {[domain |-> d, did |-> did, hash |-> FALSE]}
              /\ served' = served \cup {[domain |-> d, did |-> did, hash |-> FALSE]}
    BY DEF Provision
  <2>2. d \in Domain
    BY DEF ResolveDomain, Known, TypeOK, Domain
  <2>3. [domain |-> d, did |-> did, hash |-> FALSE] \in Account
    BY <2>2 DEF Account
  <2>4. accounts' \subseteq Account /\ served' \subseteq Account
    BY <2>1, <2>3 DEF TypeOK
  <2>5. QED
    BY <2>4 DEF Provision, world, ghosts, bounds, TypeOK
<1>2. Quiet' /\ \A t \in Threads : JobFits(t)'
  BY DEF Provision, ResolveDomain, MayProvision, DidDomainGate, DomainConfig,
         RegisteredDomainConfig, world, ghosts, bounds, Quiet, TypeOK, Idle, JobFits, Job, Dirs,
         Domain
<1>3. Remembered' /\ KeptStay'
  BY DEF Provision, ResolveDomain, MayProvision, DidDomainGate, DomainConfig,
         RegisteredDomainConfig, world, ghosts, bounds, Remembered, Firm, Added, Quiet, TypeOK,
         JobFits, Idle, Job, KeptStay, Known, Account
<1>4. OneFills' /\ \A d \in Domain : ShownStands(d)'
  BY DEF Provision, ResolveDomain, MayProvision, DidDomainGate, DomainConfig,
         RegisteredDomainConfig, world, ghosts, bounds, OneFills, TypeOK, Quiet, JobFits, Job,
         Idle, Dirs, Domain, ShownStands, ShownDir
<1>5. QED
  BY <1>1, <1>2, <1>3, <1>4

LEMMA BootIInv ==
    ASSUME IInv, NEW missing \in MayFail(Custom), NEW blind \in MayFail(accounts),
           NEW stuck \in MayFail(Domain), Boot(missing, blind, stuck)
    PROVE  IInv'
<1> USE DomainsAssumption DEF IInv
<1>1. TypeOK'
  <2>1. missing \subseteq Custom /\ blind \subseteq accounts
    BY DEF MayFail
  <2>2. accounts' \subseteq Account /\ kept' \subseteq Account
    BY DEF Boot, Spared, TypeOK
  <2>3. dynamic' \subseteq Custom /\ unread' \subseteq Custom /\ unopened' \subseteq Account
    BY <2>1 DEF Boot, Load
  <2>4. key' \in [Dirs -> {Absent, Torn} \cup Key]
    BY DEF Boot, SweptKeys, TypeOK
  <2>5. QED
    BY <2>2, <2>3, <2>4 DEF Boot, world, TypeOK
<1>2. Quiet' /\ \A t \in Threads : JobFits(t)'
  BY DEF Boot, Load, Spared, SweptKeys, world, bounds, Quiet, TypeOK, Idle, JobFits, Job, Dirs,
         Domain
<1>3. Remembered'
  BY DEF Boot, Load, Spared, SweptKeys, world, bounds, Remembered, Firm, Added, Quiet, TypeOK,
         JobFits, Idle, Job
<1>4. KeptStay'
  <2>1. ASSUME NEW a \in kept'
        PROVE  a \in accounts' /\ a.hash /\ a.domain \in Static \cup (registered' \ unread')
    <3>1. a \in accounts /\ a.hash /\ a.domain \in Static \cup registered /\ a.domain \notin struck
      BY DEF Boot, KeptStay
    <3>2. CASE a.domain \in Static
      BY <3>1, <3>2 DEF Boot, Spared, Known
    <3>3. CASE a.domain \in registered
      <4>1. file[a.domain] = "whole"
        BY <3>1, <3>3 DEF Boot, Remembered, Firm, Quiet, Idle
      <4>2. QED
        BY <3>1, <3>3, <4>1 DEF Boot, Spared, Known, Load, TypeOK
    <3>4. QED
      BY <3>1, <3>2, <3>3
  <2>2. QED
    BY <2>1 DEF Boot, KeptStay
<1>5. OneFills'
  BY DEF Boot, Load, Spared, SweptKeys, world, bounds, OneFills, TypeOK, Quiet, JobFits, Job,
         Idle, Dirs, Domain
<1>6. \A d \in Domain : ShownStands(d)'
  <2>1. ASSUME NEW d \in Domain
        PROVE  key'[ShownDir(d)] = key[ShownDir(d)]
    <3>1. CASE d \in Custom
      <4>1. ShownDir(d) \in Dirs /\ ShownDir(d)[1] = "registry"
        BY <3>1, DirsAre
      <4>2. QED
        BY <4>1 DEF Boot, SweptKeys
    <3>2. CASE d \in Static
      <4>1. ShownDir(d) \in Dirs /\ ShownDir(d)[2] = d
        BY <3>2, DirsAre
      <4>2. QED
        BY <3>2, <4>1 DEF Boot, SweptKeys, Known
    <3>3. QED
      BY <3>1, <3>2 DEF Domain
  <2>2. QED
    BY <2>1 DEF Boot, world, ShownStands, ShownDir
<1>7. QED
  BY <1>1, <1>2, <1>3, <1>4, <1>5, <1>6

LEMMA StartKeyIInv ==
    ASSUME IInv, NEW e \in Domain, StartKey(e)
    PROVE  IInv'
<1> USE DomainsAssumption DEF IInv
<1>1. TypeOK'
  <2>1. <<"mail", e>> \in Dirs
    BY DirsAre
  <2>2. key' \in [Dirs -> {Absent, Torn} \cup Key] /\ minted' \in 0 .. MaxKeys
        /\ key'[<<"mail", e>>] \in Key
    BY <2>1 DEF StartKey, TypeOK, Key
  <2>3. shown' \in [Domain -> {None} \cup Key]
    BY <2>2 DEF StartKey, TypeOK
  <2>4. QED
    BY <2>2, <2>3 DEF StartKey, memory, world, ghosts, bounds, TypeOK
<1>2. Quiet' /\ \A t \in Threads : JobFits(t)'
  BY DEF StartKey, memory, world, ghosts, bounds, Quiet, TypeOK, Idle, JobFits, Job, Dirs,
         Domain
<1>3. Remembered' /\ KeptStay'
  BY DEF StartKey, memory, world, ghosts, bounds, Remembered, Firm, Added, Quiet, TypeOK,
         JobFits, Idle, Job, KeptStay, Known, Account
<1>4. OneFills'
  BY DEF StartKey, memory, world, ghosts, bounds, OneFills, TypeOK, Quiet, JobFits, Job, Idle,
         Dirs, Domain
<1>5. \A d \in Domain : ShownStands(d)'
  <2>1. <<"mail", e>> \in Dirs /\ ShownDir(e) = <<"mail", e>>
    BY DirsAre DEF StartKey
  <2>2. \/ key' = key /\ key[ShownDir(e)] \in Key
        \/ key[ShownDir(e)] = Absent /\ key' = [key EXCEPT ![ShownDir(e)] = minted']
    BY <2>1 DEF StartKey
  <2>3. shown' = [shown EXCEPT ![e] = key'[ShownDir(e)]] /\ published' = published
    BY <2>1 DEF StartKey, world
  <2>4. ShownStands(e)'
    <3>1. shown[e] = None => published[e] = {}
      BY DEF ShownStands
    <3>2. key'[ShownDir(e)] = key[ShownDir(e)] \/ shown[e] = None
      BY <2>2, DomainsAssumption DEF ShownStands, TypeOK
    <3>3. shown'[e] = key'[ShownDir(e)]
      BY <2>3 DEF TypeOK
    <3>4. QED
      BY <2>3, <3>1, <3>2, <3>3 DEF ShownStands, ShownDir
  <2>5. ASSUME NEW d \in Domain \ {e}
        PROVE  ShownStands(d)'
    <3>1. ShownDir(d) # ShownDir(e) /\ ShownDir(d) \in Dirs
      BY <2>1, DirsAre DEF Domain
    <3>2. key'[ShownDir(d)] = key[ShownDir(d)] /\ shown'[d] = shown[d]
      BY <2>2, <2>3, <3>1 DEF TypeOK
    <3>3. QED
      BY <2>3, <3>2 DEF ShownStands, ShownDir
  <2>6. QED
    BY <2>4, <2>5
<1>6. QED
  BY <1>1, <1>2, <1>3, <1>4, <1>5

LEMMA ReadyIInv ==
    ASSUME IInv, NEW closed \in MayFail(accounts), Ready(closed)
    PROVE  IInv'
<1> USE DomainsAssumption DEF IInv
<1>1. TypeOK'
  <2>1. unopened' \subseteq Account /\ served' \subseteq Account
    BY DEF Ready, MayFail, TypeOK
  <2>2. QED
    BY <2>1 DEF Ready, disk, world, TypeOK
<1>2. Quiet' /\ \A t \in Threads : JobFits(t)'
  BY DEF Ready, Known, disk, world, ghosts, bounds, Quiet, TypeOK, Idle, JobFits, Job, Dirs,
         Domain
<1>3. Remembered' /\ KeptStay'
  <2>1. Remembered'
    BY DEF Ready, disk, Remembered, Firm, Added
  <2>2. ASSUME NEW a \in kept'
        PROVE  /\ a \in accounts' /\ a.hash /\ a.domain \in Static \cup (registered' \ unread')
               /\ a \notin unopened' => a \in served'
    <3>1. a \in accounts /\ a.hash /\ a.domain \in Static \cup (registered \ unread)
      BY DEF Ready, KeptStay
    <3>2. a.domain \in Static \cup dynamic
      BY <3>1 DEF Ready, Remembered
    <3>3. QED
      BY <3>1, <3>2 DEF Ready, disk, Known
  <2>3. QED
    BY <2>1, <2>2 DEF KeptStay
<1>4. OneFills' /\ \A d \in Domain : ShownStands(d)'
  BY DEF Ready, Known, disk, world, ghosts, bounds, OneFills, TypeOK, Quiet, JobFits, Job, Idle,
         Dirs, Domain, ShownStands, ShownDir
<1>5. QED
  BY <1>1, <1>2, <1>3, <1>4

LEMMA CrashIInv ==
    ASSUME IInv, Crash
    PROVE  IInv'
<1> USE DomainsAssumption DEF IInv
<1>1. TypeOK'
  <2>1. key' \in [Dirs -> {Absent, Torn} \cup Key]
    BY CrashTears DEF TypeOK
  <2>2. \A t \in Threads : job[t].pc = "write" => job[t].dir[2] \in Custom
    BY DirsAre DEF JobFits
  <2>3. struck' \subseteq Custom
    BY <2>2 DEF Crash, TypeOK
  <2>4. job' \in [Threads -> Job]
    BY DEF Crash, Job, Idle
  <2>5. QED
    BY <2>1, <2>3, <2>4 DEF Crash, world, TypeOK
<1>2. Quiet' /\ \A t \in Threads : JobFits(t)'
  BY DEF Crash, world, Quiet, TypeOK, Idle, JobFits, Job, Dirs, Domain
<1>3. Remembered'
  BY DEF Crash, world, Remembered, Firm, Added, Quiet, TypeOK, JobFits, Idle, Job
<1>4. KeptStay'
  BY DEF Crash, world, KeptStay, Remembered, TypeOK, Known, Account
<1>5. OneFills'
  BY DEF Crash, world, OneFills, TypeOK, Quiet, JobFits, Job, Idle, Dirs, Domain
<1>6. \A d \in Domain : ShownStands(d)'
  <2>1. ASSUME NEW d \in Domain
        PROVE  ShownStands(d)'
    <3>1. key'[ShownDir(d)] = key[ShownDir(d)] \/ key[ShownDir(d)] = Absent
      BY CrashTears, DirsAre DEF TypeOK
    <3>2. shown[d] # None => key'[ShownDir(d)] = key[ShownDir(d)]
      BY <3>1, DomainsAssumption DEF ShownStands, TypeOK
    <3>3. QED
      BY <3>2 DEF Crash, world, ShownStands, ShownDir
  <2>2. QED
    BY <2>1
<1>7. QED
  BY <1>1, <1>2, <1>3, <1>4, <1>5, <1>6

-----------------------------------------------------------------------------
LEMMA InitIInv == Init => IInv
<1> SUFFICES ASSUME Init PROVE IInv
  OBVIOUS
<1> USE DomainsAssumption
<1>1. TypeOK
  BY DEF Init, TypeOK, Job, Idle, Domain
<1>2. Quiet /\ \A t \in Threads : JobFits(t)
  BY DEF Init, Quiet, JobFits, Idle
<1>3. Remembered /\ KeptStay
  BY DEF Init, Remembered, Firm, Added, KeptStay, Idle, Known
<1>4. OneFills /\ \A d \in Domain : ShownStands(d)
  BY DEF Init, OneFills, Idle, ShownStands
<1>5. QED
  BY <1>1, <1>2, <1>3, <1>4 DEF IInv

LEMMA NextIInv == IInv /\ [Next]_vars => IInv'
<1> SUFFICES ASSUME IInv, [Next]_vars
             PROVE  IInv'
  OBVIOUS
<1>1. CASE \/ \E missing \in MayFail(Custom), blind \in MayFail(accounts),
              stuck \in MayFail(Domain) : Boot(missing, blind, stuck)
           \/ \E closed \in MayFail(accounts) : Ready(closed)
           \/ Crash
  BY <1>1, BootIInv, ReadyIInv, CrashIInv
<1>2. ASSUME NEW d \in Domain, Publish(d) \/ StartKey(d)
      PROVE  IInv'
  BY <1>2, PublishIInv, StartKeyIInv
<1>3. ASSUME NEW c \in Custom, ShowProof(c)
      PROVE  IInv'
  BY <1>3, ShowProofIInv
<1>4. ASSUME NEW did \in Dids, NEW asked \in Domain \cup {None}, Provision(did, asked)
      PROVE  IInv'
  BY <1>4, ProvisionIInv
<1>5. ASSUME NEW t \in Threads,
             \/ \E c \in Custom : AskToken(t, c)
             \/ \E c \in Custom, did \in Dids : AddDomain(t, did, c)
             \/ \E d \in Domain : Sign(t, d)
      PROVE  IInv'
  BY <1>5, AskTokenIInv, AddDomainIInv, SignIInv
<1>6. ASSUME NEW t \in Threads, TruncateFile(t) \/ WriteFile(t) \/ FileFails(t)
      PROVE  IInv'
  BY <1>6, TruncateFileIInv, WriteFileIInv, FileFailsIInv
<1>7. ASSUME NEW t \in Threads,
             LoadKey(t) \/ Generate(t) \/ CreateKey(t) \/ KeyExists(t) \/ FillKey(t) \/ FillFails(t)
      PROVE  IInv'
  BY <1>7, LoadKeyIInv, GenerateIInv, CreateKeyIInv, KeyExistsIInv, FillKeyIInv, FillFailsIInv
<1>8. CASE UNCHANGED vars
  BY <1>8
  DEF vars, memory, disk, world, ghosts, bounds, IInv, TypeOK, Quiet, JobFits, Remembered, Firm,
      Added, KeptStay, OneFills, ShownStands, ShownDir
<1>9. QED
  BY <1>1, <1>2, <1>3, <1>4, <1>5, <1>6, <1>7, <1>8 DEF Next

\* Every state satisfies the inductive invariant, for any domains, configuration, identities,
\* threads, crashes and failures.
THEOREM DomainsInvariant == Spec => []IInv
<1>1. QED
  BY InitIInv, NextIInv, PTL DEF Spec

-----------------------------------------------------------------------------
(* What it says of the runs' properties.                                   *)

\* While the relay runs, every domain whose owner was answered is in the registry, unless its
\* file could not be read, and every account a start has to keep is on disk, and served unless
\* it could not be opened, whatever starts were interrupted.
THEOREM NoDomainIsForgotten == Spec => []NothingForgotten
<1>1. IInv => NothingForgotten
  BY DEF IInv, Remembered, KeptStay, NothingForgotten
<1>2. QED
  BY <1>1, DomainsInvariant, PTL

\* A published record and what is shown for a domain are the key on disk, whatever threads,
\* starts and sweeps raced to make it.
THEOREM PublishedKeysStand == Spec => []PublishedKeyStands
<1>1. IInv => PublishedKeyStands
  <2> SUFFICES ASSUME IInv, NEW d \in Domain
               PROVE  /\ CheckDomain(ShownDir(d)) \subseteq {"no answer", "match"}
                      /\ shown[d] \in {None, key[ShownDir(d)]}
    BY DEF PublishedKeyStands, ShownDir
  <2>1. ShownStands(d)
    BY DEF IInv
  <2>2. ShownDir(d)[2] = d
    BY DEF ShownDir
  <2>3. \A records \in LookupTxt(published[d]) :
            Decide(records, key[ShownDir(d)]) \in {"no answer", "match"}
    BY <2>1 DEF LookupTxt, Decide, ShownStands
  <2>4. QED
    BY <2>1, <2>2, <2>3 DEF CheckDomain, ShownStands
<1>2. QED
  BY <1>1, DomainsInvariant, PTL

=============================================================================
