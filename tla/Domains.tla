------------------------------ MODULE Domains -------------------------------
(***************************************************************************)
(* The domains a relay serves: those of config.json and those their owners *)
(* add at run time by a TXT record (customdomain.rs, server.rs, config.rs),*)
(* who may create an account in one (did/provision.rs), the DKIM key of    *)
(* each (dkim.rs, dkim_dns.rs), and the start that reads the registry,     *)
(* sweeps what belongs to no domain and makes the keys (main.rs).  A file  *)
(* or a directory that cannot be read is, to the start, one that is not    *)
(* there: what it stands for is passed over, or swept.                     *)
(*                                                                         *)
(* The token and the secret of a domain are functions of its name and of   *)
(* the relay's secret, so both are abstracted to who has been told.  What  *)
(* happens to one account is the subject of module Accounts: here one is   *)
(* made and swept, and its identity asks for itself.  A domain of the      *)
(* config that is also added at run time is left out.                      *)
(***************************************************************************)
EXTENDS Integers, FiniteSets

CONSTANTS
    Static,       \* domains of config.json
    Custom,       \* domains their owners may add
    Onboarding,   \* domain_verify_secret is set
    Dids,         \* identities
    Home,         \* Home[did]: the domain its document lives at
    Configs,      \* what config.json may set for a domain: sets of Gates
    Told,         \* identities the operator has told the secrets of the configured domains
    Threads,
    None, Absent, Torn,
    MaxAccounts, MaxKeys, MaxCrashes, MaxFailures    \* bounds

\* authorized_did_domain, allow_provision and provision_secret.
Gates  == {"home", "open", "secret"}

Domain == Static \cup Custom

\* A key directory: of the registry, which owners are shown, or of the domain's mail, which signs.
Dirs == ({"registry"} \X Custom) \cup ({"mail"} \X Domain)

Key      == 1..MaxKeys
Account  == [domain : Domain, did : Dids, hash : BOOLEAN]

ASSUME DomainsAssumption ==
    /\ Static \cap Custom = {} /\ Static # {}
    /\ Onboarding \in BOOLEAN /\ Configs \subseteq SUBSET Gates /\ Told \subseteq Dids
    /\ {MaxAccounts, MaxKeys, MaxCrashes, MaxFailures} \subseteq Nat
    /\ None \notin Key /\ None \notin Dids /\ None \notin Dirs
    /\ Absent # Torn /\ Absent \notin Key /\ Torn \notin Key
    /\ "whole" \notin {Absent, Torn}

VARIABLES
    phase,        \* "down", "starting" or "up"
    gates,        \* gates[s]: what config.json sets for s
    dynamic,      \* the registry in memory
    served,       \* dynamic accounts in memory
    file,         \* file[c]: domain.json of c: Absent, Torn or "whole"
    key,          \* key[dir]: its key.pem: Absent, Torn or a key
    accounts,     \* account directories of dynamic accounts
    minted,       \* keys generated so far
    job,          \* the request of each thread
    proof,        \* domains whose TXT record is in DNS
    shown,        \* shown[d]: the DKIM record last given out for d
    published,    \* published[d]: DKIM records in DNS
    knows,        \* <<did, d>>: did has been told the secret of d
    registered,   \* ghost: domains answered as added, unless their file was struck
    struck,       \* ghost: domains a crash or a failure left with a torn file
    kept,         \* ghost: accounts every start has to keep
    unread,       \* ghost: domains whose file the last start could not read
    unopened,     \* ghost: accounts the last start could not open
    crashes, failures

memory == <<dynamic, served>>
disk   == <<file, key, accounts>>
world  == <<proof, published>>
ghosts == <<registered, struck, kept, unread, unopened>>
bounds == <<crashes, failures>>
vars   == <<phase, gates, memory, disk, minted, job, world, shown, knows, ghosts, bounds>>

Idle == [pc |-> "idle", dir |-> None, did |-> None, key |-> None]
Job  == [pc : {"idle", "truncate", "write", "load", "create", "fill"},
         dir : {None} \cup Dirs, did : {None} \cup Dids, key : {None} \cup Key]

Known(registry, d) == d \in Static \cup registry

Init ==
    /\ phase = "down" /\ dynamic = {} /\ served = {}
    /\ gates \in [Static -> Configs]
    /\ \E before \in SUBSET Custom :
           /\ file = [c \in Custom |-> IF c \in before THEN "whole" ELSE Absent]
           /\ registered = before
           /\ accounts \in SUBSET {a \in Account : a.hash /\ Known(before, a.domain)}
           /\ Cardinality(accounts) <= MaxAccounts
    /\ key = [dir \in Dirs |-> Absent] /\ minted = 0
    /\ job = [t \in Threads |-> Idle]
    /\ proof = {} /\ shown = [d \in Domain |-> None] /\ published = [d \in Domain |-> {}]
    /\ knows = Told \X Static
    /\ struck = {} /\ kept = accounts /\ unread = {} /\ unopened = {}
    /\ crashes = 0 /\ failures = 0

-----------------------------------------------------------------------------
(* DNS, in the hands of the owners.                                        *)

\* A look-up that fails finds no records.
LookupTxt(records) == {{}, records}

ShowProof(c) ==
    /\ proof' = IF c \in proof THEN proof \ {c} ELSE proof \cup {c}
    /\ UNCHANGED <<phase, gates, memory, disk, minted, job, published, shown, knows, ghosts, bounds>>

Publish(d) ==
    /\ shown[d] # None
    /\ published' = [published EXCEPT ![d] = {shown[d]}]
    /\ UNCHANGED <<phase, gates, memory, disk, minted, job, proof, shown, knows, ghosts, bounds>>

-----------------------------------------------------------------------------
(* The registry.                                                           *)

Begin(t, pc, dir, did) ==
    /\ phase = "up" /\ job[t] = Idle
    /\ job' = [job EXCEPT ![t] = [Idle EXCEPT !.pc = pc, !.dir = dir, !.did = did]]

\* What the owner's TXT record has to say: a function of the name and the relay's secret.
VerifyToken(c) == <<"biset-verify", c>>

TxtProvesOwnership(records, expected) == expected \in records

\* What a domain its owner adds is registered with: never open, no home gate.
RegisteredDomainConfig == {"secret"}

\* domain_verify_token: the record of a domain nobody has to own yet.
AskToken(t, c) ==
    /\ Onboarding
    /\ Begin(t, "load", <<"registry", c>>, None)
    /\ UNCHANGED <<phase, gates, memory, disk, minted, world, shown, knows, ghosts, bounds>>

\* domain_add: the TXT record is looked up every time.
AddDomain(t, did, c) ==
    /\ Onboarding
    /\ \E records \in LookupTxt({VerifyToken(p) : p \in proof \cap {c}}) :
           TxtProvesOwnership(records, VerifyToken(c))
    /\ Begin(t, "truncate", <<"registry", c>>, did)
    /\ UNCHANGED <<phase, gates, memory, disk, minted, world, shown, knows, ghosts, bounds>>

TruncateFile(t) ==
    /\ job[t].pc = "truncate"
    /\ file' = [file EXCEPT ![job[t].dir[2]] = Torn]
    /\ job' = [job EXCEPT ![t].pc = "write"]
    /\ UNCHANGED <<phase, gates, memory, key, accounts, minted, world, shown, knows, ghosts, bounds>>

\* The file is written, then the registry in memory has the domain.
WriteFile(t) ==
    LET c == job[t].dir[2]
    IN  /\ job[t].pc = "write"
        /\ file' = [file EXCEPT ![c] = "whole"]
        /\ dynamic' = dynamic \cup {c}
        /\ struck' = struck \ {c}
        /\ job' = [job EXCEPT ![t].pc = "load"]
        /\ UNCHANGED <<phase, gates, served, key, accounts, minted, world, shown, knows,
                       registered, kept, unread, unopened, bounds>>

\* A failure is answered 500; the registry in memory stays.
FileFails(t) ==
    /\ job[t].pc \in {"truncate", "write"}
    /\ failures < MaxFailures /\ failures' = failures + 1
    /\ struck' = IF job[t].pc = "write" THEN struck \cup {job[t].dir[2]} ELSE struck
    /\ job' = [job EXCEPT ![t] = Idle]
    /\ UNCHANGED <<phase, gates, memory, disk, minted, world, shown, knows, registered, kept,
                   unread, unopened, crashes>>

-----------------------------------------------------------------------------
(* DKIM keys.  record is what the answer shows: a key, or None.            *)

Answer(t, record) ==
    LET d == job[t].dir[2]
    IN  /\ shown' = IF job[t].dir[1] = "registry" /\ record # None
                    THEN [shown EXCEPT ![d] = record] ELSE shown
        /\ IF job[t].did = None THEN UNCHANGED <<knows, registered>>
           ELSE knows' = knows \cup {<<job[t].did, d>>} /\ registered' = registered \cup {d}
        /\ job' = [job EXCEPT ![t] = Idle]

\* Outbound mail is signed with the key of the domain's mail directory.
Sign(t, d) ==
    /\ Known(dynamic, d) /\ (d \in Static \/ \E a \in served : a.domain = d)
    /\ Begin(t, "load", <<"mail", d>>, None)
    /\ UNCHANGED <<phase, gates, memory, disk, minted, world, shown, knows, ghosts, bounds>>

\* A key that parses is used; otherwise one is generated.
LoadKey(t) ==
    /\ job[t].pc = "load" /\ key[job[t].dir] \in Key
    /\ Answer(t, key[job[t].dir])
    /\ UNCHANGED <<phase, gates, memory, disk, minted, world, struck, kept, unread, unopened, bounds>>

Generate(t) ==
    /\ job[t].pc = "load" /\ key[job[t].dir] \notin Key
    /\ minted < MaxKeys /\ minted' = minted + 1
    /\ job' = [job EXCEPT ![t].pc = "create", ![t].key = minted']
    /\ UNCHANGED <<phase, gates, memory, disk, world, shown, knows, ghosts, bounds>>

\* Mutant: the file is created whether there is one or not.
CreateKeyOver(t) ==
    /\ job[t].pc = "create"
    /\ key' = [key EXCEPT ![job[t].dir] = Torn]
    /\ job' = [job EXCEPT ![t].pc = "fill"]
    /\ UNCHANGED <<phase, gates, memory, file, accounts, minted, world, shown, knows, ghosts, bounds>>

\* The file is created exclusively: a second thread's generation comes to nothing.
CreateKey(t) ==
    /\ job[t].pc = "create" /\ key[job[t].dir] = Absent
    /\ key' = [key EXCEPT ![job[t].dir] = Torn]
    /\ job' = [job EXCEPT ![t].pc = "fill"]
    /\ UNCHANGED <<phase, gates, memory, file, accounts, minted, world, shown, knows, ghosts, bounds>>

KeyExists(t) ==
    /\ job[t].pc = "create" /\ key[job[t].dir] # Absent
    /\ Answer(t, None)
    /\ UNCHANGED <<phase, gates, memory, disk, minted, world, struck, kept, unread, unopened, bounds>>

FillKey(t) ==
    /\ job[t].pc = "fill"
    /\ key' = [key EXCEPT ![job[t].dir] = job[t].key]
    /\ Answer(t, job[t].key)
    /\ UNCHANGED <<phase, gates, memory, file, accounts, minted, world, struck, kept, unread,
                   unopened, bounds>>

FillFails(t) ==
    /\ job[t].pc = "fill"
    /\ failures < MaxFailures /\ failures' = failures + 1
    /\ Answer(t, None)
    /\ UNCHANGED <<phase, gates, memory, disk, minted, world, struck, kept, unread, unopened, crashes>>

\* What published records say of the key that signs.
Decide(records, wanted) ==
    IF wanted \notin Key \/ records = {} THEN "no answer"
    ELSE IF wanted \in records THEN "match"
    ELSE IF records \cap Key # {} THEN "mismatch" ELSE "missing"

\* The check a start runs on each domain of the config, and logs.
CheckDomain(dir) == {Decide(records, key[dir]) : records \in LookupTxt(published[dir[2]])}

-----------------------------------------------------------------------------
(* Who may create an account.                                              *)

DomainConfig(d) == IF d \in Static THEN gates[d] ELSE RegisteredDomainConfig

\* The domain asked for, or the first open one of the config, or none.
ResolveDomain(asked) ==
    LET open == {s \in Static : "open" \in gates[s]}
    IN  IF asked # None THEN {d \in {asked} : Known(dynamic, d)}
        ELSE IF open = {} THEN {} ELSE {CHOOSE s \in open : TRUE}

\* The identity's document lives at a domain of the config.
DidDomainGate(did) == Home[did] \in Static

\* The strictest of the gates that are set decides alone.
MayProvision(did, d) ==
    LET set == DomainConfig(d)
    IN  \/ "home" \in set /\ DidDomainGate(did)
        \/ "home" \notin set /\ "open" \in set
        \/ set \cap {"home", "open"} = {} /\ "secret" \in set /\ <<did, d>> \in knows

\* Served, or on disk with a credential.  Every account here has one: a hash or a device.
NameIsTaken(did, d) == \E a \in served \cup accounts : a.domain = d /\ a.did = did

\* asked is None in a request that names no domain.
Provision(did, asked) ==
    /\ phase = "up" /\ Cardinality(accounts) < MaxAccounts
    /\ \E d \in ResolveDomain(asked) :
           LET a == [domain |-> d, did |-> did, hash |-> FALSE]
           IN  /\ MayProvision(did, d)
               /\ ~NameIsTaken(did, d)
               /\ accounts' = accounts \cup {a}
               /\ served' = served \cup {a}
    /\ UNCHANGED <<phase, gates, dynamic, file, key, minted, job, world, shown, knows, ghosts, bounds>>

-----------------------------------------------------------------------------
(* The start, in its order, and the end.                                   *)

\* The sets of elements of S that a start may fail to read, to remove or to open.  The
\* failures of one step of a start count as one.
MayFail(S) == IF failures < MaxFailures THEN SUBSET S ELSE {{}}
Count(faulty) == failures' = IF faulty THEN failures + 1 ELSE failures

\* A registry directory that cannot be listed is Custom unread.
Load(missing) == {c \in Custom : file[c] = "whole"} \ missing

\* What the sweep leaves, of the accounts, where it can read the hash of all but the blind
\* ones, and of the mail directories, where it can remove all but the stuck ones.
Spared(registry, blind) == {a \in accounts \ blind : Known(registry, a.domain) /\ a.hash}
SweptKeys(registry, stuck) ==
    [dir \in Dirs |-> IF dir[1] = "mail" /\ ~Known(registry, dir[2]) /\ dir[2] \notin stuck
                      THEN Absent ELSE key[dir]]

\* Mutant: the sweep comes before the registry is read.
BootSweepsFirst(missing, blind, stuck) ==
    /\ phase = "down" /\ phase' = "starting"
    /\ dynamic' = Load(missing)
    /\ \E left \in SUBSET {a \in accounts : a.domain \in stuck} :
           accounts' = Spared({}, blind) \cup left
    /\ \E left \in SUBSET stuck : key' = SweptKeys({}, left)
    /\ Count({missing, blind, stuck} # {{}})
    /\ registered' = registered \ struck
    /\ kept' = {a \in kept \ blind : a.domain \notin struck \cup missing}
    /\ unread' = missing /\ unopened' = {}
    /\ UNCHANGED <<gates, served, file, minted, job, world, shown, knows, struck, crashes>>

\* The registry, then the sweep.  Of what it cannot remove (stuck) any part is left.
Boot(missing, blind, stuck) ==
    /\ phase = "down" /\ phase' = "starting"
    /\ dynamic' = Load(missing)
    /\ \E left \in SUBSET {a \in accounts : a.domain \in stuck} :
           accounts' = Spared(Load(missing), blind) \cup left
    /\ \E left \in SUBSET stuck : key' = SweptKeys(Load(missing), left)
    /\ Count({missing, blind, stuck} # {{}})
    /\ registered' = registered \ struck
    /\ kept' = {a \in kept \ blind : a.domain \notin struck \cup missing}
    /\ unread' = missing /\ unopened' = {}
    /\ UNCHANGED <<gates, served, file, minted, job, world, shown, knows, struck, crashes>>

\* The keys of the configured domains; their records go to dkim-dns.txt.
StartKey(d) ==
    /\ phase = "starting" /\ d \in Static
    /\ \/ key[<<"mail", d>>] = Absent /\ minted < MaxKeys
          /\ minted' = minted + 1 /\ key' = [key EXCEPT ![<<"mail", d>>] = minted']
       \/ key[<<"mail", d>>] \in Key /\ shown[d] # key[<<"mail", d>>]
          /\ UNCHANGED <<key, minted>>
    /\ shown' = [shown EXCEPT ![d] = key'[<<"mail", d>>]]
    /\ UNCHANGED <<phase, gates, memory, file, accounts, job, world, knows, ghosts, bounds>>

\* One that is torn ends the start, this time and every other.
\* An account whose hash the scan cannot read, or whose store does not open, is passed over.
Ready(closed) ==
    /\ phase = "starting" /\ \A d \in Static : key[<<"mail", d>>] \in Key
    /\ phase' = "up"
    /\ served' = {a \in accounts \ closed : a.hash /\ Known(dynamic, a.domain)}
    /\ unopened' = closed
    /\ Count(closed # {})
    /\ UNCHANGED <<gates, dynamic, disk, minted, job, world, shown, knows, registered, struck,
                   kept, unread, crashes>>

\* A start that ends while it makes a key leaves a torn one.
Crash ==
    /\ phase # "down" /\ phase' = "down"
    /\ crashes < MaxCrashes /\ crashes' = crashes + 1
    /\ dynamic' = {} /\ served' = {}
    /\ struck' = struck \cup {job[t].dir[2] : t \in {u \in Threads : job[u].pc = "write"}}
    /\ key' \in {key} \cup {[key EXCEPT ![<<"mail", d>>] = Torn] :
                              d \in {s \in Static : phase = "starting"
                                                    /\ key[<<"mail", s>>] = Absent}}
    /\ job' = [t \in Threads |-> Idle]
    /\ UNCHANGED <<gates, file, accounts, minted, world, shown, knows, registered, kept, unread,
                   unopened, failures>>

Next ==
    \/ \E missing \in MayFail(Custom), blind \in MayFail(accounts), stuck \in MayFail(Domain) :
           Boot(missing, blind, stuck)
    \/ \E closed \in MayFail(accounts) : Ready(closed)
    \/ Crash
    \/ \E d \in Domain : Publish(d) \/ StartKey(d)
    \/ \E c \in Custom : ShowProof(c)
    \/ \E did \in Dids, asked \in Domain \cup {None} : Provision(did, asked)
    \/ \E t \in Threads :
           \/ \E c \in Custom : AskToken(t, c)
           \/ \E c \in Custom, did \in Dids : AddDomain(t, did, c)
           \/ \E d \in Domain : Sign(t, d)
           \/ TruncateFile(t) \/ WriteFile(t) \/ FileFails(t)
           \/ LoadKey(t) \/ Generate(t) \/ CreateKey(t) \/ KeyExists(t)
           \/ FillKey(t) \/ FillFails(t)

Spec == Init /\ [][Next]_vars

-----------------------------------------------------------------------------
(* A restart forgets no domain whose owner was answered, and keeps and       *)
(* serves every account with a hash, in whatever order domains were added    *)
(* and starts interrupted.  A domain whose file a crash or a failed write    *)
(* left torn is forgotten, its accounts with it.  One whose file a start     *)
(* could not read is out until a later start reads it, but its accounts are  *)
(* swept for good, as is an account whose hash could not be read; one that   *)
(* could not be opened stays on disk for the next start.                     *)
NothingForgotten ==
    phase = "up" => /\ registered \ unread \subseteq dynamic
                    /\ kept \subseteq accounts /\ kept \ unopened \subseteq served

(* A record in DNS stays good: what is later shown for the domain, and for   *)
(* a configured domain what it signs with, is the key the record publishes,  *)
(* whatever requests, sends and starts raced to make the key.  What a domain *)
(* its owner added signs with is another key than it is shown.               *)
PublishedKeyStands ==
    \A d \in Domain :
        LET dir == IF d \in Custom THEN <<"registry", d>> ELSE <<"mail", d>>
        IN  /\ CheckDomain(dir) \subseteq {"no answer", "match"}
            /\ shown[d] \in {None, key[dir]}

=============================================================================
