------------------------------ MODULE Accounts ------------------------------
(***************************************************************************)
(* The accounts of one domain: the routing table in memory (handler.rs),   *)
(* one directory per account on disk, and the claim the identity anchor    *)
(* holds on each name.  Requests run on several threads and nothing locks  *)
(* an account from one step of a request to the next, so each handler of   *)
(* server.rs is cut where it leaves one of the three for another.          *)
(*                                                                         *)
(* An address is its local part.  A device is abstracted to the identity   *)
(* (DID) that vouched for it, its session tokens to the device; the mail   *)
(* in a directory is Store's subject.  Every account of the config is in   *)
(* the domain under its own name; aliases the config gives it, and custom  *)
(* domains, are left out.                                                  *)
(***************************************************************************)
EXTENDS Naturals, FiniteSets

CONSTANTS Addresses,      \* local parts: names people choose, and projections of SCIDs
          Static,         \* the ones config.json names
          Dids,           \* identities
          Scid,           \* Scid[did]: the local part its SCID projects to, or None
          None,
          Threads,
          PurgeInactive,  \* inactive_purge_days is set
          MaxOperations,  \* bound on the number of operations begun
          MaxCrashes,     \* bound on the number of crashes
          MaxFailures     \* bound on the failed file operations and anchor calls

ASSUME AccountsAssumption ==
    /\ Static \subseteq Addresses
    /\ None \notin Addresses /\ None \notin Dids
    /\ Scid \in [Dids -> {None} \cup Addresses]
    /\ \A d, e \in Dids : Scid[d] = Scid[e] /\ Scid[d] # None => d = e
    /\ PurgeInactive \in BOOLEAN
    /\ MaxOperations \in Nat /\ MaxCrashes \in Nat /\ MaxFailures \in Nat

VARIABLES
    up,
    stores,     \* primary addresses with an open store
    route,      \* the alias map: route[a] is the primary a delivers to, or None
    dyn,        \* primaries recorded as dynamic
    dirs,       \* account directories on disk
    hash,       \* accounts with an auth_token_hash
    owners,     \* owners[p]: identities with a device on file for p
    listed,     \* listed[p]: p's aliases file
    claim,      \* claim[p]: the identity the anchor names for p, or None
    job,        \* what each thread is in the middle of
    status,     \* of an account: provisioned and answered 201 ("open"), moved to its SCID's
                \* address by a migration ("moved"), and since removed ("closed")
    disturbed,  \* ghost: accounts that overlapping requests, failures, a crash, or
                \* another account taking one of their addresses, may have struck
    unbound,    \* ghost: accounts whose claim a deletion released while another request
                \* was provisioning them again, or after it had
    operations, crashes, failures

memory == <<stores, route, dyn>>
disk   == <<dirs, hash, owners, listed>>
ghosts == <<status, disturbed, unbound>>
bounds == <<operations, crashes, failures>>
vars   == <<up, memory, disk, claim, job, ghosts, bounds>>

-----------------------------------------------------------------------------
(*   claim, device, open, insert, alias      provision, in this order         *)
(*   list, persist                           read the aliases, write the file *)
(*   remove, release                         account_delete                   *)
(*   swap                                    account_migrate_to_scid          *)
(*   vouched                                 vouch_device                     *)
(*   reconcile                               reconcile_aliases                *)
(*   purge, purging                          purge_inactive                   *)
Kind == {"idle", "claim", "device", "open", "insert", "alias", "list", "persist",
         "remove", "release", "swap", "vouched", "reconcile", "purge", "purging"}

\* on: the accounts the request concerns; p: the one it is at; name: the address it gives;
\* did: the identity it provisions or vouches for; list: the aliases it has read.
Job == [kind: Kind, on: SUBSET Addresses, p: {None} \cup Addresses,
        name: {None} \cup Addresses, did: {None} \cup Dids, list: SUBSET Addresses]

Idle == [kind |-> "idle", on |-> {}, p |-> None, name |-> None, did |-> None, list |-> {}]

Busy(p) == \E t \in Threads : p \in job[t].on

AliasesFor(p) == {a \in Addresses \ {p} : route[a] = p}

Go(t, kind) == job' = [job EXCEPT ![t].kind = kind]
Finish(t)   == job' = [job EXCEPT ![t] = Idle]

\* Registered accounts one of whose addresses this step gives to another account.
Robbed == {route[a] : a \in {b \in Addresses : /\ route[b] \in stores'
                                               /\ route'[b] \notin {None, route[b]}}}

\* What a request at the accounts of S and the requests already at one of them concern.
Overlap(S) == UNION {S \cup job[t].on : t \in {u \in Threads : job[u].on \cap S # {}}}

Disturb(S) == disturbed' = disturbed \cup S \cup Robbed

\* A request is taken up: its first step ends with the thread doing next.
Begin(t, next) ==
    /\ up /\ job[t] = Idle
    /\ operations < MaxOperations
    /\ operations' = operations + 1
    /\ job' = [job EXCEPT ![t] = next]
    /\ Disturb(Overlap(next.on))
    /\ UNCHANGED <<up, unbound, crashes, failures>>

\* A request that is one step.
Do(t, p) ==
    /\ up /\ job[t] = Idle
    /\ operations < MaxOperations
    /\ operations' = operations + 1
    /\ Disturb(Overlap({p}))
    /\ UNCHANGED <<up, job, unbound, crashes, failures>>

\* A later step of t's request.
Step(t, kind) ==
    /\ job[t].kind = kind
    /\ UNCHANGED <<up, operations, crashes>>

Fine == Disturb({}) /\ UNCHANGED <<unbound, failures>>

\* A file operation or an anchor call fails, and p may be left half done.
FailFor(p) ==
    /\ failures < MaxFailures
    /\ failures' = failures + 1
    /\ Disturb({p})
    /\ UNCHANGED unbound

-----------------------------------------------------------------------------
(* The account directory.                                                  *)

MakeDir(p) == dirs' = dirs \cup {p}

\* Mutant: the directory goes and what proves the account is kept.
RemoveDirOnly(p) == dirs' = dirs \ {p} /\ UNCHANGED <<hash, owners, listed>>

RemoveDir(p) ==
    /\ dirs' = dirs \ {p}
    /\ hash' = hash \ {p}
    /\ owners' = [owners EXCEPT ![p] = {}]
    /\ listed' = [listed EXCEPT ![p] = {}]

\* remove_dir_all that stops half way.
RemovePart(p) ==
    /\ dirs' = dirs
    /\ hash' \in {hash, hash \ {p}}
    /\ owners' \in {owners, [owners EXCEPT ![p] = {}]}
    /\ listed' \in {listed, [listed EXCEPT ![p] = {}]}

MoveDir(p, s) ==
    /\ dirs' = (dirs \ {p}) \cup {s}
    /\ hash' = IF p \in hash THEN (hash \ {p}) \cup {s} ELSE hash
    /\ owners' = [owners EXCEPT ![s] = owners[p], ![p] = {}]
    /\ listed' = [listed EXCEPT ![s] = listed[p], ![p] = {}]

\* account_exists of devices.rs: either credential.
Exists(p) == p \in hash \/ owners[p] # {}

\* authenticate: a session of a device on file, or the hash of a known account.
Authenticated(p) == owners[p] # {} \/ (p \in hash /\ p \in dyn \cup Static)

(* The routing table, under its lock.                                      *)

Insert(p, aliases) ==
    /\ route' = [a \in Addresses |-> IF a \in aliases \cup {p} THEN p ELSE route[a]]
    /\ stores' = stores \cup {p}

\* Mutant: the alias is added whether the primary is there or not.
AddAliasDangling(a, p) == route' = [route EXCEPT ![a] = p]

AddAlias(a, p) == route' = IF p \in stores THEN [route EXCEPT ![a] = p] ELSE route

\* accounts.remove and dyn_accounts.remove: the address and everything that points at it.
DropRoute(p) ==
    /\ stores' = stores \ {p}
    /\ route' = [a \in Addresses |-> IF route[a] = p THEN None ELSE route[a]]
    /\ dyn' = dyn \ {p}
    /\ status' = [status EXCEPT ![p] = IF @ = "none" THEN "none" ELSE "closed"]

-----------------------------------------------------------------------------
Init ==
    /\ up = TRUE
    /\ \E legacy \in SUBSET Addresses :
           /\ stores = Static \cup legacy
           /\ dirs = Static \cup legacy
           /\ dyn = legacy \ Static
           /\ hash = legacy
    /\ route = [a \in Addresses |-> IF a \in stores THEN a ELSE None]
    /\ owners = [p \in Addresses |-> {}]
    /\ listed = [p \in Addresses |-> {}]
    /\ claim = [p \in Addresses |-> None]
    /\ job = [t \in Threads |-> Idle]
    /\ status = [p \in Addresses |-> "none"]
    /\ disturbed = {} /\ unbound = {}
    /\ operations = 0 /\ crashes = 0 /\ failures = 0

-----------------------------------------------------------------------------
(* POST /account/provision.                                                *)

Primary(did, user) == IF Scid[did] # None THEN Scid[did] ELSE user

\* The name is free, on disk and in memory, and user is no other account's address.
Provision(t, did, user) ==
    LET p == Primary(did, user)
    IN  /\ ~ Exists(p) /\ p \notin dyn \cup stores
        /\ route[user] \in {None, p}
        /\ UNCHANGED <<memory, disk, claim, status>>
        /\ Begin(t, [Idle EXCEPT !.kind = "claim", !.on = {p}, !.p = p, !.name = user, !.did = did])

\* Mutant: the device is filed on the identity's signature, and no claim is recorded.
ClaimSkipped(t) ==
    LET p == job[t].p
    IN  /\ Step(t, "claim")
        /\ UNCHANGED <<memory, hash, listed, claim, status>>
        /\ owners' = [owners EXCEPT ![p] = @ \cup {job[t].did}]
        /\ MakeDir(p) /\ Go(t, "open") /\ Fine

\* The anchor records the claim unless the name is another identity's.  An answer that is
\* lost refuses the request and may leave the claim.
Claim(t) ==
    LET p == job[t].p
    IN  /\ Step(t, "claim")
        /\ UNCHANGED <<memory, disk, status>>
        /\ \/ /\ claim[p] \in {None, job[t].did}
              /\ claim' = [claim EXCEPT ![p] = job[t].did]
              /\ (Go(t, "device") /\ Fine) \/ (Finish(t) /\ FailFor(p))
           \/ claim[p] \notin {None, job[t].did} /\ Finish(t) /\ Fine /\ UNCHANGED claim
           \/ Finish(t) /\ FailFor(p) /\ UNCHANGED claim

\* The anchor's verdict on the device, against the claim, then the device's file.
AddDevice(t) ==
    LET p == job[t].p
    IN  /\ Step(t, "device")
        /\ UNCHANGED <<memory, claim, hash, listed, status>>
        /\ \/ /\ claim[p] = job[t].did
              /\ owners' = [owners EXCEPT ![p] = @ \cup {job[t].did}]
              /\ MakeDir(p) /\ Go(t, "open") /\ Fine
           \/ Finish(t) /\ Disturb({p}) /\ UNCHANGED <<dirs, owners, unbound, failures>>

\* register_dyn_account opens the store, which makes the directory.  If that fails nothing
\* is registered, and the request goes on.
OpenStore(t) ==
    LET p == job[t].p
    IN  /\ Step(t, "open")
        /\ UNCHANGED <<memory, hash, owners, listed, claim, status>>
        /\ \/ MakeDir(p) /\ Go(t, "insert") /\ Fine
           \/ Go(t, "alias") /\ FailFor(p) /\ UNCHANGED dirs

Register(t) ==
    LET p == job[t].p
    IN  /\ Step(t, "insert")
        /\ dyn' = dyn \cup {p}
        /\ Insert(p, listed[p])
        /\ Go(t, "alias")
        /\ Fine
        /\ UNCHANGED <<disk, claim, status>>

\* The answer to the client, 201 for a provision.
Answer(t) ==
    /\ Finish(t)
    /\ status' = IF job[t].did # None THEN [status EXCEPT ![job[t].p] = "open"] ELSE status

\* The name people know becomes an alias, unless it is the primary itself.
NameAlias(t) ==
    LET p == job[t].p  a == job[t].name
    IN  /\ Step(t, "alias")
        /\ IF a = p
           THEN Answer(t) /\ UNCHANGED route
           ELSE AddAlias(a, p) /\ Go(t, "list") /\ UNCHANGED status
        /\ UNCHANGED <<stores, dyn, disk, claim>>
        /\ Fine

\* aliases_for and write_aliases, which also makes the directory.  Its error is logged.
ListAliases(t) ==
    /\ Step(t, "list")
    /\ job' = [job EXCEPT ![t].kind = "persist", ![t].list = AliasesFor(job[t].p)]
    /\ UNCHANGED <<memory, disk, claim, status>>
    /\ Fine

\* Mutant: the list is written without the alias this request added.
WriteAliasesOld(t) ==
    LET p == job[t].p
    IN  /\ Step(t, "persist")
        /\ MakeDir(p)
        /\ listed' = [listed EXCEPT ![p] = job[t].list \ {job[t].name}]
        /\ UNCHANGED <<memory, hash, owners, claim>>
        /\ Fine
        /\ Answer(t)

WriteAliases(t) ==
    LET p == job[t].p
    IN  /\ Step(t, "persist")
        /\ UNCHANGED memory
        /\ \/ MakeDir(p) /\ listed' = [listed EXCEPT ![p] = job[t].list] /\ Fine
           \/ FailFor(p) /\ UNCHANGED <<dirs, listed>>
        /\ Answer(t)
        /\ UNCHANGED <<hash, owners, claim>>

-----------------------------------------------------------------------------
(* POST /account/alias: the table first, then the file.                    *)
ChangeAlias(t, p, a) ==
    /\ Authenticated(p)
    /\ \/ p \in stores /\ AddAlias(a, p)
       \/ a # p /\ route[a] = p /\ route' = [route EXCEPT ![a] = None]
    /\ UNCHANGED <<stores, dyn, disk, claim, status>>
    /\ Begin(t, [Idle EXCEPT !.kind = "list", !.on = {p}, !.p = p, !.name = a])

(* POST /account/devices: the account exists and the anchor accepts the    *)
(* vouch against its claim; then the file.                                 *)
Vouch(t, p, did) ==
    /\ Exists(p)
    /\ claim[p] = did
    /\ UNCHANGED <<memory, disk, claim, status>>
    /\ Begin(t, [Idle EXCEPT !.kind = "vouched", !.on = {p}, !.p = p, !.did = did])

WriteDevice(t) ==
    LET p == job[t].p
    IN  /\ Step(t, "vouched")
        /\ UNCHANGED memory
        /\ \/ /\ MakeDir(p)
              /\ owners' = [owners EXCEPT ![p] = @ \cup {job[t].did}]
              /\ Fine
           \/ FailFor(p) /\ UNCHANGED <<dirs, owners>>
        /\ Finish(t)
        /\ UNCHANGED <<hash, listed, claim, status>>

\* DELETE /account/devices.
RevokeDevice(t, p, did) ==
    /\ Authenticated(p)
    /\ did \in owners[p]
    /\ owners' = [owners EXCEPT ![p] = @ \ {did}]
    /\ UNCHANGED <<memory, dirs, hash, listed, claim, status>>
    /\ Do(t, p)

\* PUT /account/did.
BindDid(t, p, did) ==
    /\ Authenticated(p)
    /\ claim[p] \in {None, did}
    /\ claim' = [claim EXCEPT ![p] = did]
    /\ UNCHANGED <<memory, disk, status>>
    /\ Do(t, p)

-----------------------------------------------------------------------------
(* POST /account/delete: routing, then data, then the claim.               *)
Delete(t, p) ==
    /\ Authenticated(p) /\ p \notin Static
    /\ DropRoute(p)
    /\ UNCHANGED <<disk, claim>>
    /\ Begin(t, [Idle EXCEPT !.kind = "remove", !.on = {p}, !.p = p])

RemoveData(t) ==
    LET p == job[t].p
    IN  /\ Step(t, "remove")
        /\ UNCHANGED <<memory, claim, status>>
        /\ \/ RemoveDir(p) /\ Go(t, "release") /\ Fine
           \/ p \in dirs /\ RemovePart(p) /\ Finish(t) /\ FailFor(p)

\* Best-effort: an anchor that is not reached keeps the claim.  The claim is dropped
\* whoever holds it by now.
Release(t) ==
    LET p == job[t].p
    IN  /\ Step(t, "release")
        /\ UNCHANGED <<memory, disk, status>>
        /\ \/ /\ claim' = [claim EXCEPT ![p] = None]
              /\ Disturb({})
              /\ UNCHANGED failures
              /\ unbound' = IF \/ status[p] = "open"
                               \/ \E u \in Threads \ {t} : job[u].p = p /\ job[u].did # None
                            THEN unbound \cup {p} ELSE unbound
           \/ FailFor(p) /\ UNCHANGED claim
        /\ Finish(t)

-----------------------------------------------------------------------------
(* POST /account/migrate-to-scid: the directory is renamed, the primary    *)
(* swapped in the table, the aliases written.  The claim is not touched.   *)
Migrate(t, p, did) ==
    LET s == Scid[did]
    IN  /\ Authenticated(p)
        /\ s \notin {None, p} /\ s \notin dirs
        /\ p \in dirs
        /\ MoveDir(p, s)
        /\ UNCHANGED <<memory, claim, status>>
        /\ Begin(t, [Idle EXCEPT !.kind = "swap", !.on = {p, s}, !.p = p, !.name = s])

Swap(t) ==
    LET p == job[t].p  s == job[t].name
    IN  /\ Step(t, "swap")
        /\ IF p \in stores /\ s \notin stores
           THEN /\ stores' = (stores \ {p}) \cup {s}
                /\ route' = [a \in Addresses |->
                                IF a \in {p, s} \/ route[a] = p THEN s ELSE route[a]]
                /\ dyn' = (dyn \ {p}) \cup {s}
                /\ status' = [status EXCEPT ![p] = "none", ![s] = "moved"]
                /\ job' = [job EXCEPT ![t].kind = "list", ![t].p = s]
                /\ MakeDir(s)
                /\ UNCHANGED <<hash, owners, listed>>
           ELSE /\ IF p \in dirs THEN UNCHANGED disk ELSE MoveDir(s, p)
                /\ Finish(t)
                /\ UNCHANGED <<memory, status>>
        /\ UNCHANGED claim
        /\ Fine

\* The renamed directory's store does not open: the rename is undone, if that succeeds.
ReopenFails(t) ==
    LET p == job[t].p  s == job[t].name
    IN  /\ Step(t, "swap")
        /\ UNCHANGED <<memory, claim, status, unbound>>
        /\ failures < MaxFailures /\ failures' = failures + 1
        /\ Disturb({p, s})
        /\ \/ UNCHANGED disk
           \/ p \notin dirs /\ s \in dirs /\ MoveDir(s, p)
        /\ Finish(t)

-----------------------------------------------------------------------------
(* reconcile_aliases, one account of its pass: the anchor says which       *)
(* address the claiming identity uses now; every other alias goes.         *)
Lookup(t, p, desired) ==
    /\ p \in stores
    /\ claim[p] # None
    /\ UNCHANGED <<memory, disk, claim, status>>
    /\ Begin(t, [Idle EXCEPT !.kind = "reconcile", !.on = {p}, !.p = p, !.name = desired])

Reconcile(t) ==
    LET p == job[t].p  a == job[t].name
        stale == AliasesFor(p) \ {a}
        missing == {a} \ (AliasesFor(p) \cup {None})
    IN  /\ Step(t, "reconcile")
        /\ IF stale \cup missing = {}
           THEN Finish(t) /\ UNCHANGED route
           ELSE /\ route' = [b \in Addresses |->
                                IF b \in missing /\ p \in stores THEN p
                                ELSE IF b \in stale THEN None ELSE route[b]]
                /\ Go(t, "list")
        /\ UNCHANGED <<stores, dyn, disk, claim, status>>
        /\ Fine

-----------------------------------------------------------------------------
(* purge_inactive: accounts_to_purge lists what was not used since the     *)
(* cutoff, and the list is worked off.  Any account may have been idle     *)
(* that long when the pass begins, unless a request is at it.              *)
PurgeScan(t, inactive) ==
    /\ PurgeInactive
    /\ inactive # {}
    /\ inactive \subseteq {p \in dirs \ Static : ~ Busy(p)}
    /\ \A u \in Threads : job[u].kind \notin {"purge", "purging"}
    /\ UNCHANGED <<memory, disk, claim, status>>
    /\ Begin(t, [Idle EXCEPT !.kind = "purge", !.on = inactive])

PurgeRoute(t, p) ==
    /\ Step(t, "purge")
    /\ p \in job[t].on
    /\ DropRoute(p)
    /\ job' = [job EXCEPT ![t].kind = "purging", ![t].p = p]
    /\ Fine
    /\ UNCHANGED <<disk, claim>>

PurgeData(t) ==
    LET p == job[t].p
    IN  /\ Step(t, "purging")
        /\ UNCHANGED <<memory, claim, status>>
        /\ \/ RemoveDir(p) /\ Fine
           \/ p \in dirs /\ RemovePart(p) /\ FailFor(p)
        /\ IF job[t].on = {p} THEN Finish(t)
           ELSE job' = [job EXCEPT ![t].kind = "purge", ![t].p = None, ![t].on = @ \ {p}]

-----------------------------------------------------------------------------
Crash ==
    /\ up /\ crashes < MaxCrashes
    /\ crashes' = crashes + 1
    /\ up' = FALSE
    /\ stores' = {} /\ dyn' = {}
    /\ route' = [a \in Addresses |-> None]
    /\ job' = [t \in Threads |-> Idle]
    /\ disturbed' = disturbed \cup {p \in Addresses : Busy(p)}
    /\ UNCHANGED <<disk, claim, status, unbound, operations, failures>>

\* Mutant: the scan takes an account by its devices, which the sweep does not ask about.
RecoveredByDevice == {p \in dirs' \ Static : owners'[p] # {}}

\* scan_dyn_accounts, over what the sweep has left.
Recovered == hash' \ Static

\* cleanup_orphaned_data: what is neither configured nor shows an auth_token_hash goes.
\* A hash that cannot be read (unread) is taken for none.  remove_dir_all may stop half way
\* (stuck) and its error is dropped.
Sweep(unread, stuck) ==
    LET swept == dirs \ (Static \cup (hash \ unread))
        Left(gone, old, empty) == [p \in Addresses |-> IF p \in gone THEN empty ELSE old[p]]
    IN  /\ unread \subseteq hash \ Static /\ stuck \subseteq swept
        /\ dirs' = Static \cup (dirs \ (swept \ stuck))
        /\ \E kept \in SUBSET stuck : hash' = hash \ (swept \ kept)
        /\ \E kept \in SUBSET stuck : owners' = Left(swept \ kept, owners, {})
        /\ \E kept \in SUBSET stuck : listed' = Left(swept \ kept, listed, {})

\* The sets of accounts of S that a file operation of a start may fail for.
MayFail(S) == IF failures < MaxFailures THEN SUBSET S ELSE {{}}

(* The start of the process: the sweep, then the configured accounts, then *)
(* the recovered ones in the order the directory is read, each insert      *)
(* overwriting the addresses of the ones before it.  An account whose      *)
(* store does not open, or whose hash the scan cannot read, is passed over *)
(* (unopened); one whose aliases file cannot be read comes without         *)
(* aliases.  A configured account that does not open is fatal: the process *)
(* is not up.  The failures of one start count as one.                     *)
Start(unread, stuck, unopened) ==
    /\ up' = TRUE
    /\ Sweep(unread, stuck)
    /\ unopened \subseteq Recovered
    /\ stores' = Static \cup (Recovered \ unopened)
    /\ dyn' = Recovered \ unopened
    /\ \E unlisted \in MayFail(Recovered \ unopened) :
           LET wanted == [a \in Addresses |->
                              {p \in Recovered \ unopened :
                                   a = p \/ (a \in listed'[p] /\ p \notin unlisted)}]
               contested == {wanted[a] : a \in Addresses} \ {{}}
               faulty == unread \cup stuck \cup unopened \cup unlisted
           IN  /\ \E last \in [contested -> Addresses] :
                      /\ \A S \in contested : last[S] \in S
                      /\ route' = [a \in Addresses |->
                                      IF wanted[a] # {} THEN last[wanted[a]]
                                      ELSE IF a \in Static THEN a ELSE None]
               /\ disturbed' = disturbed \cup faulty \cup
                      {p \in stores' : \E a \in listed'[p] \cup {p} : wanted[a] \ {p} # {}}
               /\ failures' = IF faulty = {} THEN failures ELSE failures + 1
    /\ UNCHANGED <<claim, job, status, unbound, operations, crashes>>

Restart ==
    /\ ~ up
    /\ \E unread, stuck, unopened \in MayFail(dirs \ Static) : Start(unread, stuck, unopened)

Request(t) ==
    \/ \E did \in Dids, user \in Addresses : Provision(t, did, user)
    \/ \E p \in Addresses :
           \/ Delete(t, p)
           \/ \E a \in Addresses : ChangeAlias(t, p, a)
           \/ \E did \in Dids : Vouch(t, p, did) \/ RevokeDevice(t, p, did)
                                \/ BindDid(t, p, did) \/ Migrate(t, p, did)
           \/ \E desired \in {None} \cup Addresses : Lookup(t, p, desired)
    \/ \E inactive \in SUBSET Addresses : PurgeScan(t, inactive)

Continue(t) ==
    \/ Claim(t) \/ AddDevice(t) \/ OpenStore(t) \/ Register(t) \/ NameAlias(t)
    \/ ListAliases(t) \/ WriteAliases(t) \/ WriteDevice(t)
    \/ RemoveData(t) \/ Release(t) \/ Swap(t) \/ ReopenFails(t)
    \/ Reconcile(t)
    \/ \E p \in Addresses : PurgeRoute(t, p)
    \/ PurgeData(t)

Next ==
    \/ \E t \in Threads : Request(t) \/ Continue(t)
    \/ Crash
    \/ Restart

Spec == Init /\ [][Next]_vars

-----------------------------------------------------------------------------
(* Types, and that what is in a directory goes with it.                    *)
TypeOK ==
    /\ up \in BOOLEAN
    /\ stores \subseteq Addresses /\ dyn \subseteq Addresses
    /\ route \in [Addresses -> {None} \cup Addresses]
    /\ dirs \subseteq Addresses /\ hash \subseteq dirs
    /\ owners \in [Addresses -> SUBSET Dids]
    /\ listed \in [Addresses -> SUBSET Addresses]
    /\ \A p \in Addresses : owners[p] # {} \/ listed[p] # {} => p \in dirs
    /\ claim \in [Addresses -> {None} \cup Dids]
    /\ job \in [Threads -> Job]
    /\ status \in [Addresses -> {"none", "open", "moved", "closed"}]
    /\ disturbed \subseteq Addresses /\ unbound \subseteq Addresses
    /\ operations \in 0..MaxOperations
    /\ crashes \in 0..MaxCrashes /\ failures \in 0..MaxFailures

\* An address leads to an account with an open store or nowhere, between any two steps
\* of any requests: no delivery is accepted for an account that is gone (add_alias
\* refuses an unknown primary, remove drops every address that points at it).
RoutingClosed == \A a \in Addresses : route[a] # None => route[a] \in stores

\* What a restart would rebuild is what the process serves: an account nothing is in the
\* middle of is registered exactly when its directory is there, answers its own address,
\* is known as dynamic when the config does not name it, and its aliases file says what
\* the table says (the file is written behind every change of the table).  The accounts
\* excepted are those that a failure, a crash or two requests at once have struck.
MemoryMatchesDisk ==
    up => \A p \in Addresses \ disturbed : ~ Busy(p) =>
        /\ p \in stores <=> p \in dirs
        /\ p \notin Static => (p \in dyn <=> p \in stores)
        /\ p \in stores => route[p] = p
        /\ p \in stores \ Static => listed[p] = AliasesFor(p)

\* An account provisioned under an address, answered 201 and neither removed nor migrated
\* since has its claim with the anchor, or reconcile_aliases would never see it: across
\* failed anchor calls, crashes, purges and requests at the same account in any order.
\* The one exception is the account whose claim a deletion has released late, while the
\* same account was being provisioned again or after that.
BoundAccounts ==
    \A p \in Addresses \ unbound : status[p] = "open" => claim[p] # None

\* The sweep and the scan of one start agree, whatever state a crash left the directories
\* in: an account is served only from a directory the sweep spared; a directory it spared
\* is not served only if remove_dir_all stopped in it or its store did not open; and an
\* account with a hash keeps it, and is served, unless the sweep could not read the hash
\* or the store did not open.
RestartConsistent ==
    [][~ up => \A unread, stuck, unopened \in MayFail(dirs \ Static) :
           Start(unread, stuck, unopened) =>
               /\ stores' \subseteq dirs' /\ dirs' \ stores' \subseteq stuck \cup unopened
               /\ hash \ unread \subseteq hash' /\ hash \ unread \subseteq stores' \cup unopened]_vars

\* Stated by scan_dyn_accounts and by devices.rs (either credential means an account):
\* an account answered 201 and not removed since is served after a restart.  The code
\* recovers by auth_token_hash alone, which provisioning does not write.
AccountsSurvive ==
    up => \A p \in Addresses \ disturbed : status[p] = "open" => p \in stores

=============================================================================
