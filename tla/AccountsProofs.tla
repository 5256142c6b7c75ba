--------------------------- MODULE AccountsProofs ---------------------------
(***************************************************************************)
(* Safety of the accounts of one domain, for any addresses, identities,    *)
(* threads, failures and crashes.  That no address leads to an account     *)
(* that is gone holds without exception and needs only the table.  That    *)
(* table, directories and claims agree holds of the accounts nothing has   *)
(* struck; what carries that proof is that two requests at one account     *)
(* strike it, so that any other account is as the one request at it, if    *)
(* there is one, has left it.                                              *)
(***************************************************************************)
EXTENDS Accounts, TLAPS

\* The table: a map over all addresses, closed.
TableInv ==
    /\ route = [a \in Addresses |-> route[a]]
    /\ RoutingClosed

-----------------------------------------------------------------------------
(* The changes of the table.                                               *)

LEMMA InsertKeeps ==
    ASSUME TableInv, NEW p, NEW aliases, Insert(p, aliases)
    PROVE  TableInv'
  BY DEF TableInv, RoutingClosed, Insert

LEMMA AddAliasKeeps ==
    ASSUME TableInv, NEW a, NEW p, AddAlias(a, p), stores' = stores
    PROVE  TableInv'
<1>1. CASE p \in stores
  BY <1>1 DEF TableInv, RoutingClosed, AddAlias
<1>2. CASE p \notin stores
  BY <1>2 DEF TableInv, RoutingClosed, AddAlias
<1>3. QED
  BY <1>1, <1>2

LEMMA DropRouteKeeps ==
    ASSUME TableInv, NEW p, DropRoute(p)
    PROVE  TableInv'
  BY DEF TableInv, RoutingClosed, DropRoute

LEMMA SameTableKeeps ==
    ASSUME TableInv, UNCHANGED memory
    PROVE  TableInv'
  BY DEF TableInv, RoutingClosed, memory

-----------------------------------------------------------------------------
(* Every step of a request keeps the table closed.                         *)

LEMMA RequestTable ==
    ASSUME TableInv, NEW t \in Threads, Request(t)
    PROVE  TableInv'
<1>1. ASSUME NEW did \in Dids, NEW user \in Addresses, Provision(t, did, user)
      PROVE  TableInv'
  BY <1>1, SameTableKeeps DEF Provision
<1>2. ASSUME NEW p \in Addresses, Delete(t, p)
      PROVE  TableInv'
  BY <1>2, DropRouteKeeps DEF Delete
<1>3. ASSUME NEW p \in Addresses, NEW a \in Addresses, ChangeAlias(t, p, a)
      PROVE  TableInv'
  <2>1. stores' = stores
    BY <1>3 DEF ChangeAlias
  <2>2. CASE AddAlias(a, p)
    BY <2>1, <2>2, AddAliasKeeps
  <2>3. CASE route' = [route EXCEPT ![a] = None]
    BY <2>1, <2>3 DEF TableInv, RoutingClosed
  <2>4. QED
    BY <1>3, <2>2, <2>3 DEF ChangeAlias
<1>4. ASSUME NEW p \in Addresses, NEW did \in Dids,
             Vouch(t, p, did) \/ RevokeDevice(t, p, did) \/ BindDid(t, p, did)
                 \/ Migrate(t, p, did)
      PROVE  TableInv'
  <2>1. UNCHANGED memory
    BY <1>4 DEF Vouch, RevokeDevice, BindDid, Migrate
  <2>2. QED
    BY <2>1, SameTableKeeps
<1>5. ASSUME NEW p \in Addresses, NEW desired \in {None} \cup Addresses, Lookup(t, p, desired)
      PROVE  TableInv'
  BY <1>5, SameTableKeeps DEF Lookup
<1>6. ASSUME NEW inactive \in SUBSET Addresses, PurgeScan(t, inactive)
      PROVE  TableInv'
  BY <1>6, SameTableKeeps DEF PurgeScan
<1>7. QED
  BY <1>1, <1>2, <1>3, <1>4, <1>5, <1>6 DEF Request

LEMMA ContinueTable ==
    ASSUME TableInv, NEW t \in Threads, Continue(t)
    PROVE  TableInv'
<1>1. CASE Claim(t) \/ AddDevice(t) \/ OpenStore(t) \/ ListAliases(t) \/ WriteAliases(t)
               \/ WriteDevice(t) \/ RemoveData(t) \/ Release(t) \/ ReopenFails(t)
               \/ PurgeData(t)
  <2>1. UNCHANGED memory
    BY <1>1 DEF Claim, AddDevice, OpenStore, ListAliases, WriteAliases, WriteDevice,
                RemoveData, Release, ReopenFails, PurgeData
  <2>2. QED
    BY <2>1, SameTableKeeps
<1>2. CASE Register(t)
  BY <1>2, InsertKeeps DEF Register
<1>3. CASE NameAlias(t)
  <2>1. stores' = stores
    BY <1>3 DEF NameAlias
  <2>2. CASE UNCHANGED route
    BY <2>1, <2>2 DEF TableInv, RoutingClosed
  <2>3. CASE AddAlias(job[t].name, job[t].p)
    BY <2>1, <2>3, AddAliasKeeps
  <2>4. QED
    BY <1>3, <2>2, <2>3 DEF NameAlias
<1>4. CASE Swap(t)
  <2> DEFINE p == job[t].p
             s == job[t].name
  <2>1. CASE UNCHANGED memory
    BY <2>1, SameTableKeeps
  <2>2. CASE /\ stores' = (stores \ {p}) \cup {s}
             /\ route' = [a \in Addresses |->
                             IF a \in {p, s} \/ route[a] = p THEN s ELSE route[a]]
    BY <2>2 DEF TableInv, RoutingClosed
  <2>3. QED
    BY <1>4, <2>1, <2>2 DEF Swap
<1>5. CASE Reconcile(t)
  <2> DEFINE p == job[t].p
             stale == AliasesFor(p) \ {job[t].name}
             missing == {job[t].name} \ (AliasesFor(p) \cup {None})
  <2>1. stores' = stores
    BY <1>5 DEF Reconcile
  <2>2. CASE UNCHANGED route
    BY <2>1, <2>2 DEF TableInv, RoutingClosed
  <2>3. CASE route' = [b \in Addresses |->
                          IF b \in missing /\ p \in stores THEN p
                          ELSE IF b \in stale THEN None ELSE route[b]]
    <3> HIDE DEF missing, stale
    <3> QED
      BY <2>1, <2>3 DEF TableInv, RoutingClosed
  <2>4. QED
    BY <1>5, <2>2, <2>3 DEF Reconcile
<1>6. ASSUME NEW p \in Addresses, PurgeRoute(t, p)
      PROVE  TableInv'
  BY <1>6, DropRouteKeeps DEF PurgeRoute
<1>7. QED
  BY <1>1, <1>2, <1>3, <1>4, <1>5, <1>6 DEF Continue

\* Who is given the addresses by a start, the accounts of opened in some order, those of
\* unlisted without their aliases.
Wanted(opened, unlisted) ==
    [a \in Addresses |-> {p \in opened : a = p \/ (a \in listed'[p] /\ p \notin unlisted)}]

Given(opened, unlisted) ==
    \E last :
        /\ \A a \in Addresses : Wanted(opened, unlisted)[a] # {} =>
               last[Wanted(opened, unlisted)[a]] \in Wanted(opened, unlisted)[a]
        /\ route' = [a \in Addresses |->
                        IF Wanted(opened, unlisted)[a] # {}
                        THEN last[Wanted(opened, unlisted)[a]]
                        ELSE IF a \in Static THEN a ELSE None]

\* And whom the start strikes.
Struck(opened, unlisted, faulty) ==
    /\ disturbed' = disturbed \cup faulty \cup
           {p \in stores' : \E a \in listed'[p] \cup {p} : Wanted(opened, unlisted)[a] \ {p} # {}}
    /\ failures' = IF faulty = {} THEN failures ELSE failures + 1

LEMMA StartGives ==
    ASSUME NEW unread, NEW stuck, NEW unopened, Start(unread, stuck, unopened)
    PROVE  /\ stores' = Static \cup (Recovered \ unopened)
           /\ \E unlisted \in MayFail(Recovered \ unopened) :
                 /\ Given(Recovered \ unopened, unlisted)
                 /\ Struck(Recovered \ unopened, unlisted,
                           unread \cup stuck \cup unopened \cup unlisted)
<1> DEFINE opened == Recovered \ unopened
           wanted(unlisted) == Wanted(opened, unlisted)
           faulty(unlisted) == unread \cup stuck \cup unopened \cup unlisted
           contested(unlisted) == {wanted(unlisted)[a] : a \in Addresses} \ {{}}
<1>1. PICK unlisted \in MayFail(opened) :
          /\ \E last \in [contested(unlisted) -> Addresses] :
                 /\ \A S \in contested(unlisted) : last[S] \in S
                 /\ route' = [a \in Addresses |->
                                 IF wanted(unlisted)[a] # {} THEN last[wanted(unlisted)[a]]
                                 ELSE IF a \in Static THEN a ELSE None]
          /\ disturbed' = disturbed \cup faulty(unlisted) \cup
                 {p \in stores' : \E a \in listed'[p] \cup {p} : wanted(unlisted)[a] \ {p} # {}}
          /\ failures' = IF faulty(unlisted) = {} THEN failures ELSE failures + 1
  BY Zenon DEF Start, Wanted
<1>2. PICK last :
          /\ \A S \in contested(unlisted) : last[S] \in S
          /\ route' = [a \in Addresses |->
                          IF wanted(unlisted)[a] # {} THEN last[wanted(unlisted)[a]]
                          ELSE IF a \in Static THEN a ELSE None]
  BY <1>1, Zenon
<1>3. \A a \in Addresses : wanted(unlisted)[a] # {} =>
          last[wanted(unlisted)[a]] \in wanted(unlisted)[a]
  <2>1. ASSUME NEW a \in Addresses, wanted(unlisted)[a] # {}
        PROVE  wanted(unlisted)[a] \in contested(unlisted)
    BY <2>1, Zenon
  <2>2. QED
    BY <1>2, <2>1, Zenon
<1>4. Given(opened, unlisted)
  BY <1>2, <1>3, Zenon DEF Given
<1>5. stores' = Static \cup opened
  BY DEF Start
<1>6. Struck(opened, unlisted, faulty(unlisted))
  BY <1>1, Zenon DEF Struck
<1>7. QED
  BY <1>1, <1>4, <1>5, <1>6, Zenon

LEMMA RestartTable ==
    ASSUME Restart
    PROVE  TableInv'
<1>1. PICK unread, stuck, unopened : Start(unread, stuck, unopened)
  BY DEF Restart
<1> DEFINE opened == Recovered \ unopened
<1>2. PICK unlisted : Given(opened, unlisted) /\ stores' = Static \cup opened
  BY <1>1, StartGives
<1> DEFINE wanted == Wanted(opened, unlisted)
<1>3. PICK last :
          /\ \A a \in Addresses : wanted[a] # {} => last[wanted[a]] \in wanted[a]
          /\ route' = [a \in Addresses |-> IF wanted[a] # {} THEN last[wanted[a]]
                                          ELSE IF a \in Static THEN a ELSE None]
  BY <1>2 DEF Given
<1>4. \A a \in Addresses : wanted[a] \subseteq opened
  BY DEF Wanted
<1> HIDE DEF wanted
<1>5. route' = [a \in Addresses |-> route'[a]]
  BY <1>3
<1>6. ASSUME NEW a \in Addresses, route'[a] # None
      PROVE  route'[a] \in stores'
  BY <1>2, <1>3, <1>4, <1>6
<1>7. QED
  BY <1>5, <1>6 DEF TableInv, RoutingClosed

\* No address ever leads to an account without an open store, whatever requests run, fail
\* or are cut off.
THEOREM RoutingIsClosed == Spec => []RoutingClosed
<1>1. Init => TableInv
  BY DEF Init, TableInv, RoutingClosed
<1>2. TableInv /\ [Next]_vars => TableInv'
  <2> SUFFICES ASSUME TableInv, [Next]_vars
               PROVE  TableInv'
    OBVIOUS
  <2>1. CASE UNCHANGED vars
    BY <2>1, SameTableKeeps DEF vars
  <2>2. CASE Crash
    BY <2>2 DEF Crash, TableInv, RoutingClosed
  <2>3. CASE Restart
    BY <2>3, RestartTable
  <2>4. ASSUME NEW t \in Threads, Request(t) \/ Continue(t)
        PROVE  TableInv'
    BY <2>4, RequestTable, ContinueTable
  <2>5. QED
    BY <2>1, <2>2, <2>3, <2>4 DEF Next
<1>3. TableInv => RoutingClosed
  BY DEF TableInv
<1>4. QED
  BY <1>1, <1>2, <1>3, PTL DEF Spec

-----------------------------------------------------------------------------
(* What memory and disk say of an account nothing has struck.  Requests at *)
(* it are one at a time, so that what they leave half done is known from   *)
(* where the one request is.                                               *)

Whole(x) ==
    /\ x \in stores <=> x \in dirs
    /\ x \notin Static => (x \in dyn <=> x \in stores)
    /\ x \in stores => route[x] = x

Consistent(x) == Whole(x) /\ (x \in stores \ Static => listed[x] = AliasesFor(x))

Unregistered(x) == x \notin stores /\ (x \notin Static => x \notin dyn)

\* Where a request has been says what it is about.
JobFits(t) ==
    /\ job[t].kind # "idle" => up
    /\ job[t].kind = "idle" => job[t] = Idle
    /\ job[t].kind \notin {"idle", "purge"} => job[t].p \in job[t].on
    /\ job[t].kind \in {"claim", "device", "open", "insert", "alias"} =>
           /\ job[t].on = {job[t].p}
           /\ job[t].name \in Addresses /\ job[t].did \in Dids
    /\ job[t].kind \in {"vouched", "remove", "release", "reconcile"} => job[t].on = {job[t].p}
    /\ job[t].kind = "vouched" => job[t].did \in Dids
    /\ job[t].kind = "swap" =>
           /\ job[t].name \in Addresses /\ job[t].name # job[t].p
           /\ job[t].on = {job[t].p, job[t].name}
    /\ job[t].kind \in {"swap", "reconcile"} => job[t].did = None

\* Two requests at one account have disturbed all that either concerns.
Alone ==
    \A t, u \in Threads : t # u =>
        job[t].on \cap job[u].on = {} \/ job[t].on \cup job[u].on \subseteq disturbed

\* How t's request has left x, an account it concerns.
Left(t, x) ==
    LET here == x = job[t].p
    IN  /\ job[t].kind \in {"claim", "device"} => Consistent(x) /\ x \notin stores
        /\ job[t].kind \in {"open", "insert"} =>
               Unregistered(x) /\ x \in dirs /\ listed[x] = {}
        /\ job[t].kind \in {"alias", "vouched", "reconcile"} => Consistent(x) /\ x \in stores
        /\ job[t].kind \in {"list", "persist"} /\ here => Whole(x) /\ x \in stores
        /\ job[t].kind = "persist" /\ here => job[t].list = AliasesFor(x)
        /\ job[t].kind \in {"remove", "purging"} /\ here => Unregistered(x)
        /\ job[t].kind \in {"list", "persist", "purging"} /\ ~here => Consistent(x)
        /\ job[t].kind = "release" => Consistent(x) /\ x \notin stores
        /\ job[t].kind = "purge" => Consistent(x)
        /\ job[t].kind = "swap" =>
               /\ job[t].p \notin dirs
               /\ ~here => Unregistered(x)
               /\ here => /\ x \in stores /\ route[x] = x
                          /\ x \notin Static => x \in dyn /\ listed[job[t].name] = AliasesFor(x)

IInv ==
    /\ TypeOK
    /\ TableInv
    /\ \A t \in Threads : JobFits(t)
    /\ Alone
    /\ up => \A x \in Addresses \ disturbed : ~ Busy(x) => Consistent(x)
    /\ ~ up => \A x \in Addresses \ disturbed : x \notin Static => x \notin listed[x]
    /\ \A t \in Threads : \A x \in job[t].on \ disturbed : Left(t, x)

-----------------------------------------------------------------------------
(* Jobs.                                                                   *)

\* Only t's request changes, to one with these fields.
Becomes(t, next) ==
    /\ job' \in [Threads -> Job]
    /\ job'[t] = next
    /\ \A u \in Threads \ {t} : job'[u] = job[u]

LEMMA IdleIs ==
    /\ Idle \in Job /\ Idle.kind = "idle" /\ Idle.on = {} /\ Idle.p = None /\ Idle.did = None
    /\ Idle.name = None
  BY DEF Idle, Job, Kind

LEMMA JobIs ==
    ASSUME NEW j \in Job
    PROVE  /\ j.kind \in Kind /\ j.on \subseteq Addresses /\ j.list \subseteq Addresses
           /\ j.p \in {None} \cup Addresses /\ j.name \in {None} \cup Addresses
           /\ j.did \in {None} \cup Dids
  BY DEF Job

LEMMA Finishing ==
    ASSUME TypeOK, NEW t \in Threads, Finish(t)
    PROVE  Becomes(t, Idle)
  BY IdleIs DEF TypeOK, Finish, Becomes

LEMMA Going ==
    ASSUME TypeOK, NEW t \in Threads, NEW kind \in Kind, Go(t, kind)
    PROVE  /\ Becomes(t, job'[t]) /\ job'[t].kind = kind
           /\ job'[t].on = job[t].on /\ job'[t].p = job[t].p /\ job'[t].name = job[t].name
           /\ job'[t].did = job[t].did /\ job'[t].list = job[t].list
<1> DEFINE next == [job[t] EXCEPT !.kind = kind]
<1>1. job[t] \in Job
  BY DEF TypeOK
<1>2. /\ next \in Job /\ next.kind = kind /\ next.on = job[t].on /\ next.p = job[t].p
      /\ next.name = job[t].name /\ next.did = job[t].did /\ next.list = job[t].list
  BY <1>1 DEF Job
<1>3. job' = [job EXCEPT ![t] = next]
  BY DEF Go, TypeOK
<1> HIDE DEF next
<1>4. QED
  BY <1>2, <1>3 DEF TypeOK, Becomes

\* What a request leaves of the ghost and the bounds.
Counted ==
    /\ disturbed' \subseteq Addresses /\ disturbed \subseteq disturbed'
    /\ unbound' \subseteq Addresses
    /\ operations' \in 0..MaxOperations /\ crashes' \in 0..MaxCrashes
    /\ failures' \in 0..MaxFailures

LEMMA Disturbing ==
    ASSUME TypeOK, NEW S \in SUBSET Addresses, stores' \subseteq Addresses, Disturb(S)
    PROVE  /\ disturbed' \subseteq Addresses /\ disturbed \subseteq disturbed'
           /\ S \subseteq disturbed'
<1>1. Robbed \subseteq stores'
  BY DEF Robbed
<1>2. QED
  BY <1>1 DEF TypeOK, Disturb

LEMMA OverlapIs ==
    ASSUME TypeOK, NEW S \in SUBSET Addresses
    PROVE  /\ Overlap(S) \subseteq Addresses
           /\ \A u \in Threads : job[u].on \cap S = {} \/ S \cup job[u].on \subseteq Overlap(S)
<1>1. \A u \in Threads : job[u].on \subseteq Addresses
  BY JobIs DEF TypeOK
<1>2. QED
  BY <1>1 DEF Overlap

LEMMA FineCounted ==
    ASSUME TypeOK, stores' \subseteq Addresses, NEW t, NEW kind, Step(t, kind), Fine
    PROVE  Counted
  BY Disturbing DEF TypeOK, Fine, Step, Counted

LEMMA FailCounted ==
    ASSUME TypeOK, stores' \subseteq Addresses, NEW t, NEW kind, Step(t, kind),
           NEW p \in Addresses, FailFor(p)
    PROVE  Counted /\ p \in disturbed'
<1>1. failures' \in 0..MaxFailures
  BY AccountsAssumption DEF TypeOK, FailFor
<1>2. QED
  BY <1>1, Disturbing DEF TypeOK, FailFor, Step, Counted

-----------------------------------------------------------------------------
(* What a step leaves alone.                                               *)

\* Outside S nothing changes, but that an address may be taken from a disturbed account.
Elsewhere(S) ==
    \A x \in Addresses \ S :
        /\ x \in stores' <=> x \in stores
        /\ x \in dyn' <=> x \in dyn
        /\ x \in dirs' <=> x \in dirs
        /\ listed'[x] = listed[x]
        /\ x \notin disturbed' =>
               /\ AliasesFor(x)' = AliasesFor(x)
               /\ x \in stores /\ route[x] = x => route'[x] = x

\* Addresses are given to the accounts of S and taken from them, or are in the ghost.
Moved(S) ==
    \A a \in Addresses : \/ route'[a] = route[a]
                         \/ route'[a] \in S
                         \/ route'[a] = None /\ route[a] \in S

LEMMA TableElsewhere ==
    ASSUME TypeOK, TableInv, TableInv', NEW S \in SUBSET Addresses, Moved(S),
           NEW D, Disturb(D), NEW x \in Addresses \ S, x \in stores' <=> x \in stores,
           x \notin disturbed'
    PROVE  /\ AliasesFor(x)' = AliasesFor(x)
           /\ x \in stores /\ route[x] = x => route'[x] = x
<1>1. CASE x \in stores
  <2>1. ASSUME NEW a \in Addresses, route[a] = x
        PROVE  route'[a] = x
    <3>1. x \notin Robbed
      BY DEF Disturb
    <3>2. route'[a] \in {None, x}
      BY <1>1, <2>1, <3>1 DEF Robbed
    <3>3. x # None
      BY AccountsAssumption
    <3>4. QED
      BY <2>1, <3>2, <3>3, AccountsAssumption DEF Moved
  <2>2. ASSUME NEW a \in Addresses, route'[a] = x
        PROVE  route[a] = x
    BY <2>2, AccountsAssumption DEF Moved
  <2>3. QED
    BY <2>1, <2>2 DEF AliasesFor
<1>2. CASE x \notin stores
  <2>1. x # None
    BY AccountsAssumption
  <2>2. AliasesFor(x) = {} /\ AliasesFor(x)' = {}
    BY <1>2, <2>1 DEF TableInv, RoutingClosed, AliasesFor
  <2>3. QED
    BY <1>2, <2>2
<1>3. QED
  BY <1>1, <1>2

LEMMA SameTableElsewhere ==
    ASSUME NEW S \in SUBSET Addresses, UNCHANGED memory,
           \A x \in Addresses \ S :
               /\ x \in dirs' <=> x \in dirs
               /\ listed'[x] = listed[x]
    PROVE  Elsewhere(S)
  BY DEF Elsewhere, memory, AliasesFor

LEMMA ConsistentElsewhere ==
    ASSUME NEW S, Elsewhere(S), NEW x \in Addresses \ S, x \notin disturbed', Consistent(x)
    PROVE  Consistent(x)'
  BY DEF Elsewhere, Consistent, Whole

LEMMA LeftElsewhere ==
    ASSUME TypeOK, NEW S, Elsewhere(S), NEW u \in Threads, JobFits(u), job'[u] = job[u],
           job[u].on \cap S = {}, NEW x \in job[u].on, x \notin disturbed', Left(u, x)
    PROVE  Left(u, x)'
<1>1. x \in Addresses \ S
  BY JobIs DEF TypeOK
<1>2. Consistent(x) => Consistent(x)'
  BY <1>1, ConsistentElsewhere
<1>3. /\ x \in stores' <=> x \in stores
      /\ Whole(x) => Whole(x)'
      /\ Unregistered(x) => Unregistered(x)'
      /\ x \in dirs' <=> x \in dirs
      /\ x \in dyn' <=> x \in dyn
      /\ listed'[x] = listed[x]
      /\ AliasesFor(x)' = AliasesFor(x)
      /\ x \in stores /\ route[x] = x => route'[x] = x
  BY <1>1 DEF Elsewhere, Whole, Unregistered
<1>4. CASE job[u].kind # "swap"
  BY <1>2, <1>3, <1>4 DEF Left
<1>5. CASE job[u].kind = "swap"
  <2>1. job[u].p \in Addresses \ S /\ job[u].name \in Addresses \ S
    BY <1>5, JobIs DEF JobFits, TypeOK
  <2>2. /\ job[u].p \in dirs' <=> job[u].p \in dirs
        /\ listed'[job[u].name] = listed[job[u].name]
    BY <2>1 DEF Elsewhere
  <2>3. QED
    BY <1>3, <1>5, <2>2 DEF Left
<1>6. QED
  BY <1>4, <1>5

\* A step of t's request that changes no account outside S.
LEMMA StepKeepsIInv ==
    ASSUME IInv, NEW t \in Threads, NEW S \in SUBSET Addresses,
           TypeOK', TableInv', JobFits(t)', up, up', disturbed \subseteq disturbed',
           \A u \in Threads \ {t} : job'[u] = job[u],
           job[t].on \subseteq S, job'[t].on \subseteq S, Elsewhere(S),
           \A u \in Threads \ {t} : job[u].on \cap S = {} \/ S \cup job[u].on \subseteq disturbed',
           \A x \in job'[t].on \ disturbed' : Left(t, x)',
           \A x \in S \ disturbed' : x \notin job'[t].on => Consistent(x)'
    PROVE  IInv'
<1> USE DEF IInv
<1>1. \A u \in Threads : JobFits(u)'
  BY DEF JobFits
<1>2. Alone'
  <2>1. ASSUME NEW u \in Threads \ {t}
        PROVE  job'[t].on \cap job'[u].on = {} \/ job'[t].on \cup job'[u].on \subseteq disturbed'
    BY <2>1
  <2>2. QED
    BY <2>1 DEF Alone
<1>3. ASSUME NEW x \in Addresses \ disturbed', ~ Busy(x)'
      PROVE  Consistent(x)'
  <2>1. x \notin job'[t].on /\ \A u \in Threads \ {t} : x \notin job[u].on
    BY <1>3 DEF Busy
  <2>2. CASE x \in S
    BY <1>3, <2>1, <2>2
  <2>3. CASE x \notin S
    <3>1. Consistent(x)
      BY <1>3, <2>1, <2>3 DEF Busy
    <3>2. QED
      BY <1>3, <2>3, <3>1, ConsistentElsewhere
  <2>4. QED
    BY <2>2, <2>3
<1>5. ASSUME NEW u \in Threads \ {t}, NEW x \in job'[u].on \ disturbed'
      PROVE  Left(u, x)'
  <2>1. job[u].on \cap S = {} /\ x \in job[u].on /\ x \notin disturbed /\ job'[u] = job[u]
    BY <1>5
  <2>2. QED
    BY <1>5, <2>1, LeftElsewhere
<1>6. QED
  BY <1>1, <1>2, <1>3, <1>5

\* What the accounts of a request are to the others.
LEMMA OwnAccounts ==
    ASSUME IInv, NEW t \in Threads, disturbed \subseteq disturbed'
    PROVE  \A u \in Threads \ {t} :
               job[u].on \cap job[t].on = {} \/ job[t].on \cup job[u].on \subseteq disturbed'
  BY DEF IInv, Alone

-----------------------------------------------------------------------------
(* One lemma for each action.  First, how a request begins.                *)

LEMMA Beginning ==
    ASSUME IInv, NEW t \in Threads, NEW next \in Job, Begin(t, next), stores' \subseteq Addresses
    PROVE  /\ up /\ up' = up /\ job[t] = Idle /\ Becomes(t, next) /\ Counted
           /\ \A u \in Threads \ {t} :
                  job[u].on \cap next.on = {} \/ next.on \cup job[u].on \subseteq disturbed'
           /\ \A x \in next.on \ disturbed' : ~ Busy(x)
<1> USE DEF IInv
<1>1. up /\ up' = up /\ job[t] = Idle /\ Becomes(t, next)
  BY DEF Begin, TypeOK, Becomes
<1>2. next.on \in SUBSET Addresses
  BY JobIs
<1>3. Overlap(next.on) \in SUBSET Addresses /\ stores' \subseteq Addresses
  BY <1>2, OverlapIs
<1>4. /\ disturbed' \subseteq Addresses /\ disturbed \subseteq disturbed'
      /\ Overlap(next.on) \subseteq disturbed'
  BY <1>3, Disturbing DEF Begin
<1>5. Counted
  BY <1>4, AccountsAssumption DEF Begin, TypeOK, Counted
<1>6. \A u \in Threads : job[u].on \cap next.on = {} \/ next.on \cup job[u].on \subseteq disturbed'
  BY <1>2, <1>4, OverlapIs
<1>7. \A x \in next.on \ disturbed' : ~ Busy(x)
  BY <1>6 DEF Busy
<1>8. QED
  BY <1>1, <1>5, <1>6, <1>7

\* A request that only begins.
LEMMA QuietBeginning ==
    ASSUME IInv, NEW t \in Threads, NEW next \in Job, Begin(t, next),
           UNCHANGED <<memory, disk, claim, status>>, JobFits(t)',
           \A x \in next.on \ disturbed' :
               Consistent(x) /\ Consistent(x)' => Left(t, x)'
    PROVE  IInv'
<1> USE DEF IInv
<1>1. next.on \in SUBSET Addresses
  BY JobIs
<1>2. /\ up /\ up' = up /\ job[t] = Idle /\ Becomes(t, next) /\ Counted
      /\ \A u \in Threads \ {t} :
             job[u].on \cap next.on = {} \/ next.on \cup job[u].on \subseteq disturbed'
      /\ \A x \in next.on \ disturbed' : ~ Busy(x)
  BY Beginning DEF TypeOK, memory
<1>3. TypeOK'
  BY <1>2 DEF TypeOK, Becomes, Counted, memory, disk
<1>4. TableInv'
  BY SameTableKeeps
<1>5. Elsewhere(next.on)
  BY <1>1, SameTableElsewhere DEF disk
<1>6. ASSUME NEW x \in next.on \ disturbed'
      PROVE  Consistent(x) /\ Consistent(x)'
  <2>1. x \in Addresses \ disturbed /\ ~ Busy(x)
    BY <1>1, <1>2, <1>6 DEF Counted
  <2>2. Consistent(x)
    BY <1>2, <2>1
  <2>3. Consistent(x)'
    BY <2>2 DEF Consistent, Whole, AliasesFor, memory, disk
  <2>4. QED
    BY <2>2, <2>3
<1>7. job'[t] = next /\ job[t].on = {}
  BY <1>2, IdleIs DEF Becomes
<1>8. QED
  BY <1>1, <1>2, <1>3, <1>4, <1>5, <1>6, <1>7, StepKeepsIInv DEF Becomes, Counted

LEMMA ProvisionIInv ==
    ASSUME IInv, NEW t \in Threads, NEW did \in Dids, NEW user \in Addresses,
           Provision(t, did, user)
    PROVE  IInv'
<1> DEFINE p == Primary(did, user)
<1> DEFINE next == [Idle EXCEPT !.kind = "claim", !.on = {p}, !.p = p, !.name = user, !.did = did]
<1>1. p \in Addresses
  BY AccountsAssumption DEF Primary
<1>2. /\ next \in Job /\ next.kind = "claim" /\ next.on = {p} /\ next.p = p
      /\ next.name = user /\ next.did = did
  BY <1>1 DEF Idle, Job, Kind
<1>3. p \notin stores /\ UNCHANGED <<memory, disk, claim, status>> /\ Begin(t, next)
  BY DEF Provision
<1> HIDE DEF next, p
<1>4. up' /\ job'[t] = next
  BY <1>2, <1>3, Beginning DEF Becomes, IInv, TypeOK, memory
<1>5. JobFits(t)'
  BY <1>2, <1>4 DEF JobFits
<1>6. \A x \in next.on \ disturbed' :
          Consistent(x) /\ Consistent(x)' => Left(t, x)'
  BY <1>2, <1>3, <1>4 DEF Left, memory
<1>7. QED
  BY <1>2, <1>3, <1>5, <1>6, QuietBeginning

\* Whoever is authenticated, or can be vouched for, has a directory.
LEMMA ExistingIs ==
    ASSUME TypeOK, NEW p \in Addresses, Exists(p) \/ Authenticated(p)
    PROVE  p \in dirs
  BY DEF TypeOK, Exists, Authenticated

LEMMA VouchIInv ==
    ASSUME IInv, NEW t \in Threads, NEW p \in Addresses, NEW did \in Dids, Vouch(t, p, did)
    PROVE  IInv'
<1> DEFINE next == [Idle EXCEPT !.kind = "vouched", !.on = {p}, !.p = p, !.did = did]
<1>1. /\ next \in Job /\ next.kind = "vouched" /\ next.on = {p} /\ next.p = p /\ next.did = did
  BY DEF Idle, Job, Kind
<1>2. p \in dirs /\ UNCHANGED <<memory, disk, claim, status>> /\ Begin(t, next)
  BY ExistingIs DEF Vouch, IInv
<1> HIDE DEF next
<1>3. up' /\ job'[t] = next
  BY <1>1, <1>2, Beginning DEF Becomes, IInv, TypeOK, memory
<1>4. JobFits(t)'
  BY <1>1, <1>3 DEF JobFits
<1>5. \A x \in next.on \ disturbed' :
          Consistent(x) /\ Consistent(x)' => Left(t, x)'
  BY <1>1, <1>2, <1>3 DEF Left, Consistent, Whole, disk
<1>6. QED
  BY <1>1, <1>2, <1>4, <1>5, QuietBeginning

LEMMA LookupIInv ==
    ASSUME IInv, NEW t \in Threads, NEW p \in Addresses, NEW desired \in {None} \cup Addresses,
           Lookup(t, p, desired)
    PROVE  IInv'
<1> DEFINE next == [Idle EXCEPT !.kind = "reconcile", !.on = {p}, !.p = p, !.name = desired]
<1>1. /\ next \in Job /\ next.kind = "reconcile" /\ next.on = {p} /\ next.p = p
      /\ next.did = None
  BY DEF Idle, Job, Kind
<1>2. p \in stores /\ UNCHANGED <<memory, disk, claim, status>> /\ Begin(t, next)
  BY DEF Lookup
<1> HIDE DEF next
<1>3. up' /\ job'[t] = next
  BY <1>1, <1>2, Beginning DEF Becomes, IInv, TypeOK, memory
<1>4. JobFits(t)'
  BY <1>1, <1>3 DEF JobFits
<1>5. \A x \in next.on \ disturbed' :
          Consistent(x) /\ Consistent(x)' => Left(t, x)'
  BY <1>1, <1>2, <1>3 DEF Left, memory
<1>6. QED
  BY <1>1, <1>2, <1>4, <1>5, QuietBeginning

LEMMA PurgeScanIInv ==
    ASSUME IInv, NEW t \in Threads, NEW inactive \in SUBSET Addresses, PurgeScan(t, inactive)
    PROVE  IInv'
<1> DEFINE next == [Idle EXCEPT !.kind = "purge", !.on = inactive]
<1>1. /\ next \in Job /\ next.kind = "purge" /\ next.on = inactive
  BY DEF Idle, Job, Kind
<1>2. UNCHANGED <<memory, disk, claim, status>> /\ Begin(t, next)
  BY DEF PurgeScan
<1> HIDE DEF next
<1>3. up' /\ job'[t] = next
  BY <1>1, <1>2, Beginning DEF Becomes, IInv, TypeOK, memory
<1>4. JobFits(t)'
  BY <1>1, <1>3 DEF JobFits
<1>5. \A x \in next.on \ disturbed' :
          Consistent(x) /\ Consistent(x)' => Left(t, x)'
  BY <1>1, <1>3 DEF Left
<1>6. QED
  BY <1>1, <1>2, <1>4, <1>5, QuietBeginning

LEMMA DeleteIInv ==
    ASSUME IInv, NEW t \in Threads, NEW p \in Addresses, Delete(t, p)
    PROVE  IInv'
<1> USE DEF IInv
<1> DEFINE next == [Idle EXCEPT !.kind = "remove", !.on = {p}, !.p = p]
<1>1. /\ next \in Job /\ next.kind = "remove" /\ next.on = {p} /\ next.p = p /\ next.did = None
  BY DEF Idle, Job, Kind
<1>2. DropRoute(p) /\ UNCHANGED <<disk, claim>> /\ Begin(t, next)
  BY DEF Delete
<1> HIDE DEF next
<1>3. stores' \subseteq Addresses
  BY <1>2 DEF DropRoute, TypeOK
<1>4. /\ up /\ up' = up /\ job[t] = Idle /\ Becomes(t, next) /\ Counted
      /\ \A u \in Threads \ {t} : job[u].on \cap {p} = {} \/ {p} \cup job[u].on \subseteq disturbed'
      /\ p \notin disturbed' => ~ Busy(p)
  BY <1>1, <1>2, <1>3, Beginning
<1>5. TypeOK'
  BY <1>2, <1>3, <1>4 DEF TypeOK, Becomes, Counted, DropRoute, disk
<1>6. TableInv'
  BY <1>2, DropRouteKeeps
<1>7. Elsewhere({p})
  <2>1. Moved({p})
    BY <1>2 DEF DropRoute, Moved
  <2>2. \A x \in Addresses \ {p} : /\ x \in stores' <=> x \in stores
                                   /\ x \in dyn' <=> x \in dyn
    BY <1>2 DEF DropRoute, TypeOK
  <2>3. \A x \in Addresses \ {p} : x \notin disturbed' =>
            /\ AliasesFor(x)' = AliasesFor(x)
            /\ x \in stores /\ route[x] = x => route'[x] = x
    BY <1>2, <1>6, <2>1, <2>2, TableElsewhere DEF Begin
  <2>4. QED
    BY <1>2, <2>2, <2>3 DEF Elsewhere, disk
<1>8. JobFits(t)'
  BY <1>1, <1>4 DEF JobFits, Becomes
<1>9. Unregistered(p)'
  BY <1>2 DEF Unregistered, DropRoute, TypeOK
<1>10. \A x \in job'[t].on \ disturbed' : Left(t, x)'
  BY <1>1, <1>4, <1>9 DEF Left, Becomes
<1>12. QED
  BY <1>1, <1>4, <1>5, <1>6, <1>7, <1>8, <1>10, StepKeepsIInv, IdleIs
     DEF Becomes, Counted

LEMMA ChangeAliasIInv ==
    ASSUME IInv, NEW t \in Threads, NEW p \in Addresses, NEW a \in Addresses,
           ChangeAlias(t, p, a)
    PROVE  IInv'
<1> USE DEF IInv
<1> DEFINE next == [Idle EXCEPT !.kind = "list", !.on = {p}, !.p = p, !.name = a]
<1>1. /\ next \in Job /\ next.kind = "list" /\ next.on = {p} /\ next.p = p /\ next.did = None
  BY DEF Idle, Job, Kind
<1>2. /\ Authenticated(p)
      /\ \/ p \in stores /\ AddAlias(a, p)
         \/ a # p /\ route[a] = p /\ route' = [route EXCEPT ![a] = None]
      /\ UNCHANGED <<stores, dyn, disk, claim, status>> /\ Begin(t, next)
  BY DEF ChangeAlias
<1> HIDE DEF next
<1>3. stores' \subseteq Addresses
  BY <1>2 DEF TypeOK
<1>4. /\ up /\ up' = up /\ job[t] = Idle /\ Becomes(t, next) /\ Counted
      /\ \A u \in Threads \ {t} : job[u].on \cap {p} = {} \/ {p} \cup job[u].on \subseteq disturbed'
      /\ p \notin disturbed' => ~ Busy(p)
  BY <1>1, <1>2, <1>3, Beginning
<1>5. /\ route' \in [Addresses -> {None} \cup Addresses]
      /\ Moved({p}) /\ (route[p] = p => route'[p] = p)
  <2>1. CASE p \in stores /\ AddAlias(a, p)
    BY <2>1 DEF AddAlias, Moved, TypeOK
  <2>2. CASE a # p /\ route[a] = p /\ route' = [route EXCEPT ![a] = None]
    BY <2>2 DEF Moved, TypeOK
  <2>3. QED
    BY <1>2, <2>1, <2>2
<1>6. TypeOK'
  BY <1>2, <1>4, <1>5 DEF TypeOK, Becomes, Counted, disk
<1>7. TableInv'
  BY RequestTable DEF Request
<1>8. Elsewhere({p})
  BY <1>2, <1>5, <1>7, TableElsewhere DEF Begin, Elsewhere, disk
<1>9. JobFits(t)'
  BY <1>1, <1>4 DEF JobFits, Becomes
<1>10. p \notin disturbed' => Consistent(p)
  BY <1>4 DEF Counted
<1>11. p \notin disturbed' => Whole(p)' /\ p \in stores'
  <2>1. p \in dirs
    BY <1>2, ExistingIs
  <2>2. QED
    BY <1>2, <1>5, <1>10, <2>1 DEF Consistent, Whole, disk
<1>12. \A x \in job'[t].on \ disturbed' : Left(t, x)'
  BY <1>1, <1>4, <1>11 DEF Left, Becomes
<1>14. QED
  BY <1>1, <1>4, <1>6, <1>7, <1>8, <1>9, <1>12, StepKeepsIInv, IdleIs
     DEF Becomes, Counted

\* A request of one step that leaves the table, and what is said of it, as it is.
LEMMA OneStepIInv ==
    ASSUME IInv, NEW t \in Threads, NEW p \in Addresses, Do(t, p), TypeOK', UNCHANGED memory,
           UNCHANGED <<dirs, listed, status>>,
           claim'[p] = claim[p] \/ claim'[p] # None,
           \A x \in Addresses \ {p} : claim'[x] = claim[x]
    PROVE  IInv'
<1> USE DEF IInv
<1>1. /\ up /\ up' = up /\ job[t] = Idle /\ job' = job
      /\ Disturb(Overlap({p}))
  BY DEF Do
<1>2. /\ Overlap({p}) \in SUBSET Addresses
      /\ \A u \in Threads : job[u].on \cap {p} = {} \/ {p} \cup job[u].on \subseteq Overlap({p})
  BY OverlapIs
<1>3. disturbed \subseteq disturbed' /\ Overlap({p}) \subseteq disturbed'
  BY <1>1, <1>2, Disturbing DEF TypeOK
<1>4. TableInv'
  BY SameTableKeeps
<1>5. Elsewhere({p})
  BY SameTableElsewhere
<1>6. JobFits(t)'
  BY <1>1 DEF JobFits
<1>7. ASSUME p \notin disturbed'
      PROVE  Consistent(p)'
  <2>1. ~ Busy(p)
    BY <1>2, <1>3, <1>7 DEF Busy
  <2>2. Consistent(p)
    BY <1>1, <1>3, <1>7, <2>1
  <2>3. Consistent(p)'
    BY <2>2 DEF Consistent, Whole, AliasesFor, memory
  <2>4. QED
    BY <2>2, <2>3
<1>8. QED
  BY <1>1, <1>2, <1>3, <1>4, <1>5, <1>6, <1>7, StepKeepsIInv, IdleIs

LEMMA DoCounted ==
    ASSUME TypeOK, NEW t \in Threads, NEW p \in Addresses, Do(t, p), UNCHANGED memory
    PROVE  Counted
<1>1. Overlap({p}) \in SUBSET Addresses /\ stores' \subseteq Addresses
  BY OverlapIs DEF TypeOK, memory
<1>2. disturbed' \subseteq Addresses /\ disturbed \subseteq disturbed'
  BY <1>1, Disturbing DEF Do
<1>3. QED
  BY <1>2, AccountsAssumption DEF Do, TypeOK, Counted

LEMMA RevokeDeviceIInv ==
    ASSUME IInv, NEW t \in Threads, NEW p \in Addresses, NEW did \in Dids,
           RevokeDevice(t, p, did)
    PROVE  IInv'
<1>1. /\ Do(t, p) /\ UNCHANGED memory /\ UNCHANGED <<dirs, hash, listed, claim, status>>
      /\ owners' = [owners EXCEPT ![p] = @ \ {did}]
  BY DEF RevokeDevice
<1>2. TypeOK'
  BY <1>1, DoCounted DEF IInv, TypeOK, Counted, Do, memory
<1>3. QED
  BY <1>1, <1>2, OneStepIInv

LEMMA BindDidIInv ==
    ASSUME IInv, NEW t \in Threads, NEW p \in Addresses, NEW did \in Dids, BindDid(t, p, did)
    PROVE  IInv'
<1>1. /\ Do(t, p) /\ UNCHANGED memory /\ UNCHANGED disk /\ UNCHANGED status
      /\ claim' = [claim EXCEPT ![p] = did]
  BY DEF BindDid
<1>2. TypeOK'
  BY <1>1, DoCounted DEF IInv, TypeOK, Counted, Do, memory, disk
<1>3. claim'[p] # None /\ \A x \in Addresses \ {p} : claim'[x] = claim[x]
  BY <1>1, AccountsAssumption DEF IInv, TypeOK
<1>4. QED
  BY <1>1, <1>2, <1>3, OneStepIInv DEF disk

LEMMA MigrateIInv ==
    ASSUME IInv, NEW t \in Threads, NEW p \in Addresses, NEW did \in Dids, Migrate(t, p, did)
    PROVE  IInv'
<1> USE DEF IInv
<1> DEFINE s == Scid[did]
<1> DEFINE next == [Idle EXCEPT !.kind = "swap", !.on = {p, s}, !.p = p, !.name = s]
<1>1. /\ s \in Addresses /\ s # p /\ s \notin dirs /\ p \in dirs
      /\ MoveDir(p, s) /\ UNCHANGED <<memory, claim, status>> /\ Begin(t, next)
  BY AccountsAssumption DEF Migrate
<1> HIDE DEF s
<1>2. /\ next \in Job /\ next.kind = "swap" /\ next.on = {p, s} /\ next.p = p /\ next.name = s
      /\ next.did = None
  BY <1>1 DEF Idle, Job, Kind
<1> HIDE DEF next
<1>3. stores' \subseteq Addresses
  BY <1>1 DEF memory, TypeOK
<1>4. /\ up /\ up' = up /\ job[t] = Idle /\ Becomes(t, next) /\ Counted
      /\ \A u \in Threads \ {t} :
             job[u].on \cap {p, s} = {} \/ {p, s} \cup job[u].on \subseteq disturbed'
      /\ \A x \in {p, s} \ disturbed' : ~ Busy(x)
  BY <1>1, <1>2, <1>3, Beginning
<1>5. /\ p \notin dirs' /\ s \in dirs'
      /\ listed'[s] = listed[p]
      /\ \A x \in Addresses \ {p, s} : (x \in dirs' <=> x \in dirs) /\ listed'[x] = listed[x]
  BY <1>1 DEF MoveDir, TypeOK
<1>6. TypeOK'
  BY <1>1, <1>4 DEF TypeOK, Becomes, Counted, memory, MoveDir
<1>7. TableInv'
  BY <1>1, SameTableKeeps
<1>8. Elsewhere({p, s})
  BY <1>1, <1>5, SameTableElsewhere
<1>9. JobFits(t)'
  BY <1>1, <1>2, <1>4 DEF JobFits, Becomes
<1>10. \A x \in {p, s} \ disturbed' : Consistent(x)
  BY <1>1, <1>4 DEF Counted
<1>11. \A x \in {p, s} \ disturbed' : Left(t, x)'
  <2>1. /\ job'[t].kind = "swap" /\ job'[t].p = p /\ job'[t].name = s
    BY <1>2, <1>4 DEF Becomes
  <2>2. ASSUME p \notin disturbed'
        PROVE  /\ p \in stores' /\ route'[p] = p
               /\ p \notin Static => p \in dyn' /\ listed'[s] = AliasesFor(p)'
    <3>1. Consistent(p)
      BY <1>10, <2>2
    <3>2. QED
      BY <1>1, <1>5, <3>1 DEF Consistent, Whole, AliasesFor, memory
  <2>3. ASSUME s \notin disturbed'
        PROVE  Unregistered(s)'
    BY <1>1, <1>10, <2>3 DEF Consistent, Whole, Unregistered, memory
  <2>4. QED
    BY <1>1, <1>5, <2>1, <2>2, <2>3 DEF Left
<1>13. QED
  BY <1>1, <1>2, <1>4, <1>6, <1>7, <1>8, <1>9, <1>11, StepKeepsIInv, IdleIs
     DEF Becomes, Counted

\* What t's request is when it takes a step.
LEMMA Stepping ==
    ASSUME IInv, NEW t \in Threads, NEW kind \in Kind \ {"idle"}, Step(t, kind)
    PROVE  /\ up /\ up' = up /\ job[t].kind = kind /\ job[t] \in Job
           /\ job[t].on \in SUBSET Addresses
           /\ kind # "purge" => job[t].p \in Addresses /\ job[t].p \in job[t].on
           /\ JobFits(t)
<1>1. job[t] \in Job /\ JobFits(t)
  BY DEF IInv, TypeOK
<1>2. job[t].on \in SUBSET Addresses
  BY <1>1, JobIs
<1>3. QED
  BY <1>1, <1>2 DEF Step, JobFits

\* A step of a request at the accounts it has.
LEMMA OwnStep ==
    ASSUME IInv, NEW t \in Threads, NEW kind \in Kind \ {"idle"}, Step(t, kind),
           TypeOK', TableInv', Counted, Becomes(t, job'[t]), job'[t].on \subseteq job[t].on,
           JobFits(t)', Elsewhere(job[t].on),
           \A x \in job[t].on \ disturbed' :
               Left(t, x) =>
                   /\ x \in job'[t].on => Left(t, x)'
                   /\ x \notin job'[t].on => Consistent(x)'
    PROVE  IInv'
<1> USE DEF IInv
<1>1. /\ up /\ up' = up /\ job[t].on \in SUBSET Addresses
  BY Stepping
<1>2. disturbed \subseteq disturbed'
  BY DEF Counted
<1>3. \A u \in Threads \ {t} :
          job[u].on \cap job[t].on = {} \/ job[t].on \cup job[u].on \subseteq disturbed'
  BY <1>2, OwnAccounts
<1>4. \A x \in job[t].on \ disturbed' : Left(t, x)
  BY <1>1, <1>2
<1>5. QED
  BY <1>1, <1>2, <1>3, <1>4, StepKeepsIInv DEF Becomes

\* The same for a step that leaves the table alone and is at one account.
LEMMA QuietStep ==
    ASSUME IInv, NEW t \in Threads, NEW kind \in Kind \ {"idle"}, Step(t, kind),
           TypeOK', UNCHANGED memory, Counted, Becomes(t, job'[t]),
           job'[t].on \subseteq job[t].on, JobFits(t)',
           \A x \in Addresses \ {job[t].p} :
               /\ x \in dirs' <=> x \in dirs
               /\ listed'[x] = listed[x],
           \A x \in job[t].on \ disturbed' :
               Left(t, x) =>
                   /\ x \in job'[t].on => Left(t, x)'
                   /\ x \notin job'[t].on => Consistent(x)',
           kind # "purge"
    PROVE  IInv'
<1>1. TableInv'
  BY SameTableKeeps DEF IInv
<1>2. job[t].p \in job[t].on /\ job[t].on \in SUBSET Addresses
  BY Stepping
<1>3. Elsewhere(job[t].on)
  BY <1>2, SameTableElsewhere
<1>4. QED
  BY <1>1, <1>3, OwnStep

LEMMA ClaimIInv ==
    ASSUME IInv, NEW t \in Threads, Claim(t)
    PROVE  IInv'
<1> USE AccountsAssumption
<1>0. PICK p : p = job[t].p
  OBVIOUS
<1> USE <1>0
<1>1. /\ Step(t, "claim") /\ UNCHANGED <<memory, disk, status>>
      /\ \/ /\ claim' = [claim EXCEPT ![p] = job[t].did]
            /\ (Go(t, "device") /\ Fine) \/ (Finish(t) /\ FailFor(p))
         \/ Finish(t) /\ Fine /\ UNCHANGED claim
         \/ Finish(t) /\ FailFor(p) /\ UNCHANGED claim
  BY DEF Claim
<1>2. "claim" \in Kind \ {"idle"} /\ "device" \in Kind
  BY DEF Kind
<1>3. /\ job[t].kind = "claim" /\ p \in Addresses /\ job[t].on = {p} /\ up /\ up' = up
      /\ job[t].name \in Addresses /\ job[t].did \in Dids
  BY <1>1, <1>2, Stepping DEF JobFits
<1>4. /\ Becomes(t, job'[t])
      /\ \/ job'[t] = Idle
         \/ /\ job'[t].kind = "device" /\ claim'[p] = job[t].did
            /\ job'[t].on = job[t].on /\ job'[t].p = p /\ job'[t].name = job[t].name
            /\ job'[t].did = job[t].did
  BY <1>1, <1>2, <1>3, Going, Finishing DEF IInv, TypeOK, Becomes
<1>5. Counted
  BY <1>1, <1>3, FineCounted, FailCounted DEF IInv, TypeOK, memory
<1>6. TypeOK'
  BY <1>1, <1>3, <1>4, <1>5 DEF IInv, TypeOK, Becomes, Counted, memory, disk
<1>7. JobFits(t)'
  BY <1>3, <1>4, IdleIs DEF JobFits
<1>8. /\ claim'[p] = claim[p] \/ claim'[p] # None
      /\ \A x \in Addresses \ {p} : claim'[x] = claim[x]
  BY <1>1, <1>3 DEF IInv, TypeOK
<1>9. Consistent(p) => Consistent(p)'
  BY <1>1 DEF Consistent, Whole, AliasesFor, memory, disk
<1>10. Left(t, p) =>
          /\ p \in job'[t].on => Left(t, p)'
          /\ p \notin job'[t].on => Consistent(p)'
  BY <1>1, <1>3, <1>4, <1>8, <1>9, IdleIs DEF Left, memory
<1>11. QED
  BY <1>1, <1>2, <1>3, <1>4, <1>5, <1>6, <1>7, <1>8, <1>10, QuietStep, IdleIs DEF disk

LEMMA AddDeviceIInv ==
    ASSUME IInv, NEW t \in Threads, AddDevice(t)
    PROVE  IInv'
<1> USE AccountsAssumption
<1>0. PICK p : p = job[t].p
  OBVIOUS
<1> USE <1>0
<1>1. /\ Step(t, "device") /\ UNCHANGED <<memory, claim, hash, listed, status>>
      /\ \/ /\ owners' = [owners EXCEPT ![p] = @ \cup {job[t].did}]
            /\ MakeDir(p) /\ Go(t, "open") /\ Fine
         \/ Finish(t) /\ Disturb({p}) /\ UNCHANGED <<dirs, owners, unbound, failures>>
  BY DEF AddDevice
<1>2. "device" \in Kind \ {"idle"} /\ "open" \in Kind
  BY DEF Kind
<1>3. /\ job[t].kind = "device" /\ p \in Addresses /\ job[t].on = {p} /\ up /\ up' = up
      /\ job[t].name \in Addresses /\ job[t].did \in Dids
  BY <1>1, <1>2, Stepping DEF JobFits
<1>4. /\ Becomes(t, job'[t])
      /\ \/ job'[t] = Idle /\ UNCHANGED <<dirs, owners>>
         \/ /\ job'[t].kind = "open" /\ MakeDir(p)
            /\ job'[t].on = job[t].on /\ job'[t].p = p /\ job'[t].name = job[t].name
            /\ job'[t].did = job[t].did
  BY <1>1, <1>2, <1>3, Going, Finishing DEF IInv, Becomes
<1>5. Counted /\ (job'[t] = Idle => p \in disturbed')
  <2>1. stores' \subseteq Addresses
    BY <1>1 DEF IInv, TypeOK, memory
  <2>2. CASE Go(t, "open") /\ Fine
    BY <1>1, <1>2, <2>1, <2>2, FineCounted, Going, IdleIs DEF IInv
  <2>3. CASE Disturb({p}) /\ UNCHANGED <<unbound, failures>>
    BY <1>1, <1>3, <2>1, <2>3, Disturbing DEF IInv, TypeOK, Counted, Step
  <2>4. QED
    BY <1>1, <2>2, <2>3
<1>6. TypeOK'
  <2>1. CASE UNCHANGED <<dirs, owners>>
    BY <1>1, <1>3, <1>4, <1>5, <2>1 DEF IInv, TypeOK, Becomes, Counted, memory
  <2>2. CASE MakeDir(p) /\ owners' = [owners EXCEPT ![p] = @ \cup {job[t].did}]
    BY <1>1, <1>3, <1>4, <1>5, <2>2 DEF IInv, TypeOK, Becomes, Counted, memory, MakeDir
  <2>3. QED
    BY <1>1, <2>1, <2>2
<1>7. JobFits(t)'
  BY <1>3, <1>4, IdleIs DEF JobFits
<1>8. \A x \in Addresses \ {p} : x \in dirs' <=> x \in dirs
  BY <1>4 DEF MakeDir
\* No directory before: no aliases in it, and none in the table.
<1>9. p \notin disturbed' /\ Left(t, p) => Unregistered(p)' /\ p \in dirs' /\ listed'[p] = {}
  <2>1. ASSUME p \notin disturbed', Consistent(p), p \notin stores
        PROVE  Unregistered(p)' /\ p \in dirs' /\ listed'[p] = {}
    <3>1. p \notin dirs /\ Unregistered(p)
      BY <2>1 DEF Consistent, Whole, Unregistered
    <3>2. listed[p] = {}
      BY <1>3, <3>1 DEF IInv, TypeOK
    <3>3. QED
      BY <1>1, <1>4, <1>5, <2>1, <3>1, <3>2 DEF Unregistered, MakeDir, memory
  <2>2. QED
    BY <1>3, <2>1 DEF Left
<1>10. p \notin disturbed' /\ Left(t, p) =>
          /\ p \in job'[t].on => Left(t, p)'
          /\ p \notin job'[t].on => Consistent(p)'
  BY <1>1, <1>3, <1>4, <1>5, <1>9, IdleIs DEF Left
<1>11. QED
  BY <1>1, <1>2, <1>3, <1>4, <1>5, <1>6, <1>7, <1>8, <1>10, QuietStep, IdleIs

LEMMA OpenStoreIInv ==
    ASSUME IInv, NEW t \in Threads, OpenStore(t)
    PROVE  IInv'
<1> USE AccountsAssumption
<1>0. PICK p : p = job[t].p
  OBVIOUS
<1> USE <1>0
<1>1. /\ Step(t, "open") /\ UNCHANGED <<memory, hash, owners, listed, claim, status>>
      /\ \/ MakeDir(p) /\ Go(t, "insert") /\ Fine
         \/ Go(t, "alias") /\ FailFor(p) /\ UNCHANGED dirs
  BY DEF OpenStore
<1>2. "open" \in Kind \ {"idle"} /\ "insert" \in Kind /\ "alias" \in Kind
  BY DEF Kind
<1>3. /\ job[t].kind = "open" /\ p \in Addresses /\ job[t].on = {p} /\ up /\ up' = up
      /\ job[t].name \in Addresses /\ job[t].did \in Dids
  BY <1>1, <1>2, Stepping DEF JobFits
<1>4. /\ Becomes(t, job'[t]) /\ job'[t].on = job[t].on /\ job'[t].p = p
      /\ job'[t].name = job[t].name /\ job'[t].did = job[t].did
      /\ \/ job'[t].kind = "insert" /\ MakeDir(p)
         \/ job'[t].kind = "alias" /\ UNCHANGED dirs
  BY <1>1, <1>2, <1>3, Going DEF IInv, Becomes
<1>5. Counted /\ (job'[t].kind = "alias" => p \in disturbed')
  <2>1. stores' \subseteq Addresses
    BY <1>1 DEF IInv, TypeOK, memory
  <2>2. CASE Go(t, "insert") /\ Fine
    BY <1>1, <1>2, <2>1, <2>2, FineCounted, Going DEF IInv
  <2>3. CASE FailFor(p)
    BY <1>1, <1>3, <2>1, <2>3, FailCounted DEF IInv
  <2>4. QED
    BY <1>1, <2>2, <2>3
<1>6. TypeOK'
  BY <1>1, <1>3, <1>4, <1>5 DEF IInv, TypeOK, Becomes, Counted, memory, MakeDir
<1>7. JobFits(t)'
  BY <1>3, <1>4 DEF JobFits
<1>8. \A x \in Addresses \ {p} : x \in dirs' <=> x \in dirs
  BY <1>4 DEF MakeDir
<1>9. p \notin disturbed' /\ Left(t, p) => Unregistered(p)' /\ p \in dirs' /\ listed'[p] = {}
  BY <1>1, <1>3, <1>4, <1>5 DEF Left, Unregistered, MakeDir, memory
<1>10. p \notin disturbed' /\ Left(t, p) =>
          /\ p \in job'[t].on => Left(t, p)'
          /\ p \notin job'[t].on => Consistent(p)'
  BY <1>1, <1>3, <1>4, <1>5, <1>9 DEF Left
<1>11. QED
  BY <1>1, <1>2, <1>3, <1>4, <1>5, <1>6, <1>7, <1>8, <1>10, QuietStep

LEMMA RegisterIInv ==
    ASSUME IInv, NEW t \in Threads, Register(t)
    PROVE  IInv'
<1> USE AccountsAssumption
<1>0. PICK p : p = job[t].p
  OBVIOUS
<1> USE <1>0
<1>1. /\ Step(t, "insert") /\ UNCHANGED <<disk, claim, status>>
      /\ dyn' = dyn \cup {p} /\ Insert(p, listed[p]) /\ Go(t, "alias") /\ Fine
  BY DEF Register
<1>2. "insert" \in Kind \ {"idle"} /\ "alias" \in Kind
  BY DEF Kind
<1>3. /\ job[t].kind = "insert" /\ p \in Addresses /\ job[t].on = {p} /\ up /\ up' = up
      /\ job[t].name \in Addresses /\ job[t].did \in Dids
  BY <1>1, <1>2, Stepping DEF JobFits
<1>4. /\ Becomes(t, job'[t]) /\ job'[t].on = job[t].on /\ job'[t].p = p
      /\ job'[t].name = job[t].name /\ job'[t].did = job[t].did /\ job'[t].kind = "alias"
  BY <1>1, <1>2, <1>3, Going DEF IInv, Becomes
<1>5. stores' \subseteq Addresses
  BY <1>1, <1>3 DEF IInv, TypeOK, Insert
<1>6. Counted
  BY <1>1, <1>5, FineCounted DEF IInv
<1>7. TypeOK'
  BY <1>1, <1>3, <1>4, <1>5, <1>6 DEF IInv, TypeOK, Becomes, Counted, disk, Insert
<1>8. TableInv'
  BY <1>1, InsertKeeps DEF IInv
<1>9. JobFits(t)'
  BY <1>3, <1>4 DEF JobFits
<1>10. Elsewhere({p})
  <2>1. Moved({p})
    BY <1>1 DEF Insert, Moved
  <2>2. \A x \in Addresses \ {p} : (x \in stores' <=> x \in stores) /\ (x \in dyn' <=> x \in dyn)
    BY <1>1 DEF Insert
  <2>3. \A x \in Addresses \ {p} : x \notin disturbed' =>
            /\ AliasesFor(x)' = AliasesFor(x)
            /\ x \in stores /\ route[x] = x => route'[x] = x
    BY <1>1, <1>3, <1>8, <2>1, <2>2, TableElsewhere DEF Fine, IInv
  <2>4. QED
    BY <1>1, <2>2, <2>3 DEF Elsewhere, disk
<1>11. p \notin disturbed' /\ Left(t, p) => Consistent(p)' /\ p \in stores'
  <2>1. ASSUME p \notin stores, p \in dirs, listed[p] = {}
        PROVE  Consistent(p)' /\ p \in stores'
    <3>1. p \in stores' /\ p \in dirs' /\ p \in dyn' /\ route'[p] = p
      BY <1>1, <1>3, <2>1 DEF Insert, disk
    <3>2. \A a \in Addresses \ {p} : route'[a] = route[a] /\ route[a] # p
      BY <1>1, <1>3, <2>1 DEF Insert, IInv, TableInv, RoutingClosed
    <3>3. AliasesFor(p)' = {} /\ listed'[p] = {}
      BY <1>1, <2>1, <3>2 DEF AliasesFor, disk
    <3>4. QED
      BY <3>1, <3>3 DEF Consistent, Whole
  <2>2. QED
    BY <1>3, <2>1 DEF Left, Unregistered
<1>12. p \notin disturbed' /\ Left(t, p) =>
          /\ Left(t, p)'
  BY <1>1, <1>3, <1>4, <1>11 DEF Left
<1>13. QED
  BY <1>1, <1>2, <1>3, <1>4, <1>6, <1>7, <1>8, <1>9, <1>10, <1>12, OwnStep

LEMMA NameAliasIInv ==
    ASSUME IInv, NEW t \in Threads, NameAlias(t)
    PROVE  IInv'
<1> USE AccountsAssumption
<1>0. PICK p, a : p = job[t].p /\ a = job[t].name
  OBVIOUS
<1> USE <1>0
<1>1. /\ Step(t, "alias") /\ UNCHANGED <<stores, dyn, disk, claim>> /\ Fine
      /\ \/ a = p /\ Answer(t) /\ UNCHANGED route
         \/ a # p /\ AddAlias(a, p) /\ Go(t, "list") /\ UNCHANGED status
  BY DEF NameAlias
<1>2. "alias" \in Kind \ {"idle"} /\ "list" \in Kind
  BY DEF Kind
<1>3. /\ job[t].kind = "alias" /\ p \in Addresses /\ job[t].on = {p} /\ up /\ up' = up
      /\ a \in Addresses /\ job[t].did \in Dids
  BY <1>1, <1>2, Stepping DEF JobFits
<1>4. \/ /\ Becomes(t, Idle) /\ status' = [status EXCEPT ![p] = "open"] /\ UNCHANGED route
      \/ /\ Becomes(t, job'[t]) /\ job'[t].on = job[t].on /\ job'[t].p = p
         /\ job'[t].did = job[t].did /\ job'[t].kind = "list"
         /\ a # p /\ AddAlias(a, p) /\ UNCHANGED status
  BY <1>1, <1>2, <1>3, Going, Finishing DEF IInv, Answer
<1>5. stores' \subseteq Addresses
  BY <1>1 DEF IInv, TypeOK
<1>6. Counted
  BY <1>1, <1>5, FineCounted DEF IInv
<1>7. route' \in [Addresses -> {None} \cup Addresses] /\ Moved({p})
      /\ (route[p] = p => route'[p] = p)
  BY <1>3, <1>4 DEF AddAlias, IInv, TypeOK, Moved
<1>8. TypeOK'
  BY <1>1, <1>3, <1>4, <1>6, <1>7 DEF IInv, TypeOK, Becomes, Counted, disk
<1>9. TableInv'
  BY ContinueTable DEF Continue, IInv
<1>10. JobFits(t)'
  BY <1>3, <1>4, IdleIs DEF JobFits, Becomes
<1>11. Elsewhere({p})
  <2>1. \A x \in Addresses \ {p} : x \notin disturbed' =>
            /\ AliasesFor(x)' = AliasesFor(x)
            /\ x \in stores /\ route[x] = x => route'[x] = x
    BY <1>1, <1>3, <1>7, <1>9, TableElsewhere DEF Fine, IInv
  <2>2. \A x \in Addresses \ {p} : status'[x] = status[x]
    BY <1>4 DEF IInv, TypeOK
  <2>3. QED
    BY <1>1, <2>1, <2>2 DEF Elsewhere, disk
<1>12. p \notin disturbed' /\ Left(t, p) =>
          /\ p \in job'[t].on => Left(t, p)'
          /\ p \notin job'[t].on => Consistent(p)'
  <2>1. CASE Becomes(t, Idle) /\ status' = [status EXCEPT ![p] = "open"] /\ UNCHANGED route
    <3>1. Consistent(p) => Consistent(p)'
      BY <1>1, <2>1 DEF Consistent, Whole, AliasesFor, disk
    <3>2. QED
      BY <1>1, <1>3, <2>1, <3>1, IdleIs DEF Left, Becomes
  <2>2. CASE /\ job'[t].on = job[t].on /\ job'[t].p = p
             /\ job'[t].did = job[t].did /\ job'[t].kind = "list" /\ UNCHANGED status
    BY <1>1, <1>3, <1>7, <2>2 DEF Left, Consistent, Whole, disk
  <2>3. QED
    BY <1>4, <2>1, <2>2
<1>13. Becomes(t, job'[t]) /\ job'[t].on \subseteq job[t].on
  BY <1>4, IdleIs DEF Becomes
<1>14. QED
  BY <1>1, <1>2, <1>3, <1>6, <1>8, <1>9, <1>10, <1>11, <1>12, <1>13, OwnStep

LEMMA ListAliasesIInv ==
    ASSUME IInv, NEW t \in Threads, ListAliases(t)
    PROVE  IInv'
<1> USE AccountsAssumption
<1>0. PICK p, next : p = job[t].p
          /\ next = [job[t] EXCEPT !.kind = "persist", !.list = AliasesFor(p)]
  OBVIOUS
<1> USE <1>0
<1>1. /\ Step(t, "list") /\ UNCHANGED <<memory, disk, claim, status>> /\ Fine
      /\ job' = [job EXCEPT ![t].kind = "persist", ![t].list = AliasesFor(p)]
  BY DEF ListAliases
<1>2. "list" \in Kind \ {"idle"} /\ "persist" \in Kind
  BY DEF Kind
<1>3. /\ job[t].kind = "list" /\ p \in Addresses /\ p \in job[t].on /\ up /\ up' = up
      /\ job[t] \in Job
  BY <1>1, <1>2, Stepping DEF JobFits
<1>4. /\ next \in Job /\ next.kind = "persist" /\ next.on = job[t].on /\ next.p = p
      /\ next.did = job[t].did /\ next.list = AliasesFor(p)
  BY <1>2, <1>3 DEF Job, AliasesFor
<1>5. Becomes(t, next)
  BY <1>1, <1>4 DEF IInv, TypeOK, Becomes
<1>6. Counted
  BY <1>1, FineCounted DEF IInv, TypeOK, memory
<1>7. TypeOK'
  BY <1>1, <1>3, <1>5, <1>6 DEF IInv, TypeOK, Becomes, Counted, memory, disk
<1>8. JobFits(t)'
  BY <1>3, <1>4, <1>5 DEF JobFits, Becomes
<1>9. \A x \in job[t].on \ disturbed' : Left(t, x) =>
          Left(t, x)'
  <2>1. job'[t] = next
    BY <1>5 DEF Becomes
  <2>2. \A x : AliasesFor(x)' = AliasesFor(x)
    BY <1>1 DEF AliasesFor, memory
  <2>3. \A x : (Whole(x) => Whole(x)') /\ (Consistent(x) => Consistent(x)')
    BY <1>1, <2>2 DEF Consistent, Whole, memory, disk
  <2>4. QED
    BY <1>1, <1>3, <1>4, <2>1, <2>2, <2>3 DEF Left, memory
<1>10. QED
  BY <1>1, <1>2, <1>3, <1>4, <1>5, <1>6, <1>7, <1>8, <1>9, QuietStep DEF disk, Becomes

LEMMA WriteAliasesIInv ==
    ASSUME IInv, NEW t \in Threads, WriteAliases(t)
    PROVE  IInv'
<1> USE AccountsAssumption
<1>0. PICK p : p = job[t].p
  OBVIOUS
<1> USE <1>0
<1>1. /\ Step(t, "persist") /\ UNCHANGED memory /\ UNCHANGED <<hash, owners, claim>>
      /\ Finish(t)
      /\ status' = IF job[t].did # None THEN [status EXCEPT ![p] = "open"] ELSE status
      /\ \/ MakeDir(p) /\ listed' = [listed EXCEPT ![p] = job[t].list] /\ Fine
         \/ FailFor(p) /\ UNCHANGED <<dirs, listed>>
  BY DEF WriteAliases, Answer
<1>2. "persist" \in Kind \ {"idle"}
  BY DEF Kind
<1>3. /\ job[t].kind = "persist" /\ p \in Addresses /\ p \in job[t].on /\ up /\ up' = up
      /\ job[t].list \subseteq Addresses
  BY <1>1, <1>2, Stepping, JobIs
<1>4. Becomes(t, Idle) /\ job'[t] = Idle
  BY <1>1, Finishing DEF IInv, Becomes
<1>5. /\ Counted
      /\ \/ MakeDir(p) /\ listed' = [listed EXCEPT ![p] = job[t].list]
         \/ p \in disturbed' /\ UNCHANGED <<dirs, listed>>
  BY <1>1, <1>3, FineCounted, FailCounted DEF IInv, TypeOK, memory
<1>6. TypeOK'
  <2>1. status' \in [Addresses -> {"none", "open", "moved", "closed"}]
    BY <1>1, <1>3 DEF IInv, TypeOK
  <2>2. CASE MakeDir(p) /\ listed' = [listed EXCEPT ![p] = job[t].list]
    BY <1>1, <1>3, <1>4, <1>5, <2>1, <2>2 DEF IInv, TypeOK, Becomes, Counted, memory, MakeDir
  <2>3. CASE UNCHANGED <<dirs, listed>>
    BY <1>1, <1>3, <1>4, <1>5, <2>1, <2>3 DEF IInv, TypeOK, Becomes, Counted, memory
  <2>4. QED
    BY <1>5, <2>2, <2>3
<1>7. JobFits(t)'
  BY <1>4, IdleIs DEF JobFits
<1>8. \A x \in Addresses \ {p} :
          /\ x \in dirs' <=> x \in dirs
          /\ listed'[x] = listed[x]
  BY <1>1, <1>5 DEF MakeDir, IInv, TypeOK
<1>9. \A x : AliasesFor(x)' = AliasesFor(x)
  BY <1>1 DEF AliasesFor, memory
<1>10. ASSUME p \notin disturbed', Left(t, p)
       PROVE  Consistent(p)'
  <2>1. Whole(p) /\ p \in stores /\ job[t].list = AliasesFor(p)
    BY <1>3, <1>10 DEF Left
  <2>2. MakeDir(p) /\ listed' = [listed EXCEPT ![p] = job[t].list]
    BY <1>5, <1>10
  <2>3. dirs' = dirs
    BY <2>1, <2>2 DEF MakeDir, Whole
  <2>4. listed'[p] = AliasesFor(p)
    BY <1>3, <2>1, <2>2 DEF IInv, TypeOK
  <2>5. Consistent(p)'
    BY <1>1, <1>9, <2>1, <2>3, <2>4 DEF Consistent, Whole, memory
  <2>7. QED
    BY <2>5
<1>11. ASSUME NEW x \in job[t].on \ {p}, Left(t, x)
       PROVE  Consistent(x)'
  <2>1. x \in Addresses \ {p} /\ Consistent(x)
    BY <1>1, <1>2, <1>3, <1>11, Stepping DEF Left
  <2>2. QED
    BY <1>1, <1>8, <1>9, <1>11, <2>1 DEF Consistent, Whole, memory
<1>12. \A x \in job[t].on \ disturbed' : Left(t, x) =>
           Consistent(x)'
  BY <1>10, <1>11
<1>13. QED
  BY <1>1, <1>2, <1>4, <1>5, <1>6, <1>7, <1>8, <1>12, QuietStep, IdleIs

LEMMA WriteDeviceIInv ==
    ASSUME IInv, NEW t \in Threads, WriteDevice(t)
    PROVE  IInv'
<1> USE AccountsAssumption
<1>0. PICK p : p = job[t].p
  OBVIOUS
<1> USE <1>0
<1>1. /\ Step(t, "vouched") /\ UNCHANGED memory /\ UNCHANGED <<hash, listed, claim, status>>
      /\ Finish(t)
      /\ \/ MakeDir(p) /\ owners' = [owners EXCEPT ![p] = @ \cup {job[t].did}] /\ Fine
         \/ FailFor(p) /\ UNCHANGED <<dirs, owners>>
  BY DEF WriteDevice
<1>2. "vouched" \in Kind \ {"idle"}
  BY DEF Kind
<1>3. /\ job[t].kind = "vouched" /\ p \in Addresses /\ job[t].on = {p} /\ up /\ up' = up
      /\ job[t].did \in Dids
  BY <1>1, <1>2, Stepping DEF JobFits
<1>4. Becomes(t, Idle) /\ job'[t] = Idle
  BY <1>1, Finishing DEF IInv, Becomes
<1>5. /\ Counted
      /\ \/ MakeDir(p) /\ owners' = [owners EXCEPT ![p] = @ \cup {job[t].did}]
         \/ p \in disturbed' /\ UNCHANGED <<dirs, owners>>
  BY <1>1, <1>3, FineCounted, FailCounted DEF IInv, TypeOK, memory
<1>6. TypeOK'
  <2>1. CASE MakeDir(p) /\ owners' = [owners EXCEPT ![p] = @ \cup {job[t].did}]
    BY <1>1, <1>3, <1>4, <1>5, <2>1 DEF IInv, TypeOK, Becomes, Counted, memory, MakeDir
  <2>2. CASE UNCHANGED <<dirs, owners>>
    BY <1>1, <1>3, <1>4, <1>5, <2>2 DEF IInv, TypeOK, Becomes, Counted, memory
  <2>3. QED
    BY <1>5, <2>1, <2>2
<1>7. JobFits(t)'
  BY <1>4, IdleIs DEF JobFits
<1>8. \A x \in Addresses \ {p} : x \in dirs' <=> x \in dirs
  BY <1>5 DEF MakeDir
<1>9. p \notin disturbed' /\ Left(t, p) => Consistent(p)'
  <2>1. Consistent(p) /\ p \in stores /\ dirs' = dirs => Consistent(p)'
    BY <1>1 DEF Consistent, Whole, AliasesFor, memory
  <2>2. Consistent(p) /\ p \in stores => p \in dirs
    BY DEF Consistent, Whole
  <2>3. QED
    BY <1>1, <1>3, <1>5, <2>1, <2>2 DEF Left, MakeDir
<1>10. QED
  BY <1>1, <1>2, <1>3, <1>4, <1>5, <1>6, <1>7, <1>8, <1>9, QuietStep, IdleIs


LEMMA RemoveDataIInv ==
    ASSUME IInv, NEW t \in Threads, RemoveData(t)
    PROVE  IInv'
<1> USE AccountsAssumption
<1>0. PICK p : p = job[t].p
  OBVIOUS
<1> USE <1>0
<1>1. /\ Step(t, "remove") /\ UNCHANGED <<memory, claim, status>>
      /\ \/ RemoveDir(p) /\ Go(t, "release") /\ Fine
         \/ RemovePart(p) /\ Finish(t) /\ FailFor(p)
  BY DEF RemoveData
<1>2. "remove" \in Kind \ {"idle"} /\ "release" \in Kind
  BY DEF Kind
<1>3. /\ job[t].kind = "remove" /\ p \in Addresses /\ job[t].on = {p} /\ up /\ up' = up
  BY <1>1, <1>2, Stepping DEF JobFits
<1>4. /\ Becomes(t, job'[t])
      /\ \/ /\ job'[t].kind = "release" /\ RemoveDir(p)
            /\ job'[t].on = job[t].on /\ job'[t].p = p
         \/ job'[t] = Idle /\ RemovePart(p)
  BY <1>1, <1>2, <1>3, Going, Finishing DEF IInv, Becomes
<1>5. Counted /\ (job'[t] = Idle => p \in disturbed')
  <2>1. stores' \subseteq Addresses
    BY <1>1 DEF IInv, TypeOK, memory
  <2>2. CASE Go(t, "release") /\ Fine
    BY <1>1, <1>2, <2>1, <2>2, FineCounted, Going, IdleIs DEF IInv
  <2>3. CASE FailFor(p)
    BY <1>1, <1>3, <2>1, <2>3, FailCounted DEF IInv
  <2>4. QED
    BY <1>1, <2>2, <2>3
<1>6. TypeOK'
  <2>1. CASE RemoveDir(p)
    BY <1>1, <1>3, <1>4, <1>5, <2>1 DEF IInv, TypeOK, Becomes, Counted, memory, RemoveDir
  <2>2. CASE RemovePart(p) /\ p \in dirs
    BY <1>1, <1>3, <1>4, <1>5, <2>2 DEF IInv, TypeOK, Becomes, Counted, memory, RemovePart
  <2>3. QED
    BY <2>1, <2>2 DEF RemoveData
<1>7. JobFits(t)'
  BY <1>3, <1>4, IdleIs DEF JobFits
<1>8. \A x \in Addresses \ {p} : (x \in dirs' <=> x \in dirs) /\ listed'[x] = listed[x]
  BY <1>1 DEF RemoveDir, RemovePart, IInv, TypeOK
<1>9. p \notin disturbed' /\ Left(t, p) => Consistent(p)' /\ p \notin stores'
  <2>1. ASSUME RemoveDir(p), Unregistered(p)
        PROVE  Consistent(p)' /\ p \notin stores'
    BY <1>1, <2>1 DEF RemoveDir, Unregistered, Consistent, Whole, memory
  <2>2. QED
    BY <1>3, <1>4, <1>5, <2>1 DEF Left
<1>10. p \notin disturbed' /\ Left(t, p) =>
          /\ p \in job'[t].on => Left(t, p)'
          /\ p \notin job'[t].on => Consistent(p)'
  BY <1>1, <1>3, <1>4, <1>5, <1>9, IdleIs DEF Left
<1>11. QED
  BY <1>1, <1>2, <1>3, <1>4, <1>5, <1>6, <1>7, <1>8, <1>10, QuietStep, IdleIs

LEMMA ReleaseIInv ==
    ASSUME IInv, NEW t \in Threads, Release(t)
    PROVE  IInv'
<1> USE AccountsAssumption
<1>0. PICK p : p = job[t].p
  OBVIOUS
<1> USE <1>0
<1>1. /\ Step(t, "release") /\ UNCHANGED <<memory, disk, status>> /\ Finish(t)
      /\ \/ /\ claim' = [claim EXCEPT ![p] = None] /\ Disturb({}) /\ UNCHANGED failures
            /\ unbound' = unbound \/ unbound' = unbound \cup {p}
         \/ FailFor(p) /\ UNCHANGED claim
  BY DEF Release
<1>2. "release" \in Kind \ {"idle"}
  BY DEF Kind
<1>3. job[t].kind = "release" /\ p \in Addresses /\ job[t].on = {p} /\ up /\ up' = up
  BY <1>1, <1>2, Stepping DEF JobFits
<1>4. Becomes(t, Idle) /\ job'[t] = Idle
  BY <1>1, Finishing DEF IInv, Becomes
<1>5. Counted
  <2>1. stores' \subseteq Addresses /\ TypeOK
    BY <1>1 DEF IInv, TypeOK, memory
  <2>2. CASE FailFor(p)
    BY <1>1, <1>3, <2>1, <2>2, FailCounted
  <2>3. CASE Disturb({}) /\ UNCHANGED failures /\ unbound' \in {unbound, unbound \cup {p}}
    BY <1>1, <1>3, <2>1, <2>3, Disturbing DEF TypeOK, Counted, Step
  <2>4. QED
    BY <1>1, <2>2, <2>3
<1>6. TypeOK'
  BY <1>1, <1>3, <1>4, <1>5 DEF IInv, TypeOK, Becomes, Counted, memory, disk
<1>7. JobFits(t)'
  BY <1>4, IdleIs DEF JobFits
<1>9. Consistent(p) => Consistent(p)'
  BY <1>1 DEF Consistent, Whole, AliasesFor, memory, disk
<1>10. Left(t, p) => Consistent(p)'
  BY <1>1, <1>3, <1>9 DEF Left
<1>11. QED
  BY <1>1, <1>2, <1>3, <1>4, <1>5, <1>6, <1>7, <1>10, QuietStep, IdleIs DEF disk

LEMMA SwapIInv ==
    ASSUME IInv, NEW t \in Threads, Swap(t)
    PROVE  IInv'
<1> USE AccountsAssumption
<1>0. PICK p, s : p = job[t].p /\ s = job[t].name
  OBVIOUS
<1> USE <1>0
<1>1. /\ Step(t, "swap") /\ UNCHANGED claim /\ Fine
      /\ \/ /\ stores' = (stores \ {p}) \cup {s}
            /\ route' = [a \in Addresses |-> IF a \in {p, s} \/ route[a] = p THEN s ELSE route[a]]
            /\ dyn' = (dyn \ {p}) \cup {s}
            /\ status' = [status EXCEPT ![p] = "none", ![s] = "moved"]
            /\ job' = [job EXCEPT ![t].kind = "list", ![t].p = s]
            /\ MakeDir(s) /\ UNCHANGED <<hash, owners, listed>>
         \/ /\ Finish(t) /\ UNCHANGED <<memory, status>>
            /\ \/ p \in dirs /\ UNCHANGED disk
               \/ p \notin dirs /\ MoveDir(s, p)
  BY DEF Swap
<1>2. "swap" \in Kind \ {"idle"} /\ "list" \in Kind
  BY DEF Kind
<1>3. /\ job[t].kind = "swap" /\ p \in Addresses /\ s \in Addresses /\ s # p
      /\ job[t].on = {p, s} /\ job[t].did = None /\ up /\ up' = up /\ job[t] \in Job
  BY <1>1, <1>2, Stepping DEF JobFits
<1>4. TableInv'
  BY ContinueTable DEF Continue, IInv
<1>5. CASE /\ stores' = (stores \ {p}) \cup {s}
           /\ route' = [a \in Addresses |-> IF a \in {p, s} \/ route[a] = p THEN s ELSE route[a]]
           /\ dyn' = (dyn \ {p}) \cup {s}
           /\ status' = [status EXCEPT ![p] = "none", ![s] = "moved"]
           /\ job' = [job EXCEPT ![t].kind = "list", ![t].p = s]
           /\ MakeDir(s) /\ UNCHANGED <<hash, owners, listed>>
  <2>1. PICK next : next = [job[t] EXCEPT !.kind = "list", !.p = s]
    OBVIOUS
  <2>2. /\ next \in Job /\ next.kind = "list" /\ next.p = s /\ next.on = {p, s}
        /\ next.did = None
    BY <1>2, <1>3, <2>1 DEF Job
  <2>3. job' = [job EXCEPT ![t] = next]
    BY <1>5, <2>1 DEF IInv, TypeOK
  <2>4. Becomes(t, next) /\ job'[t] = next
    BY <2>2, <2>3 DEF Becomes, IInv, TypeOK
  <2>5. stores' \subseteq Addresses
    BY <1>3, <1>5 DEF IInv, TypeOK
  <2>6. Counted
    BY <1>1, <2>5, FineCounted DEF IInv
  <2>7. TypeOK'
    BY <1>1, <1>3, <1>5, <2>4, <2>6 DEF IInv, TypeOK, Becomes, Counted, MakeDir
  <2>8. JobFits(t)'
    BY <1>3, <2>2, <2>4 DEF JobFits
  <2>9. Elsewhere({p, s})
    <3>1. Moved({p, s})
      BY <1>5 DEF Moved
    <3>2. \A x \in Addresses \ {p, s} :
              /\ x \in stores' <=> x \in stores
              /\ x \in dyn' <=> x \in dyn
              /\ x \in dirs' <=> x \in dirs
              /\ listed'[x] = listed[x]
      BY <1>1, <1>5 DEF MakeDir, IInv, TypeOK
    <3>3. \A x \in Addresses \ {p, s} : x \notin disturbed' =>
              /\ AliasesFor(x)' = AliasesFor(x)
              /\ x \in stores /\ route[x] = x => route'[x] = x
      BY <1>1, <1>3, <1>4, <3>1, <3>2, TableElsewhere DEF Fine, IInv
    <3>4. QED
      BY <3>2, <3>3 DEF Elsewhere
  <2>10. Whole(s)' /\ s \in stores'
    BY <1>3, <1>5 DEF Whole, MakeDir
  <2>11. Left(t, p) => Consistent(p)'
    <3>1. Left(t, p) => p \notin dirs
      BY <1>3 DEF Left
    <3>2. QED
      BY <1>3, <1>5, <3>1 DEF Consistent, Whole, MakeDir
  <2>13. \A x \in {p, s} : Left(t, x) => Left(t, x)'
    BY <1>3, <2>2, <2>4, <2>10, <2>11 DEF Left
  <2>14. QED
    BY <1>1, <1>2, <1>3, <1>4, <2>2, <2>4, <2>6, <2>7, <2>8, <2>9, <2>13, OwnStep
<1>6. CASE /\ Finish(t) /\ UNCHANGED <<memory, status>>
           /\ \/ p \in dirs /\ UNCHANGED disk
              \/ p \notin dirs /\ MoveDir(s, p)
  <2>1. Becomes(t, Idle) /\ job'[t] = Idle
    BY <1>6, Finishing DEF IInv, Becomes
  <2>2. Counted
    BY <1>1, <1>6, FineCounted DEF IInv, TypeOK, memory
  <2>3. TypeOK'
    <3>1. CASE UNCHANGED disk
      BY <1>1, <1>3, <1>6, <2>1, <2>2, <3>1 DEF IInv, TypeOK, Becomes, Counted, memory, disk
    <3>2. CASE MoveDir(s, p)
      BY <1>1, <1>3, <1>6, <2>1, <2>2, <3>2 DEF IInv, TypeOK, Becomes, Counted, memory, MoveDir
    <3>3. QED
      BY <1>6, <3>1, <3>2
  <2>4. JobFits(t)'
    BY <2>1, IdleIs DEF JobFits
  <2>5. Elsewhere({p, s})
    <3>1. \A x \in Addresses \ {p, s} : (x \in dirs' <=> x \in dirs) /\ listed'[x] = listed[x]
      <4>1. CASE UNCHANGED disk
        BY <4>1 DEF disk
      <4>2. CASE MoveDir(s, p)
        BY <4>2 DEF MoveDir, IInv, TypeOK
      <4>3. QED
        BY <1>6, <4>1, <4>2
    <3>2. QED
      BY <1>1, <1>3, <1>6, <3>1, SameTableElsewhere
  \* The directory is back under the old address.
  <2>6. \A x \in {p, s} : Left(t, x) => Consistent(x)'
    <3>1. ASSUME NEW x \in {p, s}, Left(t, x)
          PROVE  MoveDir(s, p)
      BY <1>3, <1>6, <3>1 DEF Left
    <3>2. ASSUME MoveDir(s, p)
          PROVE  p \in dirs' /\ s \notin dirs' /\ listed'[p] = listed[s]
      BY <1>3, <3>2 DEF MoveDir, IInv, TypeOK
    <3>3. ASSUME Left(t, p)
          PROVE  Consistent(p)'
      <4>1. /\ p \in stores /\ route[p] = p
            /\ p \notin Static => p \in dyn /\ listed[s] = AliasesFor(p)
        BY <1>3, <3>3 DEF Left
      <4>2. AliasesFor(p)' = AliasesFor(p)
        BY <1>6 DEF AliasesFor, memory
      <4>3. QED
        BY <1>6, <3>1, <3>2, <3>3, <4>1, <4>2 DEF Consistent, Whole, memory
    <3>4. ASSUME Left(t, s)
          PROVE  Consistent(s)'
      <4>1. Unregistered(s)
        BY <1>3, <3>4 DEF Left
      <4>2. QED
        BY <1>6, <3>1, <3>2, <3>4, <4>1 DEF Unregistered, Consistent, Whole, memory
    <3>5. QED
      BY <3>3, <3>4
  <2>8. QED
    BY <1>1, <1>2, <1>3, <1>4, <2>1, <2>2, <2>3, <2>4, <2>5, <2>6, OwnStep, IdleIs
<1>7. QED
  BY <1>1, <1>5, <1>6

\* The accounts of a migration whose store does not reopen are both struck.
LEMMA ReopenFailsIInv ==
    ASSUME IInv, NEW t \in Threads, ReopenFails(t)
    PROVE  IInv'
<1> USE AccountsAssumption
<1> DEFINE p == job[t].p
           s == job[t].name
<1>1. /\ Step(t, "swap") /\ UNCHANGED <<memory, claim, status, unbound>>
      /\ failures < MaxFailures /\ failures' = failures + 1
      /\ Disturb({p, s}) /\ Finish(t)
      /\ \/ UNCHANGED disk
         \/ p \notin dirs /\ s \in dirs /\ MoveDir(s, p)
  BY DEF ReopenFails
<1>2. "swap" \in Kind \ {"idle"}
  BY DEF Kind
<1>3. /\ job[t].kind = "swap" /\ p \in Addresses /\ s \in Addresses /\ p # s
      /\ job[t].on = {p, s} /\ up /\ up' = up
  BY <1>1, <1>2, Stepping DEF JobFits
<1> HIDE DEF p, s
<1>4. Becomes(t, Idle) /\ job'[t] = Idle
  BY <1>1, Finishing DEF IInv, Becomes
<1>5. TypeOK /\ stores' \subseteq Addresses
  BY <1>1 DEF IInv, TypeOK, memory
<1>6. Counted /\ {p, s} \subseteq disturbed'
  <2>1. {p, s} \in SUBSET Addresses
    BY <1>3
  <2>2. /\ disturbed' \subseteq Addresses /\ disturbed \subseteq disturbed'
        /\ {p, s} \subseteq disturbed'
    BY <1>1, <1>5, <2>1, Disturbing
  <2>3. failures' \in 0..MaxFailures
    BY <1>1, <1>5 DEF TypeOK
  <2>4. QED
    BY <1>1, <1>5, <2>2, <2>3 DEF TypeOK, Counted, Step
<1>7. TypeOK'
  <2>1. CASE UNCHANGED disk
    BY <1>1, <1>3, <1>4, <1>5, <1>6, <2>1 DEF TypeOK, Becomes, Counted, memory, disk
  <2>2. CASE MoveDir(s, p)
    BY <1>1, <1>3, <1>4, <1>5, <1>6, <2>2 DEF TypeOK, Becomes, Counted, memory, MoveDir
  <2>3. QED
    BY <1>1, <2>1, <2>2
<1>8. TableInv'
  BY <1>1, SameTableKeeps DEF IInv
<1>9. JobFits(t)'
  BY <1>4, IdleIs DEF JobFits
<1>10. \A x \in Addresses \ {p, s} : /\ x \in dirs' <=> x \in dirs
                                     /\ listed'[x] = listed[x]
  BY <1>1, <1>3, <1>5 DEF MoveDir, TypeOK, disk
<1>11. Elsewhere(job[t].on)
  BY <1>1, <1>3, <1>10, SameTableElsewhere
<1>12. QED
  BY <1>1, <1>2, <1>3, <1>4, <1>6, <1>7, <1>8, <1>9, <1>11, OwnStep, IdleIs

LEMMA ReconcileIInv ==
    ASSUME IInv, NEW t \in Threads, Reconcile(t)
    PROVE  IInv'
<1> USE AccountsAssumption
<1>0. PICK p, stale, missing :
          /\ p = job[t].p
          /\ stale = AliasesFor(p) \ {job[t].name}
          /\ missing = {job[t].name} \ (AliasesFor(p) \cup {None})
  OBVIOUS
<1> USE <1>0
<1>1. /\ Step(t, "reconcile") /\ UNCHANGED <<stores, dyn, disk, claim, status>> /\ Fine
      /\ \/ Finish(t) /\ UNCHANGED route
         \/ /\ route' = [b \in Addresses |->
                            IF b \in missing /\ p \in stores THEN p
                            ELSE IF b \in stale THEN None ELSE route[b]]
            /\ Go(t, "list")
  BY DEF Reconcile
<1>2. "reconcile" \in Kind \ {"idle"} /\ "list" \in Kind
  BY DEF Kind
<1>3. /\ job[t].kind = "reconcile" /\ p \in Addresses /\ job[t].on = {p} /\ job[t].did = None
      /\ up /\ up' = up
  BY <1>1, <1>2, Stepping DEF JobFits
<1>4. \A b \in stale : b # p /\ route[b] = p
  BY DEF AliasesFor
<1> HIDE <1>0
<1>5. /\ Becomes(t, job'[t])
      /\ \/ job'[t] = Idle /\ UNCHANGED route
         \/ /\ job'[t].kind = "list" /\ job'[t].on = job[t].on /\ job'[t].p = p
            /\ job'[t].did = None
  BY <1>0, <1>1, <1>2, <1>3, Going, Finishing DEF IInv, Becomes
<1>6. Counted
  BY <1>1, FineCounted DEF IInv, TypeOK
<1>7. /\ route' \in [Addresses -> {None} \cup Addresses] /\ Moved({p})
      /\ (route[p] = p => route'[p] = p)
  BY <1>1, <1>3, <1>4 DEF Moved, IInv, TypeOK
<1>8. TypeOK'
  BY <1>1, <1>3, <1>5, <1>6, <1>7 DEF IInv, TypeOK, Becomes, Counted, disk
<1>9. TableInv'
  BY ContinueTable DEF Continue, IInv
<1>10. JobFits(t)'
  BY <1>3, <1>5, IdleIs DEF JobFits
<1>11. Elsewhere({p})
  <2>1. \A x \in Addresses \ {p} : x \notin disturbed' =>
            /\ AliasesFor(x)' = AliasesFor(x)
            /\ x \in stores /\ route[x] = x => route'[x] = x
    BY <1>1, <1>3, <1>7, <1>9, TableElsewhere DEF Fine, IInv
  <2>2. QED
    BY <1>1, <2>1 DEF Elsewhere, disk
<1>12. Left(t, p) =>
          /\ p \in job'[t].on => Left(t, p)'
          /\ p \notin job'[t].on => Consistent(p)'
  <2>1. CASE job'[t] = Idle /\ UNCHANGED route
    <3>1. Consistent(p) => Consistent(p)'
      BY <1>1, <2>1 DEF Consistent, Whole, AliasesFor, disk
    <3>2. QED
      BY <1>1, <1>3, <2>1, <3>1, IdleIs DEF Left
  <2>2. CASE /\ job'[t].kind = "list" /\ job'[t].on = job[t].on /\ job'[t].p = p
             /\ job'[t].did = None
    <3>1. Left(t, p) => Whole(p)' /\ p \in stores'
      BY <1>1, <1>3, <1>7 DEF Left, Consistent, Whole, disk
    <3>2. QED
      BY <1>1, <1>3, <2>2, <3>1 DEF Left
  <2>3. QED
    BY <1>5, <2>1, <2>2
<1>13. job'[t].on \subseteq job[t].on
  BY <1>5, IdleIs
<1>14. QED
  BY <1>1, <1>2, <1>3, <1>5, <1>6, <1>8, <1>9, <1>10, <1>11, <1>12, <1>13, OwnStep

LEMMA PurgeRouteIInv ==
    ASSUME IInv, NEW t \in Threads, NEW p \in Addresses, PurgeRoute(t, p)
    PROVE  IInv'
<1> USE AccountsAssumption
<1>1. /\ Step(t, "purge") /\ p \in job[t].on /\ DropRoute(p) /\ Fine /\ UNCHANGED <<disk, claim>>
      /\ job' = [job EXCEPT ![t].kind = "purging", ![t].p = p]
  BY DEF PurgeRoute
<1>2. "purge" \in Kind \ {"idle"} /\ "purging" \in Kind
  BY DEF Kind
<1>3. /\ job[t].kind = "purge" /\ up /\ up' = up /\ job[t] \in Job
      /\ job[t].on \in SUBSET Addresses
  BY <1>1, <1>2, Stepping
<1>4. PICK next : next = [job[t] EXCEPT !.kind = "purging", !.p = p]
  OBVIOUS
<1>5. next \in Job /\ next.kind = "purging" /\ next.p = p /\ next.on = job[t].on
  BY <1>2, <1>3, <1>4 DEF Job
<1>6. job' = [job EXCEPT ![t] = next]
  BY <1>1, <1>4 DEF IInv, TypeOK
<1>7. Becomes(t, next) /\ job'[t] = next
  BY <1>5, <1>6 DEF Becomes, IInv, TypeOK
<1>8. stores' \subseteq Addresses
  BY <1>1 DEF DropRoute, IInv, TypeOK
<1>9. Counted
  BY <1>1, <1>8, FineCounted DEF IInv
<1>10. TypeOK'
  BY <1>1, <1>3, <1>7, <1>8, <1>9 DEF IInv, TypeOK, Becomes, Counted, DropRoute, disk
<1>11. TableInv'
  BY <1>1, DropRouteKeeps DEF IInv
<1>12. JobFits(t)'
  BY <1>1, <1>3, <1>5, <1>7 DEF JobFits
<1>13. Elsewhere({p})
  <2>1. Moved({p})
    BY <1>1 DEF DropRoute, Moved
  <2>2. \A x \in Addresses \ {p} : /\ x \in stores' <=> x \in stores
                                   /\ x \in dyn' <=> x \in dyn
    BY <1>1 DEF DropRoute, IInv, TypeOK
  <2>3. \A x \in Addresses \ {p} : x \notin disturbed' =>
            /\ AliasesFor(x)' = AliasesFor(x)
            /\ x \in stores /\ route[x] = x => route'[x] = x
    BY <1>1, <1>11, <2>1, <2>2, TableElsewhere DEF Fine, IInv
  <2>4. QED
    BY <1>1, <2>2, <2>3 DEF Elsewhere, disk
<1>14. Elsewhere(job[t].on)
  BY <1>1, <1>13 DEF Elsewhere
<1>15. Unregistered(p)'
  BY <1>1 DEF Unregistered, DropRoute, IInv, TypeOK
<1>16. ASSUME NEW x \in job[t].on \ disturbed', Left(t, x)
       PROVE  Left(t, x)'
  <2>1. CASE x = p
    BY <1>5, <1>7, <1>15, <2>1 DEF Left
  <2>2. CASE x # p
    <3>1. x \in Addresses \ {p} /\ x \notin disturbed' /\ Consistent(x)
      BY <1>3, <1>16, <2>2 DEF Left
    <3>2. Consistent(x)'
      BY <1>13, <3>1, ConsistentElsewhere
    <3>4. QED
      BY <1>5, <1>7, <2>2, <3>2 DEF Left
  <2>3. QED
    BY <2>1, <2>2
<1>17. QED
  BY <1>1, <1>2, <1>5, <1>7, <1>9, <1>10, <1>11, <1>12, <1>14, <1>16, OwnStep

LEMMA PurgeDataIInv ==
    ASSUME IInv, NEW t \in Threads, PurgeData(t)
    PROVE  IInv'
<1> USE AccountsAssumption
<1>0. PICK p : p = job[t].p
  OBVIOUS
<1> USE <1>0
<1>1. /\ Step(t, "purging") /\ UNCHANGED <<memory, claim, status>>
      /\ \/ RemoveDir(p) /\ Fine
         \/ p \in dirs /\ RemovePart(p) /\ FailFor(p)
      /\ \/ job[t].on = {p} /\ Finish(t)
         \/ job' = [job EXCEPT ![t].kind = "purge", ![t].p = None, ![t].on = @ \ {p}]
  BY DEF PurgeData
<1>2. "purging" \in Kind \ {"idle"} /\ "purge" \in Kind
  BY DEF Kind
<1>3. /\ job[t].kind = "purging" /\ p \in Addresses /\ p \in job[t].on /\ up /\ up' = up
      /\ job[t] \in Job /\ job[t].on \in SUBSET Addresses
  BY <1>1, <1>2, Stepping
<1>4. /\ Becomes(t, job'[t]) /\ job'[t].on = job[t].on \ {p}
      /\ job'[t] = Idle \/ job'[t].kind = "purge"
  <2>1. CASE job[t].on = {p} /\ Finish(t)
    BY <2>1, Finishing, IdleIs DEF IInv, Becomes
  <2>2. CASE job' = [job EXCEPT ![t].kind = "purge", ![t].p = None, ![t].on = @ \ {p}]
    <3>1. PICK next : next = [job[t] EXCEPT !.kind = "purge", !.p = None, !.on = @ \ {p}]
      OBVIOUS
    <3>2. next \in Job /\ next.kind = "purge" /\ next.on = job[t].on \ {p}
      BY <1>2, <1>3, <3>1 DEF Job
    <3>3. job' = [job EXCEPT ![t] = next]
      BY <2>2, <3>1 DEF IInv, TypeOK
    <3>4. QED
      BY <3>2, <3>3 DEF Becomes, IInv, TypeOK
  <2>3. QED
    BY <1>1, <2>1, <2>2
<1>5. /\ Counted
      /\ \/ RemoveDir(p)
         \/ p \in disturbed' /\ RemovePart(p)
  <2>1. TypeOK /\ stores' \subseteq Addresses /\ Step(t, "purging")
    BY <1>1 DEF IInv, TypeOK, memory
  <2>2. CASE RemoveDir(p) /\ Fine
    <3>1. Counted
      BY <2>1, <2>2, FineCounted
    <3>2. QED
      BY <2>2, <3>1
  <2>3. CASE RemovePart(p) /\ FailFor(p)
    <3>1. Counted /\ p \in disturbed'
      BY <1>3, <2>1, <2>3, FailCounted
    <3>2. QED
      BY <2>3, <3>1
  <2>4. QED
    BY <1>1, <2>2, <2>3
<1>6. TypeOK'
  <2>1. CASE RemoveDir(p)
    BY <1>1, <1>3, <1>4, <1>5, <2>1 DEF IInv, TypeOK, Becomes, Counted, memory, RemoveDir
  <2>2. CASE RemovePart(p) /\ p \in dirs
    BY <1>1, <1>3, <1>4, <1>5, <2>2 DEF IInv, TypeOK, Becomes, Counted, memory, RemovePart
  <2>3. QED
    BY <1>1, <2>1, <2>2
<1>7. JobFits(t)'
  BY <1>3, <1>4, IdleIs DEF JobFits
<1>8. \A x \in Addresses \ {p} :
          /\ x \in dirs' <=> x \in dirs
          /\ listed'[x] = listed[x]
  BY <1>1 DEF RemoveDir, RemovePart, IInv, TypeOK
<1>9. p \notin disturbed' /\ Left(t, p) => Consistent(p)'
  <2>1. ASSUME RemoveDir(p), Unregistered(p)
        PROVE  Consistent(p)'
    BY <1>1, <2>1 DEF RemoveDir, Unregistered, Consistent, Whole, memory
  <2>2. QED
    BY <1>3, <1>5, <2>1 DEF Left
<1>10. ASSUME NEW x \in job[t].on \ {p}, Left(t, x)
       PROVE  Left(t, x)'
  <2>1. Consistent(x)
    BY <1>3, <1>10 DEF Left
  <2>2. Consistent(x)'
    BY <1>1, <1>3, <1>8, <1>10, <2>1 DEF Consistent, Whole, AliasesFor, memory
  <2>3. QED
    BY <1>4, <2>2, IdleIs DEF Left
<1>12. QED
  BY <1>1, <1>2, <1>3, <1>4, <1>5, <1>6, <1>7, <1>8, <1>9, <1>10, QuietStep

-----------------------------------------------------------------------------
(* A crash strikes every account a request is at; what is left of the      *)
(* others a start can rebuild.                                             *)

LEMMA CrashIInv ==
    ASSUME IInv, Crash
    PROVE  IInv'
<1>1. /\ up /\ up' = FALSE /\ stores' = {} /\ dyn' = {} /\ crashes < MaxCrashes
      /\ crashes' = crashes + 1
      /\ route' = [a \in Addresses |-> None] /\ job' = [t \in Threads |-> Idle]
      /\ disturbed' = disturbed \cup {p \in Addresses : Busy(p)}
      /\ UNCHANGED <<disk, claim, status, unbound, operations, failures>>
  BY DEF Crash
<1>2. TypeOK'
  <2>1. crashes' \in 0..MaxCrashes
    BY <1>1, AccountsAssumption DEF IInv, TypeOK
  <2>2. job' \in [Threads -> Job] /\ disturbed' \subseteq Addresses
    BY <1>1, IdleIs DEF IInv, TypeOK
  <2>3. QED
    BY <1>1, <2>1, <2>2 DEF IInv, TypeOK, disk
<1>3. TableInv'
  BY <1>1 DEF TableInv, RoutingClosed
<1>4. \A t \in Threads : job'[t] = Idle
  BY <1>1
<1>5. (\A t \in Threads : JobFits(t)') /\ Alone'
  BY <1>4, IdleIs DEF JobFits, Alone
<1>6. ASSUME NEW x \in Addresses \ disturbed', x \notin Static
      PROVE  x \notin listed'[x]
  <2>1. Consistent(x)
    BY <1>1, <1>6 DEF IInv
  <2>2. CASE x \in stores
    BY <1>1, <1>6, <2>1, <2>2 DEF Consistent, AliasesFor, disk
  <2>3. CASE x \notin stores
    BY <1>1, <2>1, <2>3 DEF Consistent, Whole, IInv, TypeOK, disk
  <2>4. QED
    BY <2>2, <2>3
<1>8. QED
  BY <1>1, <1>2, <1>3, <1>4, <1>5, <1>6, IdleIs DEF IInv

\* What the sweep leaves of the directories, and what a start registers of that.
LEMMA Starting ==
    ASSUME TypeOK, NEW unread \in SUBSET (dirs \ Static), NEW stuck \in SUBSET (dirs \ Static),
           NEW unopened, Start(unread, stuck, unopened)
    PROVE  /\ dirs' \subseteq Addresses /\ hash' \subseteq dirs'
           /\ dirs' = Static \cup (hash \ unread) \cup stuck
           /\ hash \ unread \subseteq hash' /\ hash' \subseteq (hash \ unread) \cup stuck
           /\ owners' \in [Addresses -> SUBSET Dids] /\ listed' \in [Addresses -> SUBSET Addresses]
           /\ \A p \in Addresses : owners'[p] # {} \/ listed'[p] # {} => p \in dirs'
           /\ \A p \in Addresses : listed'[p] \subseteq listed[p]
           /\ \A p \in hash \ unread : listed'[p] = listed[p]
<1> USE AccountsAssumption
<1> DEFINE swept == dirs \ (Static \cup (hash \ unread))
<1>1. stuck \subseteq swept /\ dirs' = Static \cup (dirs \ (swept \ stuck))
  BY DEF Start, Sweep
<1>2. PICK kept \in SUBSET stuck : hash' = hash \ (swept \ kept)
  BY DEF Start, Sweep
<1>3. PICK keptO \in SUBSET stuck :
          owners' = [p \in Addresses |-> IF p \in swept \ keptO THEN {} ELSE owners[p]]
  BY DEF Start, Sweep
<1>4. PICK keptL \in SUBSET stuck :
          listed' = [p \in Addresses |-> IF p \in swept \ keptL THEN {} ELSE listed[p]]
  BY DEF Start, Sweep
<1>5. dirs' \subseteq Addresses /\ hash' \subseteq dirs'
  BY <1>1, <1>2 DEF TypeOK
<1>6. dirs' = Static \cup (hash \ unread) \cup stuck
  BY <1>1 DEF TypeOK
<1>7. hash \ unread \subseteq hash' /\ hash' \subseteq (hash \ unread) \cup stuck
  BY <1>1, <1>2 DEF TypeOK
<1>8. owners' \in [Addresses -> SUBSET Dids] /\ listed' \in [Addresses -> SUBSET Addresses]
  BY <1>3, <1>4 DEF TypeOK
<1>9. \A p \in Addresses : owners'[p] # {} \/ listed'[p] # {} => p \in dirs'
  BY <1>1, <1>3, <1>4 DEF TypeOK
<1>10. /\ \A p \in Addresses : listed'[p] \subseteq listed[p]
       /\ \A p \in hash \ unread : listed'[p] = listed[p]
  BY <1>4 DEF TypeOK
<1>11. QED
  BY <1>5, <1>6, <1>7, <1>8, <1>9, <1>10

LEMMA RestartIInv ==
    ASSUME IInv, Restart
    PROVE  IInv'
<1> USE AccountsAssumption
<1>1. PICK unread, stuck, unopened \in MayFail(dirs \ Static) : Start(unread, stuck, unopened)
  BY DEF Restart
<1>2. /\ ~ up /\ up' = TRUE
      /\ unopened \subseteq Recovered
      /\ stores' = Static \cup (Recovered \ unopened) /\ dyn' = Recovered \ unopened
      /\ UNCHANGED <<claim, job, status, unbound, operations, crashes>>
  BY <1>1 DEF Restart, Start
<1> DEFINE opened == Recovered \ unopened
<1>3. PICK unlisted \in MayFail(opened) :
          /\ Given(opened, unlisted)
          /\ Struck(opened, unlisted, unread \cup stuck \cup unopened \cup unlisted)
  BY <1>1, StartGives, Zenon
<1> DEFINE wanted == Wanted(opened, unlisted)
           faulty == unread \cup stuck \cup unopened \cup unlisted
<1>4. PICK last :
          /\ \A a \in Addresses : wanted[a] # {} => last[wanted[a]] \in wanted[a]
          /\ route' = [a \in Addresses |-> IF wanted[a] # {} THEN last[wanted[a]]
                                          ELSE IF a \in Static THEN a ELSE None]
  BY <1>3 DEF Given
<1>5. /\ unread \subseteq dirs \ Static /\ stuck \subseteq dirs \ Static
      /\ unopened \subseteq dirs \ Static
      /\ faulty # {} => failures < MaxFailures
  BY <1>1, <1>3 DEF MayFail
<1>6. TypeOK
  BY DEF IInv
<1>7. /\ dirs' \subseteq Addresses /\ hash' \subseteq dirs'
      /\ dirs' = Static \cup (hash \ unread) \cup stuck
      /\ hash \ unread \subseteq hash' /\ hash' \subseteq (hash \ unread) \cup stuck
      /\ owners' \in [Addresses -> SUBSET Dids] /\ listed' \in [Addresses -> SUBSET Addresses]
      /\ \A p \in Addresses : owners'[p] # {} \/ listed'[p] # {} => p \in dirs'
      /\ \A p \in Addresses : listed'[p] \subseteq listed[p]
      /\ \A p \in hash \ unread : listed'[p] = listed[p]
  BY <1>1, <1>5, <1>6, Starting
<1>8. Recovered \subseteq dirs' /\ Recovered \subseteq Addresses /\ stores' \subseteq Addresses
  BY <1>2, <1>7 DEF Recovered
<1>9. \A a \in Addresses : wanted[a] \subseteq Recovered \ unopened
  BY DEF Wanted
<1>10. unlisted \subseteq Recovered \ unopened
  BY <1>3 DEF MayFail
<1>11. /\ disturbed \cup faulty \subseteq disturbed' /\ disturbed' \subseteq Addresses
       /\ \A x \in stores' \ disturbed' : \A a \in listed'[x] \cup {x} : wanted[a] \subseteq {x}
  BY <1>3, <1>5, <1>6, <1>8, <1>10 DEF TypeOK, Struck
<1> HIDE DEF wanted
<1>12. \A a \in Addresses : /\ wanted[a] # {} => route'[a] \in wanted[a]
                            /\ wanted[a] = {} => route'[a] = IF a \in Static THEN a ELSE None
  BY <1>4
<1>13. route' \in [Addresses -> {None} \cup Addresses]
  <2>1. route' = [a \in Addresses |-> route'[a]]
    BY <1>4
  <2>2. ASSUME NEW a \in Addresses
        PROVE  route'[a] \in {None} \cup Addresses
    <3>1. CASE wanted[a] = {}
      <4>1. route'[a] = IF a \in Static THEN a ELSE None
        BY <1>12, <3>1
      <4>2. QED
        BY <4>1
    <3>2. CASE wanted[a] # {}
      <4>1. route'[a] \in wanted[a]
        BY <1>12, <3>2
      <4>2. wanted[a] \subseteq Recovered
        BY <1>9
      <4>3. QED
        BY <1>8, <4>1, <4>2
    <3>3. QED
      BY <3>1, <3>2
  <2>3. QED
    BY <2>1, <2>2
<1>14. TypeOK'
  <2>1. failures' \in 0..MaxFailures
    BY <1>3, <1>5, <1>6 DEF TypeOK, Struck
  <2>2. QED
    BY <1>2, <1>6, <1>7, <1>8, <1>11, <1>13, <2>1 DEF TypeOK
<1>15. TableInv'
  BY RestartTable
<1>16. \A t \in Threads : job[t] = Idle
  BY <1>2 DEF IInv, JobFits
<1>17. \A t \in Threads : JobFits(t)' /\ job'[t] = Idle
  BY <1>2, <1>16, IdleIs DEF JobFits
<1>18. Alone'
  BY <1>17, IdleIs DEF Alone
<1>19. ASSUME NEW x \in Addresses \ disturbed'
       PROVE  Consistent(x)'
  <2>1. x \notin unread /\ x \notin stuck /\ x \notin unopened /\ x \notin unlisted
    BY <1>11, <1>19
  <2>2. x \in stores' <=> x \in dirs'
    BY <1>2, <1>7, <2>1 DEF Recovered
  <2>3. x \notin Static => (x \in dyn' <=> x \in stores')
    BY <1>2
  <2>4. ASSUME x \in stores' \ Static
        PROVE  /\ x \in hash \ unread /\ listed'[x] = listed[x]
               /\ x \notin listed[x] /\ listed[x] \subseteq Addresses
               /\ \A a \in Addresses : x \in wanted[a] <=> a = x \/ a \in listed[x]
    <3>1. x \in Recovered \ unopened /\ x \in hash \ unread
      BY <1>2, <1>7, <2>1, <2>4 DEF Recovered
    <3>2. listed'[x] = listed[x]
      BY <1>7, <3>1
    <3>3. x \notin listed[x]
      BY <1>2, <1>11, <1>19, <2>4 DEF IInv
    <3>4. \A a \in Addresses : x \in wanted[a] <=> a = x \/ a \in listed[x]
      BY <2>1, <3>1, <3>2 DEF wanted, Wanted
    <3>5. QED
      BY <1>6, <3>1, <3>2, <3>3, <3>4 DEF TypeOK
  <2>5. ASSUME NEW a \in Addresses, x \in stores' \ Static, a = x \/ a \in listed[x]
        PROVE  route'[a] = x
    <3>1. wanted[a] = {x}
      BY <1>11, <1>19, <2>4, <2>5
    <3>2. QED
      BY <1>12, <3>1
  <2>6. ASSUME x \in stores'
        PROVE  route'[x] = x
    <3>1. CASE x \in Static
      <4>1. wanted[x] \subseteq {x}
        BY <1>11, <1>19, <2>6
      <4>2. QED
        BY <1>12, <3>1, <4>1
    <3>2. CASE x \notin Static
      BY <2>5, <2>6, <3>2
    <3>3. QED
      BY <3>1, <3>2
  <2>7. ASSUME x \in stores' \ Static
        PROVE  listed'[x] = AliasesFor(x)'
    <3>1. ASSUME NEW a \in Addresses \ {x}, route'[a] = x
          PROVE  a \in listed[x]
      <4>1. x \in wanted[a]
        BY <1>12, <2>7, <3>1
      <4>2. QED
        BY <2>4, <2>7, <3>1, <4>1
    <3>2. QED
      BY <2>4, <2>5, <2>7, <3>1 DEF AliasesFor
  <2>8. QED
    BY <2>2, <2>3, <2>6, <2>7 DEF Consistent, Whole
<1>20. QED
  BY <1>2, <1>14, <1>15, <1>17, <1>18, <1>19, IdleIs DEF IInv

LEMMA InitIInv == Init => IInv
<1> SUFFICES ASSUME Init
             PROVE  IInv
  OBVIOUS
<1> USE AccountsAssumption
<1>1. /\ up = TRUE /\ stores \subseteq Addresses /\ dirs = stores /\ hash \subseteq dirs
      /\ dyn = stores \ Static /\ Static \subseteq stores
      /\ route = [a \in Addresses |-> IF a \in stores THEN a ELSE None]
      /\ owners = [p \in Addresses |-> {}] /\ listed = [p \in Addresses |-> {}]
      /\ claim = [p \in Addresses |-> None] /\ job = [t \in Threads |-> Idle]
      /\ status = [p \in Addresses |-> "none"] /\ disturbed = {} /\ unbound = {}
      /\ operations = 0 /\ crashes = 0 /\ failures = 0
  BY DEF Init
<1>2. TypeOK
  BY <1>1, IdleIs DEF TypeOK
<1>3. TableInv
  BY <1>1 DEF TableInv, RoutingClosed
<1>4. \A t \in Threads : job[t] = Idle
  BY <1>1
<1>5. (\A t \in Threads : JobFits(t)) /\ Alone
  BY <1>1, <1>4, IdleIs DEF JobFits, Alone
<1>6. \A x \in Addresses : Consistent(x)
  BY <1>1 DEF Consistent, Whole, AliasesFor
<1>7. QED
  BY <1>1, <1>2, <1>3, <1>4, <1>5, <1>6, IdleIs DEF IInv

LEMMA SameIInv ==
    ASSUME IInv, UNCHANGED vars
    PROVE  IInv'
<1> USE DEF IInv, vars, memory, disk, ghosts, bounds
<1>1. TypeOK' /\ TableInv' /\ Alone' /\ \A t \in Threads : JobFits(t)'
  BY SameTableKeeps DEF TypeOK, Alone, JobFits
<1>2. \A x : (Consistent(x) <=> Consistent(x)')
             /\ (Busy(x) <=> Busy(x)') /\ (Unregistered(x) <=> Unregistered(x)')
             /\ (Whole(x) <=> Whole(x)') /\ AliasesFor(x)' = AliasesFor(x)
  BY DEF Consistent, Whole, AliasesFor, Busy, Unregistered
<1>3. \A t \in Threads : \A x : Left(t, x) => Left(t, x)'
  BY <1>2 DEF Left
<1>4. QED
  BY <1>1, <1>2, <1>3

LEMMA RequestIInv ==
    ASSUME IInv, NEW t \in Threads, Request(t)
    PROVE  IInv'
<1>1. ASSUME NEW did \in Dids, NEW user \in Addresses, Provision(t, did, user)
      PROVE  IInv'
  BY <1>1, ProvisionIInv
<1>2. ASSUME NEW p \in Addresses, NEW did \in Dids,
             Vouch(t, p, did) \/ RevokeDevice(t, p, did) \/ BindDid(t, p, did)
                 \/ Migrate(t, p, did)
      PROVE  IInv'
  BY <1>2, VouchIInv, RevokeDeviceIInv, BindDidIInv, MigrateIInv
<1>3. ASSUME NEW p \in Addresses, NEW a \in Addresses, Delete(t, p) \/ ChangeAlias(t, p, a)
      PROVE  IInv'
  BY <1>3, DeleteIInv, ChangeAliasIInv
<1>4. ASSUME NEW p \in Addresses, NEW desired \in {None} \cup Addresses, Lookup(t, p, desired)
      PROVE  IInv'
  BY <1>4, LookupIInv
<1>5. ASSUME NEW inactive \in SUBSET Addresses, PurgeScan(t, inactive)
      PROVE  IInv'
  BY <1>5, PurgeScanIInv
<1>6. QED
  BY <1>1, <1>2, <1>3, <1>4, <1>5 DEF Request

LEMMA ContinueIInv ==
    ASSUME IInv, NEW t \in Threads, Continue(t)
    PROVE  IInv'
  BY ClaimIInv, AddDeviceIInv, OpenStoreIInv, RegisterIInv, NameAliasIInv, ListAliasesIInv,
     WriteAliasesIInv, WriteDeviceIInv, RemoveDataIInv, ReleaseIInv, SwapIInv, ReopenFailsIInv,
     ReconcileIInv,
     PurgeRouteIInv, PurgeDataIInv DEF Continue

\* Wherever the requests have got to, and whatever failed, crashed or started again: an
\* account nothing has struck is as the one request at it, if any, has left it.
THEOREM AccountsInvariant == Spec => []IInv
<1>1. IInv /\ [Next]_vars => IInv'
  <2> SUFFICES ASSUME IInv, [Next]_vars
               PROVE  IInv'
    OBVIOUS
  <2>1. ASSUME NEW t \in Threads, Request(t) \/ Continue(t)
        PROVE  IInv'
    BY <2>1, RequestIInv, ContinueIInv
  <2>2. QED
    BY <2>1, CrashIInv, RestartIInv, SameIInv DEF Next
<1>2. QED
  BY <1>1, InitIInv, PTL DEF Spec

\* The variables keep their types, and a credential or an aliases file is never there
\* without its account's directory.
THEOREM AccountsTyped == Spec => []TypeOK
<1>1. IInv => TypeOK
  BY DEF IInv
<1>2. QED
  BY <1>1, AccountsInvariant, PTL

\* What a restart would rebuild is what the process serves, for every account that no
\* failure, crash or pair of overlapping requests has struck.
THEOREM MemoryIsDisk == Spec => []MemoryMatchesDisk
<1>1. IInv => MemoryMatchesDisk
  BY DEF IInv, MemoryMatchesDisk, Consistent, Whole
<1>2. QED
  BY <1>1, AccountsInvariant, PTL

-----------------------------------------------------------------------------
(* The claims of provisioned accounts, whatever strikes them.              *)

\* A request that has filed a device of an identity for p, and is to answer for p.
Provisioning(t) ==
    /\ job[t].did # None
    /\ job[t].kind \in {"device", "open", "insert", "alias", "list", "persist"}

\* The claim is there from before the device is filed until after the answer.
ClaimInv ==
    /\ BoundAccounts
    /\ \A t \in Threads : Provisioning(t) /\ job[t].p \notin unbound => claim[job[t].p] # None

\* A step of t's request, or of none, that drops no claim.
LEMMA ClaimsKept ==
    ASSUME IInv, ClaimInv, NEW t \in Threads, unbound' = unbound,
           \A p \in Addresses : claim[p] # None => claim'[p] # None,
           \A u \in Threads \ {t} : job'[u] = job[u],
           Provisioning(t)' /\ job'[t].p \notin unbound => claim'[job'[t].p] # None,
           \A p \in Addresses \ unbound :
               status'[p] = "open" => status[p] = "open" \/ claim'[p] # None
    PROVE  ClaimInv'
<1>1. BoundAccounts'
  BY DEF ClaimInv, BoundAccounts
<1>2. ASSUME NEW u \in Threads \ {t}, Provisioning(u), job[u].p \notin unbound
      PROVE  claim'[job[u].p] # None
  <2>1. job[u].p \in Addresses
    BY <1>2, JobIs DEF IInv, TypeOK, JobFits, Provisioning
  <2>2. QED
    BY <1>2, <2>1 DEF ClaimInv
<1>3. QED
  BY <1>1, <1>2 DEF ClaimInv, Provisioning

LEMMA BeginClaims ==
    ASSUME IInv, ClaimInv, NEW t \in Threads, NEW next, Begin(t, next), claim' = claim,
           next.did = None \/ next.kind \in {"claim", "vouched"},
           \A p \in Addresses : status'[p] = "open" => status[p] = "open"
    PROVE  ClaimInv'
<1>1. /\ job' = [job EXCEPT ![t] = next] /\ unbound' = unbound
      /\ job'[t] = next /\ \A u \in Threads \ {t} : job'[u] = job[u]
  BY DEF Begin, IInv, TypeOK
<1>2. QED
  BY <1>1, ClaimsKept DEF Provisioning

LEMMA RequestClaims ==
    ASSUME IInv, ClaimInv, NEW t \in Threads, Request(t)
    PROVE  ClaimInv'
<1>1. ASSUME NEW did \in Dids, NEW user \in Addresses, Provision(t, did, user)
      PROVE  ClaimInv'
  <2> DEFINE p == Primary(did, user)
             next == [Idle EXCEPT !.kind = "claim", !.on = {p}, !.p = p, !.name = user, !.did = did]
  <2>1. Begin(t, next) /\ claim' = claim /\ status' = status /\ next.kind = "claim"
    BY <1>1 DEF Provision, Idle
  <2>2. QED
    BY <2>1, BeginClaims
<1>2. ASSUME NEW p \in Addresses, NEW did \in Dids, Vouch(t, p, did)
      PROVE  ClaimInv'
  <2> DEFINE next == [Idle EXCEPT !.kind = "vouched", !.on = {p}, !.p = p, !.did = did]
  <2>1. Begin(t, next) /\ claim' = claim /\ status' = status /\ next.kind = "vouched"
    BY <1>2 DEF Vouch, Idle
  <2>2. QED
    BY <2>1, BeginClaims
<1>3. ASSUME NEW p \in Addresses, NEW did \in Dids, RevokeDevice(t, p, did) \/ BindDid(t, p, did)
      PROVE  ClaimInv'
  <2>1. job' = job /\ unbound' = unbound /\ status' = status
    BY <1>3 DEF RevokeDevice, BindDid, Do
  <2>2. claim' = claim \/ claim' = [claim EXCEPT ![p] = did]
    BY <1>3 DEF RevokeDevice, BindDid
  <2>3. \A x \in Addresses : claim[x] # None => claim'[x] # None
    BY <2>2, AccountsAssumption DEF IInv, TypeOK
  <2>4. Provisioning(t) => job[t].p \in Addresses
    BY JobIs DEF IInv, TypeOK, JobFits, Provisioning
  <2>5. Provisioning(t)' /\ job'[t].p \notin unbound => claim'[job'[t].p] # None
    BY <2>1, <2>3, <2>4 DEF Provisioning, ClaimInv
  <2>6. QED
    BY <2>1, <2>3, <2>5, ClaimsKept
<1>4. ASSUME NEW p \in Addresses, NEW did \in Dids, Migrate(t, p, did)
      PROVE  ClaimInv'
  <2> DEFINE s == Scid[did]
             next == [Idle EXCEPT !.kind = "swap", !.on = {p, s}, !.p = p, !.name = s]
  <2>1. Begin(t, next) /\ claim' = claim /\ status' = status /\ next.did = None
    BY <1>4 DEF Migrate, Idle
  <2>2. QED
    BY <2>1, BeginClaims
<1>5. ASSUME NEW p \in Addresses, NEW a \in Addresses, ChangeAlias(t, p, a)
      PROVE  ClaimInv'
  <2> DEFINE next == [Idle EXCEPT !.kind = "list", !.on = {p}, !.p = p, !.name = a]
  <2>1. Begin(t, next) /\ claim' = claim /\ status' = status /\ next.did = None
    BY <1>5 DEF ChangeAlias, Idle
  <2>2. QED
    BY <2>1, BeginClaims
<1>6. ASSUME NEW p \in Addresses, Delete(t, p)
      PROVE  ClaimInv'
  <2> DEFINE next == [Idle EXCEPT !.kind = "remove", !.on = {p}, !.p = p]
  <2>1. Begin(t, next) /\ claim' = claim /\ DropRoute(p) /\ next.did = None
    BY <1>6 DEF Delete, Idle
  <2>2. \A x \in Addresses : status'[x] = "open" => status[x] = "open"
    BY <2>1 DEF DropRoute, IInv, TypeOK
  <2>3. QED
    BY <2>1, <2>2, BeginClaims
<1>7. ASSUME NEW p \in Addresses, NEW desired \in {None} \cup Addresses, Lookup(t, p, desired)
      PROVE  ClaimInv'
  <2> DEFINE next == [Idle EXCEPT !.kind = "reconcile", !.on = {p}, !.p = p, !.name = desired]
  <2>1. Begin(t, next) /\ claim' = claim /\ status' = status /\ next.did = None
    BY <1>7 DEF Lookup, Idle
  <2>2. QED
    BY <2>1, BeginClaims
<1>8. ASSUME NEW inactive \in SUBSET Addresses, PurgeScan(t, inactive)
      PROVE  ClaimInv'
  <2> DEFINE next == [Idle EXCEPT !.kind = "purge", !.on = inactive]
  <2>1. Begin(t, next) /\ claim' = claim /\ status' = status /\ next.did = None
    BY <1>8 DEF PurgeScan, Idle
  <2>2. QED
    BY <2>1, BeginClaims
<1>9. QED
  BY <1>1, <1>2, <1>3, <1>4, <1>5, <1>6, <1>7, <1>8 DEF Request

\* A later step of t's request that drops and takes no claim: it goes on provisioning the
\* account it was provisioning, and answers for no other.
LEMMA StepClaims ==
    ASSUME IInv, ClaimInv, NEW t \in Threads, claim' = claim, unbound' = unbound,
           \A u \in Threads \ {t} : job'[u] = job[u],
           Provisioning(t)' => Provisioning(t) /\ job'[t].p = job[t].p,
           \A p \in Addresses :
               status'[p] = "open" => status[p] = "open" \/ (Provisioning(t) /\ p = job[t].p)
    PROVE  ClaimInv'
  BY ClaimsKept DEF ClaimInv

\* The provisioning request after a step that ends it or takes it to another kind.
LEMMA GoesOn ==
    ASSUME IInv, NEW t \in Threads, job[t].kind \notin {"claim", "vouched"},
           Finish(t) \/ \E kind \in Kind :
               /\ Go(t, kind)
               /\ job[t].did = None \/ kind = "release"
                  \/ job[t].kind \in {"device", "open", "insert", "alias", "list", "persist"}
    PROVE  /\ \A u \in Threads \ {t} : job'[u] = job[u]
           /\ Provisioning(t)' => Provisioning(t) /\ job'[t].p = job[t].p
<1>1. CASE Finish(t)
  BY <1>1, Finishing, IdleIs DEF Becomes, IInv, Provisioning
<1>2. CASE \E kind \in Kind :
               /\ Go(t, kind)
               /\ job[t].did = None \/ kind = "release"
                  \/ job[t].kind \in {"device", "open", "insert", "alias", "list", "persist"}
  BY <1>2, Going DEF Becomes, IInv, Provisioning
<1>3. QED
  BY <1>1, <1>2

\* The steps of a provision after its claim.
LEMMA ProvisionClaims ==
    ASSUME IInv, ClaimInv, NEW t \in Threads,
           AddDevice(t) \/ OpenStore(t) \/ Register(t) \/ NameAlias(t)
               \/ ListAliases(t) \/ WriteAliases(t)
    PROVE  ClaimInv'
<1> DEFINE kinds == {"device", "open", "insert", "alias", "list", "persist"}
<1>1. job[t].kind \in kinds
  BY DEF AddDevice, OpenStore, Register, NameAlias, ListAliases, WriteAliases, Step
<1>2. claim' = claim /\ unbound' = unbound
  BY DEF AddDevice, OpenStore, Register, NameAlias, ListAliases, WriteAliases, Fine, FailFor
<1>3. \/ Finish(t) \/ Go(t, "open") \/ Go(t, "insert") \/ Go(t, "alias") \/ Go(t, "list")
      \/ job' = [job EXCEPT ![t].kind = "persist", ![t].list = AliasesFor(job[t].p)]
  BY DEF AddDevice, OpenStore, Register, NameAlias, ListAliases, WriteAliases, Answer
<1>4. /\ \A u \in Threads \ {t} : job'[u] = job[u]
      /\ Provisioning(t)' => Provisioning(t) /\ job'[t].p = job[t].p
  <2>1. CASE Finish(t) \/ \E kind \in Kind : Go(t, kind)
    BY <1>1, <2>1, GoesOn
  <2>2. CASE job' = [job EXCEPT ![t].kind = "persist", ![t].list = AliasesFor(job[t].p)]
    <3>1. /\ \A u \in Threads \ {t} : job'[u] = job[u]
          /\ job'[t].p = job[t].p /\ job'[t].did = job[t].did
      BY <2>2 DEF IInv, TypeOK, Job
    <3>2. QED
      BY <1>1, <3>1 DEF Provisioning
  <2>3. QED
    BY <1>3, <2>1, <2>2 DEF Kind
<1>5. \/ status' = status
      \/ job[t].did # None /\ status' = [status EXCEPT ![job[t].p] = "open"]
  BY DEF AddDevice, OpenStore, Register, NameAlias, ListAliases, WriteAliases, Answer
<1>6. \A p \in Addresses :
          status'[p] = "open" => status[p] = "open" \/ (Provisioning(t) /\ p = job[t].p)
  BY <1>1, <1>5 DEF IInv, TypeOK, Provisioning
<1>7. QED
  BY <1>2, <1>4, <1>6, StepClaims

\* The steps of the other requests, but for the release of a claim.
LEMMA OtherClaims ==
    ASSUME IInv, ClaimInv, NEW t \in Threads,
           \/ WriteDevice(t) \/ RemoveData(t) \/ Swap(t) \/ ReopenFails(t) \/ Reconcile(t)
           \/ PurgeData(t) \/ \E p \in Addresses : PurgeRoute(t, p)
    PROVE  ClaimInv'
<1>1. claim' = claim /\ unbound' = unbound
  BY DEF WriteDevice, RemoveData, Swap, ReopenFails, Reconcile, PurgeData, PurgeRoute, Fine,
         FailFor
<1>2. \A p \in Addresses : status'[p] = "open" => status[p] = "open"
  <2>1. CASE status' = status
    BY <2>1
  <2>2. CASE Swap(t)
    BY <2>2 DEF Swap, IInv, TypeOK
  <2>3. CASE \E p \in Addresses : PurgeRoute(t, p)
    BY <2>3 DEF PurgeRoute, DropRoute, IInv, TypeOK
  <2>4. QED
    BY <2>1, <2>2, <2>3 DEF WriteDevice, RemoveData, ReopenFails, Reconcile, PurgeData
<1>3. /\ \A u \in Threads \ {t} : job'[u] = job[u]
      /\ ~ Provisioning(t)'
  <2>1. job[t] \in Job /\ JobFits(t) /\ job \in [Threads -> Job]
    BY DEF IInv, TypeOK
  <2>2. CASE Finish(t)
    BY <2>2, Finishing, IdleIs DEF Becomes, IInv, Provisioning
  <2>3. CASE Go(t, "release")
    BY <2>1, <2>3 DEF Go, Job, Provisioning
  <2>4. CASE Go(t, "list") /\ job[t].kind = "reconcile"
    <3>1. job[t].did = None
      BY <2>1, <2>4 DEF JobFits
    <3>2. QED
      BY <2>1, <2>4, <3>1 DEF Go, Job, Provisioning
  <2>5. CASE job[t].kind = "swap" /\ \E s : job' = [job EXCEPT ![t].kind = "list", ![t].p = s]
    <3>1. job[t].did = None
      BY <2>1, <2>5 DEF JobFits
    <3>2. QED
      BY <2>1, <2>5, <3>1 DEF Job, Provisioning
  <2>6. CASE \E p : job' = [job EXCEPT ![t].kind = "purging", ![t].p = p]
    BY <2>1, <2>6 DEF Job, Provisioning
  <2>7. CASE \E S : job' = [job EXCEPT ![t].kind = "purge", ![t].p = None, ![t].on = S]
    BY <2>1, <2>7 DEF Job, Provisioning
  <2>8. QED
    <3>1. CASE WriteDevice(t) \/ RemoveData(t) \/ ReopenFails(t)
      BY <2>2, <2>3, <3>1 DEF WriteDevice, RemoveData, ReopenFails
    <3>2. CASE Swap(t)
      BY <2>2, <2>5, <3>2 DEF Swap, Step
    <3>3. CASE Reconcile(t)
      BY <2>2, <2>4, <3>3 DEF Reconcile, Step
    <3>4. CASE PurgeData(t)
      <4>1. \/ Finish(t)
            \/ job' = [job EXCEPT ![t].kind = "purge", ![t].p = None,
                                  ![t].on = job[t].on \ {job[t].p}]
        BY <2>1, <3>4 DEF PurgeData
      <4>2. QED
        BY <2>2, <2>7, <4>1
    <3>5. CASE \E p \in Addresses : PurgeRoute(t, p)
      BY <2>6, <3>5 DEF PurgeRoute
    <3>6. QED
      BY <3>1, <3>2, <3>3, <3>4, <3>5
<1>4. QED
  BY <1>1, <1>2, <1>3, StepClaims

LEMMA ClaimClaims ==
    ASSUME IInv, ClaimInv, NEW t \in Threads, Claim(t)
    PROVE  ClaimInv'
<1> USE AccountsAssumption
<1> DEFINE p == job[t].p
<1>1. /\ job[t].kind = "claim" /\ status' = status /\ unbound' = unbound
      /\ \/ claim' = [claim EXCEPT ![p] = job[t].did] /\ (Go(t, "device") \/ Finish(t))
         \/ Finish(t) /\ claim' = claim
  BY DEF Claim, Step, Fine, FailFor
<1>2. p \in Addresses /\ job[t].did \in Dids
  BY <1>1, JobIs DEF IInv, TypeOK, JobFits
<1>3. \A x \in Addresses : claim[x] # None => claim'[x] # None
  BY <1>1, <1>2 DEF IInv, TypeOK
<1>4. /\ \A u \in Threads \ {t} : job'[u] = job[u]
      /\ Provisioning(t)' => Go(t, "device") /\ job'[t].p = p
  BY <1>1, Finishing, Going, IdleIs DEF Becomes, IInv, Provisioning, Kind
<1>5. Go(t, "device") /\ ~ Finish(t) => claim'[p] # None
  BY <1>1, <1>2 DEF IInv, TypeOK
<1>6. Provisioning(t)' => ~ Finish(t)
  BY Finishing, IdleIs DEF Becomes, IInv, Provisioning
<1>7. QED
  BY <1>1, <1>3, <1>4, <1>5, <1>6, ClaimsKept

\* Whoever the release of a claim strikes is no longer said to hold one.
LEMMA ReleaseClaims ==
    ASSUME IInv, ClaimInv, NEW t \in Threads, Release(t)
    PROVE  ClaimInv'
<1> DEFINE p == job[t].p
           struck == status[p] = "open"
                     \/ \E u \in Threads \ {t} : job[u].p = p /\ job[u].did # None
<1>1. /\ status' = status /\ Finish(t) /\ job[t].kind = "release"
      /\ \/ claim' = claim /\ unbound' = unbound
         \/ /\ claim' = [claim EXCEPT ![p] = None]
            /\ unbound' = IF struck THEN unbound \cup {p} ELSE unbound
  BY DEF Release, FailFor, Step
<1>2. \A u \in Threads \ {t} : job'[u] = job[u]
  BY <1>1, Finishing DEF Becomes, IInv
<1>3. ~ Provisioning(t)'
  BY <1>1, Finishing, IdleIs DEF Becomes, IInv, Provisioning
<1>4. CASE claim' = claim /\ unbound' = unbound
  BY <1>1, <1>2, <1>3, <1>4, ClaimsKept
<1>5. CASE /\ claim' = [claim EXCEPT ![p] = None]
           /\ unbound' = IF struck THEN unbound \cup {p} ELSE unbound
  <2>1. \A x \in Addresses \ {p} : claim'[x] = claim[x]
    BY <1>5 DEF IInv, TypeOK
  <2>2. BoundAccounts'
    BY <1>1, <1>5, <2>1 DEF ClaimInv, BoundAccounts
  <2>3. ASSUME NEW u \in Threads \ {t}, Provisioning(u), job[u].p \notin unbound'
        PROVE  claim'[job[u].p] # None
    <3>1. job[u].p \in Addresses
      BY <2>3, JobIs DEF IInv, TypeOK, JobFits, Provisioning
    <3>2. job[u].p # p
      BY <1>5, <2>3 DEF Provisioning
    <3>3. QED
      BY <1>5, <2>1, <2>3, <3>1, <3>2 DEF ClaimInv
  <2>4. QED
    BY <1>2, <1>3, <2>2, <2>3 DEF ClaimInv, Provisioning
<1>6. QED
  BY <1>1, <1>4, <1>5

\* An account provisioned under an address and answered 201 has its claim with the anchor
\* until it is removed or migrated, whatever fails, crashes or is purged in between; but
\* for one whose claim a deletion released while it was being provisioned again or later.
THEOREM ProvisionedAccountsAreBound == Spec => []BoundAccounts
<1>1. Init => ClaimInv
  <2> SUFFICES ASSUME Init
               PROVE  ClaimInv
    OBVIOUS
  <2>1. /\ \A p \in Addresses : status[p] = "none"
        /\ \A t \in Threads : job[t] = Idle
    BY DEF Init
  <2>2. QED
    BY <2>1, IdleIs DEF ClaimInv, BoundAccounts, Provisioning
<1>2. IInv /\ ClaimInv /\ [Next]_vars => ClaimInv'
  <2> SUFFICES ASSUME IInv, ClaimInv, [Next]_vars
               PROVE  ClaimInv'
    OBVIOUS
  <2>1. ASSUME NEW t \in Threads, Continue(t)
        PROVE  ClaimInv'
    BY <2>1, ProvisionClaims, OtherClaims, ClaimClaims, ReleaseClaims DEF Continue
  <2>2. CASE Crash
    <3>1. /\ claim' = claim /\ status' = status /\ unbound' = unbound
          /\ \A t \in Threads : job'[t] = Idle
      BY <2>2 DEF Crash
    <3>2. QED
      BY <3>1, IdleIs DEF ClaimInv, BoundAccounts, Provisioning
  <2>3. CASE Restart \/ UNCHANGED vars
    <3>1. claim' = claim /\ status' = status /\ unbound' = unbound /\ job' = job
      BY <2>3 DEF Restart, Start, vars, ghosts
    <3>2. QED
      BY <3>1 DEF ClaimInv, BoundAccounts, Provisioning
  <2>4. QED
    BY <2>1, <2>2, <2>3, RequestClaims DEF Next
<1>3. ClaimInv => BoundAccounts
  BY DEF ClaimInv
<1>4. QED
  BY <1>1, <1>2, <1>3, AccountsInvariant, PTL DEF Spec

\* Whatever a crash left, a start serves accounts only from directories its sweep spared,
\* and passes over one only for a failure of its own: every account with a hash keeps it
\* and is served, unless the hash could not be read or the store did not open.
THEOREM RestartsAgree == Spec => RestartConsistent
<1> DEFINE Agree(unread, stuck, unopened) ==
        /\ stores' \subseteq dirs' /\ dirs' \ stores' \subseteq stuck \cup unopened
        /\ hash \ unread \subseteq hash' /\ hash \ unread \subseteq stores' \cup unopened
<1>1. ASSUME TypeOK, NEW unread \in MayFail(dirs \ Static), NEW stuck \in MayFail(dirs \ Static),
             NEW unopened \in MayFail(dirs \ Static), Start(unread, stuck, unopened)
      PROVE  Agree(unread, stuck, unopened)
  <2>1. unread \in SUBSET (dirs \ Static) /\ stuck \in SUBSET (dirs \ Static)
    BY DEF MayFail
  <2>2. /\ hash' \subseteq dirs' /\ dirs' = Static \cup (hash \ unread) \cup stuck
        /\ hash \ unread \subseteq hash'
    BY <1>1, <2>1, Starting
  <2>3. stores' = Static \cup (Recovered \ unopened)
    BY <1>1 DEF Start
  <2>4. QED
    BY <2>2, <2>3 DEF Recovered
<1>2. TypeOK /\ [Next]_vars =>
          [~ up => \A unread, stuck, unopened \in MayFail(dirs \ Static) :
               Start(unread, stuck, unopened) => Agree(unread, stuck, unopened)]_vars
  BY <1>1
<1>3. QED
  BY <1>2, AccountsTyped, PTL DEF Spec, RestartConsistent

=============================================================================
