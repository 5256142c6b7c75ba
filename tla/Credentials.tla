---------------------------- MODULE Credentials ----------------------------
(***************************************************************************)
(* What lets a client into one account: the nonce of a login, the device   *)
(* keys and session files (did/devices.rs, jmapserver did/devicekeys.rs    *)
(* and did/session_nonce.rs), the envelope of its secrets and the setup    *)
(* token of a configured account (setup.rs, startup.rs, auth_env.rs).      *)
(*                                                                         *)
(* Nothing here takes a lock but the nonces: a request is a sequence of    *)
(* file steps, and requests of several threads interleave at each of them. *)
(* The clock is coarse; one tick is longer than a nonce lives.             *)
(***************************************************************************)
EXTENDS Integers, FiniteSets

CONSTANTS
    Workers,        \* threads of the HTTP server
    Devices,        \* device keys of the account's owner
    Absent,         \* no such file
    Torn,           \* a file that does not parse: truncated, or cut short
    NonceTTL, SessionTTL, FreshnessWindow,      \* in ticks
    MaxTime, MaxNonces, MaxSessions, MaxTokens, \* bounds
    MaxCrashes, MaxFailures                     \* bounds on the fault model

ASSUME CredentialsAssumption ==
    /\ {NonceTTL, SessionTTL, FreshnessWindow} \subseteq Nat \ {0}
    /\ {MaxTime, MaxNonces, MaxSessions, MaxTokens, MaxCrashes, MaxFailures} \subseteq Nat

Nonces   == 1..MaxNonces
Sessions == 1..MaxSessions
Tokens   == 1..MaxTokens
Nobody   == 0        \* no nonce, session or token

\* A session file names its device and its last second.
SessionRecord == [device : Devices, expires : Nat]

ASSUME FilesAssumption ==
    /\ Absent # Torn /\ {Absent, Torn} \cap SessionRecord = {}
    /\ Absent \notin Nat /\ Torn \notin Nat
    /\ Absent # "key" /\ "sealed" \notin {Absent, Torn}

VARIABLES
    up,         \* the relay is running
    now,        \* the clock
    hash,       \* an auth_token_hash is on file; no code of the relay writes one
    live,       \* live[n]: when nonce n expires, or Absent (in memory)
    device,     \* device[d]: devices/<d>.json: Absent, Torn or "key"
    session,    \* session[s]: sessions/<s>.json: Absent, Torn or a record
    envelope,   \* envelope.json: Absent, Torn or "sealed"
    token,      \* setup_token: Absent, Torn (empty) or a token
    job,        \* job[w]: the request thread w is handling
    used,       \* how many nonces, sessions and tokens were ever drawn
    faults,     \* crashes and failed file operations so far
    granted,    \* ghost: granted[n]: sessions written for a login with n
    stray,      \* ghost: sessions a removal of their device could not see or did not finish
    invites,    \* ghost: the tokens the operator was given
    claims,     \* ghost: sign-ups answered with success
    excused     \* ghost: "claims" when two sign-ups may both succeed, "locked" when the
                \* account may be left with neither an envelope nor a token

fileVars  == <<device, session, envelope, token>>
ghostVars == <<granted, stray, invites, claims, excused>>
vars == <<up, now, hash, live, fileVars, job, used, faults, ghostVars>>

\* raced: another sign-up has burnt the token since this one found it.
Job == [op : {"none", "login", "remove", "vouch", "signup", "put"},
        pc : {"idle", "consume", "check", "truncate", "write", "unlist", "list", "unlink", "burn"},
        dev : Devices \cup {Absent}, nonce : Nonces \cup {Nobody}, fresh : BOOLEAN, at : Nat,
        file : Sessions \cup {Nobody}, rest : SUBSET Sessions,
        raced : BOOLEAN]

Idle == [op |-> "none", pc |-> "idle", dev |-> Absent, nonce |-> Nobody, fresh |-> FALSE,
         at |-> 0, file |-> Nobody, rest |-> {}, raced |-> FALSE]

Readable == envelope = "sealed"

\* Which writers have the envelope open, and which sign-ups have passed their check.
Writing(w)  == job[w].op \in {"signup", "put"} /\ job[w].pc = "write"
Admitted(w) == job[w].op = "signup" /\ job[w].pc \in {"truncate", "write", "burn"}

\* check_session_token: a record that parses and has not expired.
Usable(s) == session[s] \in SessionRecord /\ now <= session[s].expires

\* authenticate: a session of the account, or the static credential.
Authenticated == hash \/ \E s \in Sessions : Usable(s)

Init ==
    /\ up = FALSE /\ now = 0
    /\ hash \in BOOLEAN
    /\ live = [n \in Nonces |-> Absent]
    /\ device \in [Devices -> {Absent, "key"}]
    /\ session = [s \in Sessions |-> Absent]
    /\ envelope \in {Absent, "sealed"}
    /\ token = Absent
    /\ job = [w \in Workers |-> Idle]
    /\ used = [nonce |-> 0, session |-> 0, token |-> 0]
    /\ faults = [crash |-> 0, failure |-> 0]
    /\ granted = [n \in Nonces |-> 0]
    /\ stray = {} /\ invites = {} /\ claims = 0 /\ excused = {}

-----------------------------------------------------------------------------
(* Requests.                                                               *)

Starts(w, request) ==
    /\ up /\ job[w] = Idle
    /\ job' = [job EXCEPT ![w] = request]

Goes(w, pc) == job' = [job EXCEPT ![w].pc = pc]
Ends(w)     == job' = [job EXCEPT ![w] = Idle]

At(w, op, pc) == up /\ job[w].op = op /\ job[w].pc = pc

Fails ==
    /\ faults.failure < MaxFailures
    /\ faults' = [faults EXCEPT !.failure = @ + 1]

\* GET /account/session/challenge: drop what has expired, draw a fresh nonce.
Issue ==
    /\ up /\ used.nonce < MaxNonces
    /\ used' = [used EXCEPT !.nonce = @ + 1]
    /\ live' = [n \in Nonces |->
                   IF n = used'.nonce THEN now + NonceTTL
                   ELSE IF live[n] # Absent /\ live[n] > now THEN live[n] ELSE Absent]
    /\ UNCHANGED <<up, now, hash, fileVars, job, faults, ghostVars>>

\* is_fresh, with the clock read as the request comes in.
IsFresh(ts) == -FreshnessWindow <= now - ts /\ now - ts <= FreshnessWindow

\* POST /account/session with a signed statement: of any device, with any nonce ever drawn
\* and any time on it, early, late or sent before.
Login(w, d, n, ts) ==
    /\ Starts(w, [Idle EXCEPT !.op = "login", !.pc = "consume", !.dev = d, !.nonce = n,
                              !.fresh = IsFresh(ts), !.at = now])
    /\ UNCHANGED <<up, now, hash, live, fileVars, used, faults, ghostVars>>

\* Mutant: a nonce is looked up and only removed when it has expired.
ConsumeLooks(w) ==
    /\ At(w, "login", "consume")
    /\ LET n == job[w].nonce
           good == n # Nobody /\ live[n] # Absent /\ live[n] > now
       IN  /\ live' = IF n # Nobody /\ ~good THEN [live EXCEPT ![n] = Absent] ELSE live
           /\ IF good THEN Goes(w, "check") ELSE Ends(w)
    /\ UNCHANGED <<up, now, hash, fileVars, used, faults, ghostVars>>

\* consume: the entry goes, whether or not it is still good.
Consume(w) ==
    /\ At(w, "login", "consume")
    /\ LET n == job[w].nonce
       IN  /\ live' = [live EXCEPT ![n] = Absent]
           /\ IF live[n] # Absent /\ live[n] > now THEN Goes(w, "check") ELSE Ends(w)
    /\ UNCHANGED <<up, now, hash, fileVars, used, faults, ghostVars>>

\* verify_device_session: a fresh statement of a device on file.  That the file exists is
\* enough; the key is its name.
Verify(w) ==
    /\ At(w, "login", "check")
    /\ IF job[w].fresh /\ device[job[w].dev] # Absent THEN Goes(w, "truncate") ELSE Ends(w)
    /\ UNCHANGED <<up, now, hash, live, fileVars, used, faults, ghostVars>>

\* issue_session_token: a file with a fresh random name, created and then written.
CreateSession(w) ==
    /\ At(w, "login", "truncate") /\ used.session < MaxSessions
    /\ used' = [used EXCEPT !.session = @ + 1]
    /\ session' = [session EXCEPT ![used'.session] = Torn]
    /\ job' = [job EXCEPT ![w].pc = "write", ![w].file = used'.session]
    /\ UNCHANGED <<up, now, hash, live, device, envelope, token, faults, ghostVars>>

WriteSession(w) ==
    /\ At(w, "login", "write")
    /\ LET d == job[w].dev  s == job[w].file
       IN  /\ session' = [session EXCEPT ![s] = [device |-> d, expires |-> job[w].at + SessionTTL]]
           /\ stray' = IF device[d] = Absent THEN stray \cup {s} ELSE stray
    /\ granted' = [granted EXCEPT ![job[w].nonce] = @ + 1]
    /\ Ends(w)
    /\ UNCHANGED <<up, now, hash, live, device, envelope, token, used, faults,
                   invites, claims, excused>>

\* The session file cannot be created or written: an error, and what is left of the file.
SessionFails(w) ==
    /\ job[w].op = "login" /\ job[w].pc \in {"truncate", "write"}
    /\ up /\ Fails
    /\ Ends(w)
    /\ UNCHANGED <<up, now, hash, live, fileVars, used, ghostVars>>

-----------------------------------------------------------------------------
\* POST /account/devices: an account with a credential or a listed device, and a vouch the
\* anchor accepts.
Vouch(w, d) ==
    /\ hash \/ \E e \in Devices : device[e] = "key"
    /\ Starts(w, [Idle EXCEPT !.op = "vouch", !.pc = "truncate", !.dev = d])
    /\ UNCHANGED <<up, now, hash, live, fileVars, used, faults, ghostVars>>

CreateDevice(w) ==
    /\ At(w, "vouch", "truncate")
    /\ device' = [device EXCEPT ![job[w].dev] = Torn]
    /\ Goes(w, "write")
    /\ UNCHANGED <<up, now, hash, live, session, envelope, token, used, faults, ghostVars>>

WriteDevice(w) ==
    /\ At(w, "vouch", "write")
    /\ device' = [device EXCEPT ![job[w].dev] = "key"]
    /\ Ends(w)
    /\ UNCHANGED <<up, now, hash, live, session, envelope, token, used, faults, ghostVars>>

VouchFails(w) ==
    /\ up /\ job[w].op = "vouch" /\ Fails
    /\ Ends(w)
    /\ UNCHANGED <<up, now, hash, live, fileVars, used, ghostVars>>

\* DELETE /account/devices, authenticated: the key first, then the sessions one by one.
Remove(w, d) ==
    /\ Authenticated
    /\ Starts(w, [Idle EXCEPT !.op = "remove", !.pc = "unlist", !.dev = d])
    /\ UNCHANGED <<up, now, hash, live, fileVars, used, faults, ghostVars>>

\* Mutant: only the key goes.
RemoveKeyOnly(w) ==
    /\ At(w, "remove", "unlist")
    /\ device' = [device EXCEPT ![job[w].dev] = Absent]
    /\ Ends(w)
    /\ UNCHANGED <<up, now, hash, live, session, envelope, token, used, faults, ghostVars>>

RemoveKey(w) ==
    /\ At(w, "remove", "unlist")
    /\ device' = [device EXCEPT ![job[w].dev] = Absent]
    /\ Goes(w, "list")
    /\ UNCHANGED <<up, now, hash, live, session, envelope, token, used, faults, ghostVars>>

ListSessions(w) ==
    /\ At(w, "remove", "list")
    /\ LET rest == {s \in Sessions : session[s] # Absent}
       IN  IF rest = {} THEN Ends(w)
           ELSE job' = [job EXCEPT ![w].pc = "unlink", ![w].rest = rest]
    /\ UNCHANGED <<up, now, hash, live, fileVars, used, faults, ghostVars>>

SessionsOf(d) == {s \in Sessions : session[s] \in SessionRecord /\ session[s].device = d}

\* The directory cannot be read: taken for an account without sessions.
ListFails(w) ==
    /\ At(w, "remove", "list") /\ Fails
    /\ stray' = stray \cup SessionsOf(job[w].dev)
    /\ Ends(w)
    /\ UNCHANGED <<up, now, hash, live, fileVars, used, granted, invites, claims, excused>>

NextFile(w, s) ==
    IF job[w].rest = {s} THEN Ends(w) ELSE job' = [job EXCEPT ![w].rest = @ \ {s}]

\* One file of the listing: removed when it parses and names the device.
Unlink(w) ==
    /\ At(w, "remove", "unlink")
    /\ \E s \in job[w].rest :
           /\ session' = IF s \in SessionsOf(job[w].dev) THEN [session EXCEPT ![s] = Absent]
                         ELSE session
           /\ NextFile(w, s)
    /\ UNCHANGED <<up, now, hash, live, device, envelope, token, used, faults, ghostVars>>

\* An error of the removal is ignored.
UnlinkFails(w) ==
    /\ At(w, "remove", "unlink") /\ Fails
    /\ \E s \in job[w].rest \cap SessionsOf(job[w].dev) :
           /\ stray' = stray \cup {s}
           /\ NextFile(w, s)
    /\ UNCHANGED <<up, now, hash, live, fileVars, used, granted, invites, claims, excused>>

-----------------------------------------------------------------------------
(* Onboarding.                                                             *)

\* POST /auth/signup: the account whose setup token is presented.  A token is 128 random bits:
\* one that is presented and found is one the operator was given.
Signup(w, k) ==
    /\ token = k /\ k \in invites
    /\ Starts(w, [Idle EXCEPT !.op = "signup", !.pc = "check"])
    /\ UNCHANGED <<up, now, hash, live, fileVars, used, faults, ghostVars>>

\* Mutant: an account that has its envelope is not refused.
SignupUnchecked(w) ==
    /\ At(w, "signup", "check")
    /\ Goes(w, "truncate")
    /\ excused' = IF \E v \in Workers \ {w} : Admitted(v) \/ Writing(v)
                  THEN excused \cup {"claims"} ELSE excused
    /\ UNCHANGED <<up, now, hash, live, fileVars, used, faults,
                   granted, stray, invites, claims>>

\* Mutant: the token is burnt before the envelope is written.
SignupCheckBurns(w) ==
    /\ At(w, "signup", "check")
    /\ IF Readable THEN Ends(w) /\ UNCHANGED <<token, excused>>
       ELSE /\ Goes(w, "truncate")
            /\ token' = Absent
            /\ excused' = IF \E v \in Workers \ {w} : Admitted(v) \/ Writing(v)
                          THEN excused \cup {"claims"} ELSE excused
    /\ UNCHANGED <<up, now, hash, live, device, session, envelope, used, faults,
                   granted, stray, invites, claims>>

\* Refused when the account has an envelope that parses.
SignupCheck(w) ==
    /\ At(w, "signup", "check")
    /\ IF Readable THEN Ends(w) /\ UNCHANGED excused
       ELSE /\ Goes(w, "truncate")
            /\ excused' = IF \E v \in Workers \ {w} : Admitted(v) \/ Writing(v)
                          THEN excused \cup {"claims"} ELSE excused
    /\ UNCHANGED <<up, now, hash, live, fileVars, used, faults,
                   granted, stray, invites, claims>>

\* PUT /auth/envelope: the caller's own, replaced.
Put(w) ==
    /\ Authenticated
    /\ Starts(w, [Idle EXCEPT !.op = "put", !.pc = "truncate"])
    /\ UNCHANGED <<up, now, hash, live, fileVars, used, faults, ghostVars>>

TruncateEnvelope(w) ==
    /\ At(w, "signup", "truncate") \/ At(w, "put", "truncate")
    /\ envelope' = Torn
    /\ Goes(w, "write")
    /\ UNCHANGED <<up, now, hash, live, device, session, token, used, faults, ghostVars>>

WriteEnvelope(w) ==
    /\ up /\ Writing(w)
    /\ envelope' = "sealed"
    /\ IF job[w].op = "signup" THEN Goes(w, "burn") /\ claims' = claims + 1
       ELSE Ends(w) /\ UNCHANGED claims
    /\ UNCHANGED <<up, now, hash, live, device, session, token, used, faults,
                   granted, stray, invites, excused>>

\* The write fails: an error, and the file as it was found or cut short.  It can be another
\* request's envelope, whose token is burnt or about to be.
EnvelopeFails(w) ==
    /\ up /\ Writing(w) /\ Fails
    /\ envelope' \in {envelope, Torn}
    /\ claims' = IF envelope' = Torn THEN 0 ELSE claims
    /\ excused' = IF \/ job[w].op = "put"
                     \/ job[w].raced
                     \/ \E v \in Workers : job[v].pc = "burn"
                  THEN excused \cup {"locked"} ELSE excused
    /\ Ends(w)
    /\ UNCHANGED <<up, now, hash, live, device, session, token, used, granted, stray, invites>>

\* The token is burnt once the envelope is written.
Burn(w) ==
    /\ At(w, "signup", "burn")
    /\ token' = Absent
    /\ job' = [v \in Workers |-> IF v = w THEN Idle
                                 ELSE IF job[v].op = "signup" THEN [job[v] EXCEPT !.raced = TRUE]
                                 ELSE job[v]]
    /\ UNCHANGED <<up, now, hash, live, device, session, envelope, used, faults, ghostVars>>

\* An error of the removal is ignored.
BurnFails(w) ==
    /\ At(w, "signup", "burn") /\ Fails
    /\ Ends(w)
    /\ UNCHANGED <<up, now, hash, live, fileVars, used, ghostVars>>

-----------------------------------------------------------------------------
\* The start, for a configured account: an unclaimed one gets a token, the one on file if
\* there is one, and the operator the link for it.
Start ==
    /\ ~up /\ up' = TRUE
    /\ IF Readable \/ token \in Tokens
       THEN /\ UNCHANGED <<token, used>>
            /\ invites' = IF Readable THEN invites ELSE invites \cup {token}
       ELSE /\ used.token < MaxTokens
            /\ used' = [used EXCEPT !.token = @ + 1]
            /\ token' = used'.token
            /\ invites' = invites \cup {token'}
    /\ excused' = excused \ {"locked"}
    /\ UNCHANGED <<now, hash, live, device, session, envelope, job, faults,
                   granted, stray, claims>>

\* The file of the new token cannot be written, or only a part of it: the operator gets the
\* link all the same.
StartFails ==
    /\ ~up /\ up' = TRUE
    /\ ~Readable /\ token \notin Tokens
    /\ used.token + 1 < MaxTokens /\ Fails
    /\ used' = [used EXCEPT !.token = @ + 2]
    /\ invites' = invites \cup {used.token + 1}
    /\ token' \in {token, Torn, used'.token}
    /\ excused' = excused \cup {"locked"}
    /\ UNCHANGED <<now, hash, live, device, session, envelope, job, granted, stray, claims>>

\* The process dies; nonces are in memory only.
Crash ==
    /\ up /\ faults.crash < MaxCrashes
    /\ up' = FALSE
    /\ faults' = [faults EXCEPT !.crash = @ + 1]
    /\ live' = [n \in Nonces |-> Absent]
    /\ job' = [w \in Workers |-> Idle]
    /\ stray' = stray \cup UNION {SessionsOf(job[w].dev) :
                                     w \in {v \in Workers : job[v].op = "remove"}}
    /\ claims' = IF Readable THEN claims ELSE 0
    /\ UNCHANGED <<now, hash, fileVars, used, granted, invites, excused>>

Tick ==
    /\ now < MaxTime
    /\ now' = now + 1
    /\ UNCHANGED <<up, hash, live, fileVars, job, used, faults, ghostVars>>

SessionStep(w) ==
    \/ \E d \in Devices, n \in 1..used.nonce, ts \in 0..MaxTime : Login(w, d, n, ts)
    \/ Consume(w) \/ Verify(w) \/ CreateSession(w) \/ WriteSession(w) \/ SessionFails(w)

DeviceStep(w) ==
    \/ \E d \in Devices : Vouch(w, d) \/ Remove(w, d)
    \/ CreateDevice(w) \/ WriteDevice(w) \/ VouchFails(w)
    \/ RemoveKey(w) \/ ListSessions(w) \/ ListFails(w) \/ Unlink(w) \/ UnlinkFails(w)

EnvelopeStep(w) ==
    \/ \E k \in Tokens : Signup(w, k)
    \/ Put(w) \/ SignupCheck(w) \/ TruncateEnvelope(w) \/ WriteEnvelope(w) \/ EnvelopeFails(w)
    \/ Burn(w) \/ BurnFails(w)

Next ==
    \/ Issue \/ Start \/ StartFails \/ Crash \/ Tick
    \/ \E w \in Workers : SessionStep(w) \/ DeviceStep(w) \/ EnvelopeStep(w)

Spec == Init /\ [][Next]_vars

-----------------------------------------------------------------------------
TypeOK ==
    /\ up \in BOOLEAN /\ now \in 0..MaxTime /\ hash \in BOOLEAN
    /\ live \in [Nonces -> {Absent} \cup Nat]
    /\ device \in [Devices -> {Absent, Torn, "key"}]
    /\ session \in [Sessions -> {Absent, Torn} \cup SessionRecord]
    /\ envelope \in {Absent, Torn, "sealed"}
    /\ token \in {Absent, Torn} \cup Tokens
    /\ job \in [Workers -> Job]
    /\ used \in [nonce : 0..MaxNonces, session : 0..MaxSessions, token : 0..MaxTokens]
    /\ faults \in [crash : 0..MaxCrashes, failure : 0..MaxFailures]
    /\ granted \in [Nonces -> Nat]
    /\ stray \subseteq Sessions /\ invites \subseteq Tokens /\ claims \in Nat
    /\ excused \subseteq {"claims", "locked"}

(* A nonce is worth one session at most, whatever is sent twice, late or in  *)
(* two requests at once, and none that was drawn before the last start.      *)
NonceSpentOnce == \A n \in Nonces : granted[n] <= 1

(* A session that still opens the account is one of a device on file, or its *)
(* removal is under way; the exceptions are the sessions a removal cannot    *)
(* have seen (the login had passed its check) or did not get to.             *)
RevokedLosesSessions ==
    \A s \in Sessions \ stray :
        Usable(s) =>
            \/ device[session[s].device] # Absent
            \/ \E w \in Workers : /\ job[w].op = "remove"
                                  /\ job[w].dev = session[s].device
                                  /\ job[w].pc = "list" \/ s \in job[w].rest

(* An account is claimed once: a second sign-up succeeds only when it passed *)
(* its check while another request had the account's envelope open or was    *)
(* about to write it, or when that envelope is gone.                         *)
ClaimedOnce == claims > 1 => "claims" \in excused

(* While the relay runs, the account has its envelope, somebody is writing   *)
(* it, or a link the operator was given claims it; the exceptions are the    *)
(* failed writes over an envelope whose token is spent, and of the token.    *)
ClaimableOrClaimed ==
    up => \/ Readable
          \/ token \in invites
          \/ \E w \in Workers : Writing(w)
          \/ "locked" \in excused

=============================================================================
