------------------------- MODULE CredentialsProofs --------------------------
(***************************************************************************)
(* Safety of one account's credentials, for any threads, devices, lives of *)
(* nonces and sessions, crashes and failures.  The four properties are     *)
(* about different state and have an invariant each; what they share is    *)
(* that a relay that is down handles no request.                           *)
(***************************************************************************)
EXTENDS Credentials, TLAPS

-----------------------------------------------------------------------------
(* The inductive invariant.                                                *)

Quiet == ~up => \A w \in Workers : job[w] = Idle

\* What a request has in hand at each step.
JobFits(w) ==
    /\ job[w].op \in {"login", "vouch", "remove"} => job[w].dev \in Devices
    /\ job[w].op = "login" => job[w].nonce \in Nonces
    /\ job[w].op = "login" /\ job[w].pc = "write" => job[w].file \in Sessions

\* A login that has taken its nonce out and not been answered.
Holds(w, n) ==
    job[w].op = "login" /\ job[w].nonce = n /\ job[w].pc \in {"check", "truncate", "write"}

\* A nonce is in the table, or with one login, or spent on one session, or of no use any more.
NonceInv(n) ==
    /\ granted[n] <= 1
    /\ live[n] # Absent => granted[n] = 0 /\ \A w \in Workers : ~Holds(w, n)
    /\ \A w \in Workers : Holds(w, n) =>
           granted[n] = 0 /\ \A v \in Workers : Holds(v, n) => v = w
    /\ n > used.nonce => live[n] = Absent /\ granted[n] = 0 /\ \A w \in Workers : ~Holds(w, n)

\* A removal of d that has not passed the file of s.
Removes(w, d, s) ==
    /\ job[w].op = "remove" /\ job[w].dev = d
    /\ job[w].pc = "list" \/ s \in job[w].rest

\* RevokedLosesSessions for every session that is written, expired or not.
SessionInv(s) ==
    s \notin stray /\ session[s] \in SessionRecord =>
        \/ device[session[s].device] # Absent
        \/ \E w \in Workers : Removes(w, session[s].device, s)

Written == Readable \/ \E w \in Workers : Writing(w)

\* While sign-ups do not overlap, one at most is past its check, none after the first that
\* succeeded, and the envelope it wrote is there or being replaced.
ClaimInv ==
    \/ "claims" \in excused
    \/ /\ claims <= 1
       /\ claims = 1 => Written
       /\ \A w \in Workers : Admitted(w) =>
              /\ \A v \in Workers : Admitted(v) => v = w
              /\ job[w].pc # "burn" => claims = 0

\* A token that is about to be burnt has its envelope, a sign-up whose token nobody has burnt
\* holds one the operator was given, and an envelope that is being written is a file.
TokenInv ==
    /\ \A w \in Workers : Writing(w) => envelope # Absent
    /\ \A w \in Workers : job[w].op = "signup" /\ ~job[w].raced => token \in invites
    /\ up /\ (\E w \in Workers : job[w].op = "signup" /\ job[w].pc = "burn") =>
           Written \/ "locked" \in excused

IInv ==
    /\ TypeOK
    /\ Quiet
    /\ \A w \in Workers : JobFits(w)
    /\ \A n \in Nonces : NonceInv(n)
    /\ \A s \in Sessions : SessionInv(s)
    /\ ClaimInv
    /\ TokenInv
    /\ ClaimableOrClaimed

-----------------------------------------------------------------------------
(* What the steps have in common.                                         *)

Steps == {"idle", "consume", "check", "truncate", "write", "unlist", "list", "unlink", "burn"}

LEMMA IdleIsJob == Idle \in Job
  BY DEF Idle, Job, Nobody

\* Only w's request changes, to one with these fields.
Becomes(w, request) ==
    /\ job' \in [Workers -> Job]
    /\ job'[w] = request
    /\ \A v \in Workers \ {w} : job'[v] = job[v]

LEMMA Beginning ==
    ASSUME TypeOK, NEW w \in Workers, NEW request \in Job, Starts(w, request)
    PROVE  up /\ job[w] = Idle /\ Becomes(w, request)
  BY DEF TypeOK, Starts, Becomes

LEMMA Ending ==
    ASSUME TypeOK, NEW w \in Workers, Ends(w)
    PROVE  Becomes(w, Idle)
  BY IdleIsJob DEF TypeOK, Ends, Becomes

LEMMA GoesOn ==
    ASSUME TypeOK, NEW w \in Workers, NEW pc \in Steps, Goes(w, pc)
    PROVE  Becomes(w, [job[w] EXCEPT !.pc = pc])
<1>1. job[w] \in Job
  BY DEF TypeOK
<1>2. [job[w] EXCEPT !.pc = pc] \in Job
  BY <1>1 DEF Job, Steps
<1>3. job' = [job EXCEPT ![w] = [job[w] EXCEPT !.pc = pc]]
  BY DEF Goes, TypeOK
<1>4. QED
  BY <1>2, <1>3 DEF TypeOK, Becomes

\* What a request that goes on keeps.
LEMMA Fields ==
    ASSUME NEW r \in Job, NEW pc, NEW file, NEW rest
    PROVE  /\ LET next == [r EXCEPT !.pc = pc]
              IN  /\ next.pc = pc /\ next.op = r.op /\ next.dev = r.dev
                  /\ next.nonce = r.nonce /\ next.file = r.file /\ next.rest = r.rest
                  /\ next.raced = r.raced
           /\ LET next == [r EXCEPT !.pc = pc, !.file = file]
              IN  /\ next.pc = pc /\ next.op = r.op /\ next.dev = r.dev
                  /\ next.nonce = r.nonce /\ next.file = file
           /\ LET next == [r EXCEPT !.pc = pc, !.rest = rest]
              IN  next.pc = pc /\ next.op = r.op /\ next.dev = r.dev /\ next.rest = rest
           /\ LET next == [r EXCEPT !.rest = rest]
              IN  next.pc = r.pc /\ next.op = r.op /\ next.dev = r.dev /\ next.rest = rest
  BY DEF Job

\* No request of this kind begins, ends or goes on.
Still(op) == \A v \in Workers : op \in {job[v].op, job'[v].op} => job'[v] = job[v]

LEMMA NonceFrame ==
    ASSUME IInv, Still("login"), UNCHANGED <<live, granted>>, used'.nonce = used.nonce
    PROVE  \A n \in Nonces : NonceInv(n)'
<1>1. \A v \in Workers, n \in Nonces : Holds(v, n)' <=> Holds(v, n)
  BY DEF Still, Holds
<1>2. QED
  BY <1>1 DEF IInv, NonceInv

LEMMA SessionFrame ==
    ASSUME IInv, Still("remove"), stray \subseteq stray',
           \A s \in Sessions \ stray' : session'[s] \in SessionRecord =>
               session'[s] = session[s] \/ device'[session'[s].device] # Absent,
           \A d \in Devices : device[d] # Absent => device'[d] # Absent
    PROVE  \A s \in Sessions : SessionInv(s)'
<1>1. ASSUME NEW s \in Sessions, s \notin stray', session'[s] \in SessionRecord,
             session'[s] = session[s]
      PROVE  \/ device'[session'[s].device] # Absent
             \/ \E w \in Workers : Removes(w, session[s].device, s)'
  <2>1. session[s].device \in Devices
    BY <1>1 DEF SessionRecord
  <2>2. CASE device[session[s].device] # Absent
    BY <1>1, <2>1, <2>2
  <2>3. ASSUME NEW w \in Workers, Removes(w, session[s].device, s)
        PROVE  Removes(w, session[s].device, s)'
    BY <1>1, <2>3 DEF Removes, Still
  <2>4. QED
    BY <1>1, <2>2, <2>3 DEF IInv, SessionInv
<1>2. QED
  BY <1>1 DEF SessionInv, Removes

LEMMA EnvelopeFrame ==
    ASSUME IInv, Still("signup"), Still("put"),
           UNCHANGED <<up, envelope, token, claims, invites, excused>>
    PROVE  ClaimInv' /\ TokenInv' /\ ClaimableOrClaimed'
<1>1. \A v \in Workers : /\ Admitted(v)' <=> Admitted(v)
                         /\ Writing(v)' <=> Writing(v)
                         /\ Admitted(v) => job'[v] = job[v]
  BY DEF Still, Admitted, Writing
<1>2. ClaimInv'
  BY <1>1 DEF IInv, ClaimInv, Written, Readable
<1>3. TokenInv'
  BY <1>1 DEF IInv, TokenInv, Written, Readable, Still
<1>4. ClaimableOrClaimed'
  BY <1>1 DEF IInv, ClaimableOrClaimed, Readable
<1>5. QED
  BY <1>2, <1>3, <1>4

\* A removal is done with the file of s.
Passes(w, s) ==
    /\ Becomes(w, job'[w])
    /\ \/ job[w].rest = {s} /\ job'[w] = Idle
       \/ /\ job'[w].op = "remove" /\ job'[w].pc = "unlink" /\ job'[w].dev = job[w].dev
          /\ job'[w].rest = job[w].rest \ {s}

LEMMA NextFilePasses ==
    ASSUME TypeOK, NEW w \in Workers, At(w, "remove", "unlink"),
           NEW s \in job[w].rest, NextFile(w, s)
    PROVE  Passes(w, s)
<1> DEFINE next == [job[w] EXCEPT !.rest = @ \ {s}]
<1>1. job[w] \in Job /\ job[w].op = "remove" /\ job[w].pc = "unlink"
  BY DEF At, TypeOK
<1>2. CASE job[w].rest = {s}
  BY <1>2, Ending DEF NextFile, Passes, Becomes
<1>3. CASE job[w].rest # {s}
  <2>1. next \in Job /\ next.op = "remove" /\ next.pc = "unlink" /\ next.dev = job[w].dev
        /\ next.rest = job[w].rest \ {s}
    BY <1>1 DEF Job
  <2>2. job' = [job EXCEPT ![w] = next]
    BY <1>3 DEF NextFile, TypeOK
  <2> HIDE DEF next
  <2>3. Becomes(w, next)
    BY <2>1, <2>2 DEF Becomes, TypeOK
  <2>4. QED
    BY <2>1, <2>3 DEF Becomes, Passes
<1>4. QED
  BY <1>2, <1>3

-----------------------------------------------------------------------------
(* One lemma for each action.                                              *)

LEMMA LoginIInv ==
    ASSUME IInv, NEW w \in Workers, NEW d \in Devices, NEW n \in 1..used.nonce,
           NEW ts \in 0..MaxTime,
           Login(w, d, n, ts)
    PROVE  IInv'
<1> USE CredentialsAssumption, FilesAssumption DEF IInv
<1>1. up /\ job[w] = Idle /\ Becomes(w, job'[w])
      /\ job'[w].op = "login" /\ job'[w].pc = "consume"
      /\ job'[w].dev = d /\ job'[w].nonce = n /\ n \in Nonces
  <2> DEFINE request == [Idle EXCEPT !.op = "login", !.pc = "consume", !.dev = d, !.nonce = n,
                                     !.fresh = IsFresh(ts), !.at = now]
  <2>1. n \in Nonces /\ now \in Nat /\ IsFresh(ts) \in BOOLEAN
    BY DEF TypeOK, Nonces, IsFresh
  <2>2. request \in Job /\ request.op = "login" /\ request.pc = "consume" /\ request.dev = d
        /\ request.nonce = n
    BY <2>1 DEF Job, Idle, Nobody
  <2>3. Starts(w, request)
    BY DEF Login
  <2> HIDE DEF request
  <2>4. QED
    BY <2>1, <2>2, <2>3, Beginning DEF Becomes
<1>2. Still("remove") /\ Still("signup") /\ Still("put")
  BY <1>1 DEF Still, Becomes, Idle
<1>3. TypeOK'
  BY <1>1 DEF Login, fileVars, ghostVars, Becomes, TypeOK
<1>4. Quiet' /\ \A v \in Workers : JobFits(v)'
  BY <1>1 DEF Login, fileVars, ghostVars, Becomes, Idle, Quiet, JobFits
<1>5. \A i \in Nonces : NonceInv(i)'
  BY <1>1 DEF Login, fileVars, ghostVars, Becomes, NonceInv, Holds, Idle, JobFits
<1>6. \A s \in Sessions : SessionInv(s)'
  BY <1>2, SessionFrame DEF Login, fileVars, ghostVars, TypeOK
<1>7. ClaimInv' /\ TokenInv' /\ ClaimableOrClaimed'
  BY <1>2, EnvelopeFrame DEF Login, fileVars, ghostVars
<1>8. QED
  BY <1>3, <1>4, <1>5, <1>6, <1>7

LEMMA ConsumeIInv ==
    ASSUME IInv, NEW w \in Workers, Consume(w)
    PROVE  IInv'
<1> USE CredentialsAssumption, FilesAssumption DEF IInv
<1>1. up /\ job[w].op = "login" /\ job[w].pc = "consume" /\ Becomes(w, job'[w])
      /\ \/ job'[w] = Idle
         \/ job'[w].pc = "check" /\ job'[w].op = job[w].op /\ job'[w].dev = job[w].dev
             /\ job'[w].nonce = job[w].nonce /\ job'[w].raced = job[w].raced
  <2>1. job[w] \in Job /\ up /\ job[w].op = "login" /\ job[w].pc = "consume"
    BY DEF Consume, At, TypeOK
  <2>2. Becomes(w, [job[w] EXCEPT !.pc = "check"]) \/ Becomes(w, Idle)
    BY GoesOn, Ending DEF Consume, Steps
  <2>3. CASE Becomes(w, Idle)
    BY <2>1, <2>3 DEF Becomes
  <2>4. CASE Becomes(w, [job[w] EXCEPT !.pc = "check"])
    BY <2>1, <2>4, Fields DEF Becomes
  <2>5. QED
    BY <2>2, <2>3, <2>4
<1>2. Still("remove") /\ Still("signup") /\ Still("put")
  BY <1>1 DEF Still, Becomes, Idle
<1>3. TypeOK'
  BY <1>1 DEF Consume, fileVars, ghostVars, Becomes, TypeOK
<1>4. Quiet' /\ \A v \in Workers : JobFits(v)'
  BY <1>1 DEF Consume, fileVars, ghostVars, Becomes, Idle, Quiet, JobFits
<1>5. \A n \in Nonces : NonceInv(n)'
  <2>1. /\ job[w].nonce \in Nonces
        /\ live' = [live EXCEPT ![job[w].nonce] = Absent]
        /\ granted' = granted /\ used' = used
    BY <1>1 DEF Consume, JobFits, ghostVars
  <2>2. job'[w] = Idle \/ live[job[w].nonce] # Absent
    BY DEF Consume, Ends, TypeOK
  <2>3. \A v \in Workers \ {w} : job'[v] = job[v]
    BY <1>1 DEF Becomes
  <2>4. \A v \in Workers \ {w}, n \in Nonces : Holds(v, n)' <=> Holds(v, n)
    BY <2>3 DEF Holds
  <2>5. \A n \in Nonces : ~Holds(w, n)
    BY <1>1 DEF Holds
  <2>6. \A n \in Nonces : Holds(w, n)' => n = job[w].nonce /\ live[n] # Absent
    BY <1>1, <2>2 DEF Holds, Idle
  <2>7. \A n \in Nonces : live'[n] = IF n = job[w].nonce THEN Absent ELSE live[n]
    BY <2>1 DEF TypeOK
  <2>8. QED
    BY <2>1, <2>4, <2>5, <2>6, <2>7 DEF NonceInv
<1>6. \A s \in Sessions : SessionInv(s)'
  BY <1>2, SessionFrame DEF Consume, fileVars, ghostVars, TypeOK
<1>7. ClaimInv' /\ TokenInv' /\ ClaimableOrClaimed'
  BY <1>2, EnvelopeFrame DEF Consume, fileVars, ghostVars
<1>8. QED
  BY <1>3, <1>4, <1>5, <1>6, <1>7

LEMMA VerifyIInv ==
    ASSUME IInv, NEW w \in Workers, Verify(w)
    PROVE  IInv'
<1> USE CredentialsAssumption, FilesAssumption DEF IInv
<1>1. up /\ job[w].op = "login" /\ job[w].pc = "check" /\ Becomes(w, job'[w])
      /\ \/ job'[w] = Idle
         \/ job'[w].pc = "truncate" /\ job'[w].op = job[w].op /\ job'[w].dev = job[w].dev
             /\ job'[w].nonce = job[w].nonce /\ job'[w].raced = job[w].raced
  <2>1. job[w] \in Job /\ up /\ job[w].op = "login" /\ job[w].pc = "check"
    BY DEF Verify, At, TypeOK
  <2>2. Becomes(w, [job[w] EXCEPT !.pc = "truncate"]) \/ Becomes(w, Idle)
    BY GoesOn, Ending DEF Verify, Steps
  <2>3. CASE Becomes(w, Idle)
    BY <2>1, <2>3 DEF Becomes
  <2>4. CASE Becomes(w, [job[w] EXCEPT !.pc = "truncate"])
    BY <2>1, <2>4, Fields DEF Becomes
  <2>5. QED
    BY <2>2, <2>3, <2>4
<1>2. Still("remove") /\ Still("signup") /\ Still("put")
  BY <1>1 DEF Still, Becomes, Idle
<1>3. TypeOK'
  BY <1>1 DEF Verify, fileVars, ghostVars, Becomes, TypeOK
<1>4. Quiet' /\ \A v \in Workers : JobFits(v)'
  BY <1>1 DEF Verify, fileVars, ghostVars, Becomes, Idle, Quiet, JobFits
<1>5. \A n \in Nonces : NonceInv(n)'
  BY <1>1 DEF Verify, fileVars, ghostVars, Becomes, NonceInv, Holds, Idle, JobFits
<1>6. \A s \in Sessions : SessionInv(s)'
  BY <1>2, SessionFrame DEF Verify, fileVars, ghostVars, TypeOK
<1>7. ClaimInv' /\ TokenInv' /\ ClaimableOrClaimed'
  BY <1>2, EnvelopeFrame DEF Verify, fileVars, ghostVars
<1>8. QED
  BY <1>3, <1>4, <1>5, <1>6, <1>7

LEMMA CreateSessionIInv ==
    ASSUME IInv, NEW w \in Workers, CreateSession(w)
    PROVE  IInv'
<1> USE CredentialsAssumption, FilesAssumption DEF IInv
<1>1. up /\ job[w].op = "login" /\ job[w].pc = "truncate"
      /\ used'.session \in Sessions /\ Becomes(w, job'[w])
      /\ job'[w].op = "login" /\ job'[w].pc = "write" /\ job'[w].file = used'.session
      /\ job'[w].dev = job[w].dev /\ job'[w].nonce = job[w].nonce
  <2> DEFINE next == [job[w] EXCEPT !.pc = "write", !.file = used'.session]
  <2>1. job[w] \in Job /\ up /\ job[w].op = "login" /\ job[w].pc = "truncate"
    BY DEF CreateSession, At, TypeOK
  <2>2. used'.session \in Sessions
    <3>1. used'.session = used.session + 1 /\ used.session < MaxSessions /\ used.session \in Nat
      BY DEF CreateSession, TypeOK
    <3>2. QED
      BY <3>1 DEF Sessions
  <2>3. next \in Job
    BY <2>1, <2>2 DEF Job
  <2>4. job' = [job EXCEPT ![w] = next]
    BY DEF CreateSession, TypeOK
  <2>5. next.op = "login" /\ next.pc = "write" /\ next.file = used'.session
        /\ next.dev = job[w].dev /\ next.nonce = job[w].nonce
    BY <2>1, Fields
  <2> HIDE DEF next
  <2>6. Becomes(w, next)
    BY <2>3, <2>4 DEF Becomes, TypeOK
  <2>7. QED
    BY <2>1, <2>2, <2>5, <2>6 DEF Becomes
<1>2. Still("remove") /\ Still("signup") /\ Still("put")
  BY <1>1 DEF Still, Becomes, Idle
<1>3. TypeOK'
  BY <1>1 DEF CreateSession, ghostVars, Becomes, TypeOK
<1>4. Quiet' /\ \A v \in Workers : JobFits(v)'
  BY <1>1 DEF CreateSession, ghostVars, Becomes, Idle, Quiet, JobFits
<1>5. \A n \in Nonces : NonceInv(n)'
  BY <1>1 DEF CreateSession, ghostVars, Becomes, NonceInv, Holds, Idle, JobFits
<1>6. \A s \in Sessions : SessionInv(s)'
  BY <1>1, <1>2, SessionFrame DEF CreateSession, ghostVars, TypeOK
<1>7. ClaimInv' /\ TokenInv' /\ ClaimableOrClaimed'
  BY <1>2, EnvelopeFrame DEF CreateSession, ghostVars
<1>8. QED
  BY <1>3, <1>4, <1>5, <1>6, <1>7

LEMMA WriteSessionIInv ==
    ASSUME IInv, NEW w \in Workers, WriteSession(w)
    PROVE  IInv'
<1> USE CredentialsAssumption, FilesAssumption DEF IInv
<1>1. up /\ job[w].op = "login" /\ job[w].pc = "write" /\ Becomes(w, Idle)
  BY Ending DEF WriteSession, At
<1>2. Still("remove") /\ Still("signup") /\ Still("put")
  BY <1>1 DEF Still, Becomes, Idle
<1>3. TypeOK'
  <2>1. job[w] \in Job /\ job[w].dev \in Devices /\ job[w].file \in Sessions
        /\ job[w].nonce \in Nonces
    BY <1>1 DEF TypeOK, JobFits
  <2>2. job[w].at + SessionTTL \in Nat
    BY <2>1 DEF Job
  <2>3. [device |-> job[w].dev, expires |-> job[w].at + SessionTTL] \in SessionRecord
    BY <2>1, <2>2 DEF SessionRecord
  <2>4. session' \in [Sessions -> {Absent, Torn} \cup SessionRecord] /\ stray' \subseteq Sessions
    BY <2>1, <2>3 DEF WriteSession, TypeOK
  <2>5. granted' \in [Nonces -> Nat]
    BY <2>1 DEF WriteSession, TypeOK
  <2>6. QED
    BY <1>1, <2>4, <2>5 DEF WriteSession, Becomes, TypeOK
<1>4. Quiet' /\ \A v \in Workers : JobFits(v)'
  BY <1>1 DEF WriteSession, Becomes, Idle, Quiet, JobFits
<1>5. \A n \in Nonces : NonceInv(n)'
  BY <1>1 DEF WriteSession, Becomes, NonceInv, Holds, Idle, JobFits
<1>6. \A s \in Sessions : SessionInv(s)'
  <2>1. job[w].dev \in Devices /\ job[w].file \in Sessions
    BY <1>1 DEF JobFits
  <2>2. ASSUME NEW s \in Sessions \ stray', session'[s] # session[s]
        PROVE  device[session'[s].device] # Absent
    BY <2>1, <2>2 DEF WriteSession, TypeOK
  <2>3. QED
    BY <1>2, <2>2, SessionFrame DEF WriteSession
<1>7. ClaimInv' /\ TokenInv' /\ ClaimableOrClaimed'
  BY <1>2, EnvelopeFrame DEF WriteSession
<1>8. QED
  BY <1>3, <1>4, <1>5, <1>6, <1>7

LEMMA SessionFailsIInv ==
    ASSUME IInv, NEW w \in Workers, SessionFails(w)
    PROVE  IInv'
<1> USE CredentialsAssumption, FilesAssumption DEF IInv
<1>1. up /\ job[w].op = "login" /\ Becomes(w, Idle)
  BY Ending DEF SessionFails, At
<1>2. Still("remove") /\ Still("signup") /\ Still("put")
  BY <1>1 DEF Still, Becomes, Idle
<1>3. TypeOK'
  BY <1>1 DEF SessionFails, Fails, fileVars, ghostVars, Becomes, TypeOK
<1>4. Quiet' /\ \A v \in Workers : JobFits(v)'
  BY <1>1 DEF SessionFails, Fails, fileVars, ghostVars, Becomes, Idle, Quiet, JobFits
<1>5. \A n \in Nonces : NonceInv(n)'
  BY <1>1 DEF SessionFails, Fails, fileVars, ghostVars, Becomes, NonceInv, Holds, Idle, JobFits
<1>6. \A s \in Sessions : SessionInv(s)'
  BY <1>2, SessionFrame DEF SessionFails, Fails, fileVars, ghostVars, TypeOK
<1>7. ClaimInv' /\ TokenInv' /\ ClaimableOrClaimed'
  BY <1>2, EnvelopeFrame DEF SessionFails, Fails, fileVars, ghostVars
<1>8. QED
  BY <1>3, <1>4, <1>5, <1>6, <1>7

LEMMA VouchIInv ==
    ASSUME IInv, NEW w \in Workers, NEW d \in Devices, Vouch(w, d)
    PROVE  IInv'
<1> USE CredentialsAssumption, FilesAssumption DEF IInv
<1>1. up /\ job[w] = Idle /\ Becomes(w, job'[w])
      /\ job'[w].op = "vouch" /\ job'[w].pc = "truncate" /\ job'[w].dev = d
  <2> DEFINE request == [Idle EXCEPT !.op = "vouch", !.pc = "truncate", !.dev = d]
  <2>1. request \in Job /\ request.op = "vouch" /\ request.pc = "truncate" /\ request.dev = d
    BY DEF Job, Idle, Nobody
  <2>2. Starts(w, request)
    BY DEF Vouch
  <2> HIDE DEF request
  <2>3. QED
    BY <2>1, <2>2, Beginning DEF Becomes
<1>2. Still("login") /\ Still("remove") /\ Still("signup") /\ Still("put")
  BY <1>1 DEF Still, Becomes, Idle
<1>3. TypeOK'
  BY <1>1 DEF Vouch, fileVars, ghostVars, Becomes, TypeOK
<1>4. Quiet' /\ \A v \in Workers : JobFits(v)'
  BY <1>1 DEF Vouch, fileVars, ghostVars, Becomes, Idle, Quiet, JobFits
<1>5. \A n \in Nonces : NonceInv(n)'
  BY <1>2, NonceFrame DEF Vouch, fileVars, ghostVars
<1>6. \A s \in Sessions : SessionInv(s)'
  BY <1>2, SessionFrame DEF Vouch, fileVars, ghostVars, TypeOK
<1>7. ClaimInv' /\ TokenInv' /\ ClaimableOrClaimed'
  BY <1>2, EnvelopeFrame DEF Vouch, fileVars, ghostVars
<1>8. QED
  BY <1>3, <1>4, <1>5, <1>6, <1>7

LEMMA CreateDeviceIInv ==
    ASSUME IInv, NEW w \in Workers, CreateDevice(w)
    PROVE  IInv'
<1> USE CredentialsAssumption, FilesAssumption DEF IInv
<1>1. up /\ job[w].op = "vouch" /\ job[w].pc = "truncate" /\ Becomes(w, job'[w])
      /\ job'[w].pc = "write" /\ job'[w].op = job[w].op /\ job'[w].dev = job[w].dev
      /\ job'[w].nonce = job[w].nonce /\ job'[w].raced = job[w].raced
  <2>1. job[w] \in Job /\ up /\ job[w].op = "vouch" /\ job[w].pc = "truncate"
    BY DEF CreateDevice, At, TypeOK
  <2>2. Becomes(w, [job[w] EXCEPT !.pc = "write"])
    BY GoesOn DEF CreateDevice, Steps
  <2>3. QED
    BY <2>1, <2>2, Fields DEF Becomes
<1>2. Still("login") /\ Still("remove") /\ Still("signup") /\ Still("put")
  BY <1>1 DEF Still, Becomes, Idle
<1>3. TypeOK'
  BY <1>1 DEF CreateDevice, ghostVars, Becomes, TypeOK
<1>4. Quiet' /\ \A v \in Workers : JobFits(v)'
  BY <1>1 DEF CreateDevice, ghostVars, Becomes, Idle, Quiet, JobFits
<1>5. \A n \in Nonces : NonceInv(n)'
  BY <1>2, NonceFrame DEF CreateDevice, ghostVars
<1>6. \A s \in Sessions : SessionInv(s)'
  BY <1>2, SessionFrame DEF CreateDevice, ghostVars, TypeOK
<1>7. ClaimInv' /\ TokenInv' /\ ClaimableOrClaimed'
  BY <1>2, EnvelopeFrame DEF CreateDevice, ghostVars
<1>8. QED
  BY <1>3, <1>4, <1>5, <1>6, <1>7

LEMMA WriteDeviceIInv ==
    ASSUME IInv, NEW w \in Workers, WriteDevice(w)
    PROVE  IInv'
<1> USE CredentialsAssumption, FilesAssumption DEF IInv
<1>1. up /\ job[w].op = "vouch" /\ job[w].pc = "write" /\ Becomes(w, Idle)
  BY Ending DEF WriteDevice, At
<1>2. Still("login") /\ Still("remove") /\ Still("signup") /\ Still("put")
  BY <1>1 DEF Still, Becomes, Idle
<1>3. TypeOK'
  BY <1>1 DEF WriteDevice, ghostVars, Becomes, TypeOK
<1>4. Quiet' /\ \A v \in Workers : JobFits(v)'
  BY <1>1 DEF WriteDevice, ghostVars, Becomes, Idle, Quiet, JobFits
<1>5. \A n \in Nonces : NonceInv(n)'
  BY <1>2, NonceFrame DEF WriteDevice, ghostVars
<1>6. \A s \in Sessions : SessionInv(s)'
  BY <1>2, SessionFrame DEF WriteDevice, ghostVars, TypeOK
<1>7. ClaimInv' /\ TokenInv' /\ ClaimableOrClaimed'
  BY <1>2, EnvelopeFrame DEF WriteDevice, ghostVars
<1>8. QED
  BY <1>3, <1>4, <1>5, <1>6, <1>7

LEMMA VouchFailsIInv ==
    ASSUME IInv, NEW w \in Workers, VouchFails(w)
    PROVE  IInv'
<1> USE CredentialsAssumption, FilesAssumption DEF IInv
<1>1. up /\ job[w].op = "vouch" /\ Becomes(w, Idle)
  BY Ending DEF VouchFails, At
<1>2. Still("login") /\ Still("remove") /\ Still("signup") /\ Still("put")
  BY <1>1 DEF Still, Becomes, Idle
<1>3. TypeOK'
  BY <1>1 DEF VouchFails, Fails, fileVars, ghostVars, Becomes, TypeOK
<1>4. Quiet' /\ \A v \in Workers : JobFits(v)'
  BY <1>1 DEF VouchFails, Fails, fileVars, ghostVars, Becomes, Idle, Quiet, JobFits
<1>5. \A n \in Nonces : NonceInv(n)'
  BY <1>2, NonceFrame DEF VouchFails, Fails, fileVars, ghostVars
<1>6. \A s \in Sessions : SessionInv(s)'
  BY <1>2, SessionFrame DEF VouchFails, Fails, fileVars, ghostVars, TypeOK
<1>7. ClaimInv' /\ TokenInv' /\ ClaimableOrClaimed'
  BY <1>2, EnvelopeFrame DEF VouchFails, Fails, fileVars, ghostVars
<1>8. QED
  BY <1>3, <1>4, <1>5, <1>6, <1>7

LEMMA RemoveIInv ==
    ASSUME IInv, NEW w \in Workers, NEW d \in Devices, Remove(w, d)
    PROVE  IInv'
<1> USE CredentialsAssumption, FilesAssumption DEF IInv
<1>1. up /\ job[w] = Idle /\ Becomes(w, job'[w])
      /\ job'[w].op = "remove" /\ job'[w].pc = "unlist" /\ job'[w].dev = d
  <2> DEFINE request == [Idle EXCEPT !.op = "remove", !.pc = "unlist", !.dev = d]
  <2>1. request \in Job /\ request.op = "remove" /\ request.pc = "unlist" /\ request.dev = d
    BY DEF Job, Idle, Nobody
  <2>2. Starts(w, request)
    BY DEF Remove
  <2> HIDE DEF request
  <2>3. QED
    BY <2>1, <2>2, Beginning DEF Becomes
<1>2. Still("login") /\ Still("signup") /\ Still("put")
  BY <1>1 DEF Still, Becomes, Idle
<1>3. TypeOK'
  BY <1>1 DEF Remove, fileVars, ghostVars, Becomes, TypeOK
<1>4. Quiet' /\ \A v \in Workers : JobFits(v)'
  BY <1>1 DEF Remove, fileVars, ghostVars, Becomes, Idle, Quiet, JobFits
<1>5. \A n \in Nonces : NonceInv(n)'
  BY <1>2, NonceFrame DEF Remove, fileVars, ghostVars
<1>6. \A s \in Sessions : SessionInv(s)'
  BY <1>1 DEF Remove, fileVars, ghostVars, Becomes, SessionInv, Removes, Idle, JobFits, TypeOK
<1>7. ClaimInv' /\ TokenInv' /\ ClaimableOrClaimed'
  BY <1>2, EnvelopeFrame DEF Remove, fileVars, ghostVars
<1>8. QED
  BY <1>3, <1>4, <1>5, <1>6, <1>7

LEMMA RemoveKeyIInv ==
    ASSUME IInv, NEW w \in Workers, RemoveKey(w)
    PROVE  IInv'
<1> USE CredentialsAssumption, FilesAssumption DEF IInv
<1>1. up /\ job[w].op = "remove" /\ job[w].pc = "unlist" /\ Becomes(w, job'[w])
      /\ job'[w].pc = "list" /\ job'[w].op = job[w].op /\ job'[w].dev = job[w].dev
      /\ job'[w].nonce = job[w].nonce /\ job'[w].raced = job[w].raced
  <2>1. job[w] \in Job /\ up /\ job[w].op = "remove" /\ job[w].pc = "unlist"
    BY DEF RemoveKey, At, TypeOK
  <2>2. Becomes(w, [job[w] EXCEPT !.pc = "list"])
    BY GoesOn DEF RemoveKey, Steps
  <2>3. QED
    BY <2>1, <2>2, Fields DEF Becomes
<1>2. Still("login") /\ Still("signup") /\ Still("put")
  BY <1>1 DEF Still, Becomes, Idle
<1>3. TypeOK'
  BY <1>1 DEF RemoveKey, ghostVars, Becomes, TypeOK
<1>4. Quiet' /\ \A v \in Workers : JobFits(v)'
  BY <1>1 DEF RemoveKey, ghostVars, Becomes, Idle, Quiet, JobFits
<1>5. \A n \in Nonces : NonceInv(n)'
  BY <1>2, NonceFrame DEF RemoveKey, ghostVars
<1>6. \A s \in Sessions : SessionInv(s)'
  BY <1>1 DEF RemoveKey, ghostVars, Becomes, SessionInv, Removes, Idle, JobFits, TypeOK
<1>7. ClaimInv' /\ TokenInv' /\ ClaimableOrClaimed'
  BY <1>2, EnvelopeFrame DEF RemoveKey, ghostVars
<1>8. QED
  BY <1>3, <1>4, <1>5, <1>6, <1>7

LEMMA ListSessionsIInv ==
    ASSUME IInv, NEW w \in Workers, ListSessions(w)
    PROVE  IInv'
<1> USE CredentialsAssumption, FilesAssumption DEF IInv
<1>1. up /\ job[w].op = "remove" /\ job[w].pc = "list" /\ Becomes(w, job'[w])
      /\ LET rest == {s \in Sessions : session[s] # Absent}
         IN  \/ rest = {} /\ job'[w] = Idle
             \/ /\ job'[w].op = "remove" /\ job'[w].pc = "unlink"
                /\ job'[w].dev = job[w].dev /\ job'[w].rest = rest
  <2> DEFINE rest == {s \in Sessions : session[s] # Absent}
             next == [job[w] EXCEPT !.pc = "unlink", !.rest = rest]
  <2>1. job[w] \in Job /\ up /\ job[w].op = "remove" /\ job[w].pc = "list"
    BY DEF ListSessions, At, TypeOK
  <2>2. CASE rest = {}
    BY <2>1, <2>2, Ending DEF ListSessions, Becomes
  <2>3. CASE rest # {}
    <3>1. next \in Job
      BY <2>1 DEF Job
    <3>2. job' = [job EXCEPT ![w] = next]
      BY <2>3 DEF ListSessions, TypeOK
    <3>3. next.op = "remove" /\ next.pc = "unlink" /\ next.dev = job[w].dev /\ next.rest = rest
      BY <2>1, Fields
    <3> HIDE DEF next, rest
    <3>4. Becomes(w, next)
      BY <3>1, <3>2 DEF Becomes, TypeOK
    <3>5. job'[w].op = "remove" /\ job'[w].pc = "unlink" /\ job'[w].dev = job[w].dev
          /\ job'[w].rest = rest /\ Becomes(w, job'[w])
      BY <3>3, <3>4 DEF Becomes
    <3>6. QED
      BY <2>1, <3>5 DEF rest
  <2>4. QED
    BY <2>2, <2>3
<1>2. Still("login") /\ Still("signup") /\ Still("put")
  BY <1>1 DEF Still, Becomes, Idle
<1>3. TypeOK'
  BY <1>1 DEF ListSessions, fileVars, ghostVars, Becomes, TypeOK
<1>4. Quiet' /\ \A v \in Workers : JobFits(v)'
  BY <1>1 DEF ListSessions, fileVars, ghostVars, Becomes, Idle, Quiet, JobFits
<1>5. \A n \in Nonces : NonceInv(n)'
  BY <1>2, NonceFrame DEF ListSessions, fileVars, ghostVars
<1>6. \A s \in Sessions : SessionInv(s)'
  BY <1>1 DEF ListSessions, fileVars, ghostVars, Becomes, SessionInv, Removes, Idle, JobFits,
              TypeOK
<1>7. ClaimInv' /\ TokenInv' /\ ClaimableOrClaimed'
  BY <1>2, EnvelopeFrame DEF ListSessions, fileVars, ghostVars
<1>8. QED
  BY <1>3, <1>4, <1>5, <1>6, <1>7

LEMMA ListFailsIInv ==
    ASSUME IInv, NEW w \in Workers, ListFails(w)
    PROVE  IInv'
<1> USE CredentialsAssumption, FilesAssumption DEF IInv
<1>1. up /\ job[w].op = "remove" /\ job[w].pc = "list" /\ Becomes(w, Idle)
  BY Ending DEF ListFails, At
<1>2. Still("login") /\ Still("signup") /\ Still("put")
  BY <1>1 DEF Still, Becomes, Idle
<1>3. TypeOK'
  BY <1>1 DEF ListFails, Fails, SessionsOf, fileVars, Becomes, TypeOK
<1>4. Quiet' /\ \A v \in Workers : JobFits(v)'
  BY <1>1 DEF ListFails, Fails, SessionsOf, fileVars, Becomes, Idle, Quiet, JobFits
<1>5. \A n \in Nonces : NonceInv(n)'
  BY <1>2, NonceFrame DEF ListFails, Fails, SessionsOf, fileVars
<1>6. \A s \in Sessions : SessionInv(s)'
  BY <1>1 DEF ListFails, Fails, SessionsOf, fileVars, Becomes, SessionInv, Removes, Idle,
              JobFits, TypeOK
<1>7. ClaimInv' /\ TokenInv' /\ ClaimableOrClaimed'
  BY <1>2, EnvelopeFrame DEF ListFails, Fails, SessionsOf, fileVars
<1>8. QED
  BY <1>3, <1>4, <1>5, <1>6, <1>7

LEMMA UnlinkIInv ==
    ASSUME IInv, NEW w \in Workers, Unlink(w)
    PROVE  IInv'
<1> USE CredentialsAssumption, FilesAssumption DEF IInv
<1>1. up /\ job[w].op = "remove" /\ job[w].pc = "unlink" /\ job[w].rest \subseteq Sessions
      /\ Becomes(w, job'[w]) /\ job'[w].op \in {"none", "remove"}
      /\ (job'[w] = Idle \/ job'[w].dev = job[w].dev)
  <2>1. job[w] \in Job /\ At(w, "remove", "unlink")
    BY DEF Unlink, TypeOK
  <2>2. \E s \in job[w].rest : Passes(w, s)
    BY <2>1, NextFilePasses DEF Unlink
  <2>3. job[w].rest \subseteq Sessions
    BY <2>1 DEF Job
  <2>4. QED
    BY <2>1, <2>2, <2>3 DEF At, Passes, Idle
<1>2. Still("login") /\ Still("signup") /\ Still("put")
  BY <1>1 DEF Still, Becomes, Idle
<1>3. TypeOK'
  BY <1>1 DEF Unlink, SessionsOf, ghostVars, Becomes, TypeOK
<1>4. Quiet' /\ \A v \in Workers : JobFits(v)'
  BY <1>1 DEF Unlink, SessionsOf, ghostVars, Becomes, Idle, Quiet, JobFits
<1>5. \A n \in Nonces : NonceInv(n)'
  BY <1>2, NonceFrame DEF Unlink, SessionsOf, ghostVars
<1>6. \A s \in Sessions : SessionInv(s)'
  <2>1. job[w] \in Job /\ At(w, "remove", "unlink")
    BY DEF Unlink, TypeOK
  <2>2. PICK f \in job[w].rest : Passes(w, f) /\ 
              session' = IF f \in SessionsOf(job[w].dev) THEN [session EXCEPT ![f] = Absent]
                         ELSE session
    BY <2>1, NextFilePasses DEF Unlink, fileVars
  <2>3. ASSUME NEW s \in Sessions, s \notin stray', session'[s] \in SessionRecord
        PROVE  \/ device'[session'[s].device] # Absent
               \/ \E v \in Workers : Removes(v, session[s].device, s)'
    <3>1. session'[s] = session[s] /\ device' = device /\ s \notin stray
      BY <2>2, <2>3, FilesAssumption DEF Unlink, fileVars, ghostVars, TypeOK
    <3>2. CASE device[session[s].device] # Absent
      BY <3>1, <3>2
    <3>3. ASSUME NEW v \in Workers, Removes(v, session[s].device, s)
          PROVE  Removes(v, session[s].device, s)'
      <4>1. CASE v # w
        BY <2>2, <3>1, <3>3, <4>1 DEF Passes, Becomes, Removes
      <4>2. CASE v = w
        <5>1. s \in job[w].rest /\ job[w].dev = session[s].device
          BY <2>1, <3>3, <4>2 DEF Removes, At
        <5>2. s # f
          BY <2>2, <2>3, <3>1, <5>1 DEF SessionsOf, TypeOK
        <5>3. QED
          BY <2>2, <3>1, <4>2, <5>1, <5>2 DEF Passes, Removes
      <4>3. QED
        BY <4>1, <4>2
    <3>4. QED
      BY <2>3, <3>1, <3>2, <3>3 DEF SessionInv
  <2>4. ASSUME NEW s \in Sessions, session'[s] \in SessionRecord
        PROVE  session'[s] = session[s]
    BY <2>2, <2>4 DEF Unlink, fileVars, TypeOK
  <2>5. QED
    BY <2>3, <2>4 DEF SessionInv, Removes
<1>7. ClaimInv' /\ TokenInv' /\ ClaimableOrClaimed'
  BY <1>2, EnvelopeFrame DEF Unlink, SessionsOf, ghostVars
<1>8. QED
  BY <1>3, <1>4, <1>5, <1>6, <1>7

LEMMA UnlinkFailsIInv ==
    ASSUME IInv, NEW w \in Workers, UnlinkFails(w)
    PROVE  IInv'
<1> USE CredentialsAssumption, FilesAssumption DEF IInv
<1>1. up /\ job[w].op = "remove" /\ job[w].pc = "unlink" /\ job[w].rest \subseteq Sessions
      /\ Becomes(w, job'[w]) /\ job'[w].op \in {"none", "remove"}
      /\ (job'[w] = Idle \/ job'[w].dev = job[w].dev)
  <2>1. job[w] \in Job /\ At(w, "remove", "unlink")
    BY DEF UnlinkFails, TypeOK
  <2>2. \E s \in job[w].rest : Passes(w, s)
    BY <2>1, NextFilePasses DEF UnlinkFails
  <2>3. job[w].rest \subseteq Sessions
    BY <2>1 DEF Job
  <2>4. QED
    BY <2>1, <2>2, <2>3 DEF At, Passes, Idle
<1>2. Still("login") /\ Still("signup") /\ Still("put")
  BY <1>1 DEF Still, Becomes, Idle
<1>3. TypeOK'
  BY <1>1 DEF UnlinkFails, Fails, SessionsOf, fileVars, Becomes, TypeOK
<1>4. Quiet' /\ \A v \in Workers : JobFits(v)'
  BY <1>1 DEF UnlinkFails, Fails, SessionsOf, fileVars, Becomes, Idle, Quiet, JobFits
<1>5. \A n \in Nonces : NonceInv(n)'
  BY <1>2, NonceFrame DEF UnlinkFails, Fails, SessionsOf, fileVars
<1>6. \A s \in Sessions : SessionInv(s)'
  <2>1. job[w] \in Job /\ At(w, "remove", "unlink")
    BY DEF UnlinkFails, TypeOK
  <2>2. PICK f \in job[w].rest : Passes(w, f) /\ session' = session /\ stray' = stray \cup {f}
    BY <2>1, NextFilePasses DEF UnlinkFails, fileVars
  <2>3. ASSUME NEW s \in Sessions, s \notin stray', session'[s] \in SessionRecord
        PROVE  \/ device'[session'[s].device] # Absent
               \/ \E v \in Workers : Removes(v, session[s].device, s)'
    <3>1. session'[s] = session[s] /\ device' = device /\ s \notin stray
      BY <2>2, <2>3, FilesAssumption DEF UnlinkFails, fileVars, ghostVars, TypeOK
    <3>2. CASE device[session[s].device] # Absent
      BY <3>1, <3>2
    <3>3. ASSUME NEW v \in Workers, Removes(v, session[s].device, s)
          PROVE  Removes(v, session[s].device, s)'
      <4>1. CASE v # w
        BY <2>2, <3>1, <3>3, <4>1 DEF Passes, Becomes, Removes
      <4>2. CASE v = w
        <5>1. s \in job[w].rest /\ job[w].dev = session[s].device
          BY <2>1, <3>3, <4>2 DEF Removes, At
        <5>2. s # f
          BY <2>2, <2>3, <3>1, <5>1 DEF SessionsOf, TypeOK
        <5>3. QED
          BY <2>2, <3>1, <4>2, <5>1, <5>2 DEF Passes, Removes
      <4>3. QED
        BY <4>1, <4>2
    <3>4. QED
      BY <2>3, <3>1, <3>2, <3>3 DEF SessionInv
  <2>4. ASSUME NEW s \in Sessions, session'[s] \in SessionRecord
        PROVE  session'[s] = session[s]
    BY <2>2, <2>4 DEF UnlinkFails, fileVars, TypeOK
  <2>5. QED
    BY <2>3, <2>4 DEF SessionInv, Removes
<1>7. ClaimInv' /\ TokenInv' /\ ClaimableOrClaimed'
  BY <1>2, EnvelopeFrame DEF UnlinkFails, Fails, SessionsOf, fileVars
<1>8. QED
  BY <1>3, <1>4, <1>5, <1>6, <1>7

LEMMA SignupIInv ==
    ASSUME IInv, NEW w \in Workers, NEW k \in Tokens, Signup(w, k)
    PROVE  IInv'
<1> USE CredentialsAssumption, FilesAssumption DEF IInv
<1>1. up /\ job[w] = Idle /\ Becomes(w, job'[w])
      /\ job'[w].op = "signup" /\ job'[w].pc = "check" /\ job'[w].raced = FALSE
  <2> DEFINE request == [Idle EXCEPT !.op = "signup", !.pc = "check"]
  <2>1. request \in Job /\ request.op = "signup" /\ request.pc = "check" /\ request.raced = FALSE
    BY DEF Job, Idle, Nobody
  <2>2. Starts(w, request)
    BY DEF Signup
  <2> HIDE DEF request
  <2>3. QED
    BY <2>1, <2>2, Beginning DEF Becomes
<1>2. Still("login") /\ Still("remove")
  BY <1>1 DEF Still, Becomes, Idle
<1>3. TypeOK'
  BY <1>1 DEF Signup, fileVars, ghostVars, Becomes, TypeOK
<1>4. Quiet' /\ \A v \in Workers : JobFits(v)'
  BY <1>1 DEF Signup, fileVars, ghostVars, Becomes, Idle, Quiet, JobFits
<1>5. \A n \in Nonces : NonceInv(n)'
  BY <1>2, NonceFrame DEF Signup, fileVars, ghostVars
<1>6. \A s \in Sessions : SessionInv(s)'
  BY <1>2, SessionFrame DEF Signup, fileVars, ghostVars, TypeOK
<1>7. ClaimInv' /\ TokenInv' /\ ClaimableOrClaimed'
  BY <1>1 DEF Signup, fileVars, ghostVars, Becomes, ClaimInv, TokenInv, ClaimableOrClaimed,
              Written, Writing, Admitted, Readable, Idle
<1>8. QED
  BY <1>3, <1>4, <1>5, <1>6, <1>7

LEMMA PutIInv ==
    ASSUME IInv, NEW w \in Workers, Put(w)
    PROVE  IInv'
<1> USE CredentialsAssumption, FilesAssumption DEF IInv
<1>1. up /\ job[w] = Idle /\ Becomes(w, job'[w])
      /\ job'[w].op = "put" /\ job'[w].pc = "truncate" /\ job'[w].raced = FALSE
  <2> DEFINE request == [Idle EXCEPT !.op = "put", !.pc = "truncate"]
  <2>1. request \in Job /\ request.op = "put" /\ request.pc = "truncate" /\ request.raced = FALSE
    BY DEF Job, Idle, Nobody
  <2>2. Starts(w, request)
    BY DEF Put
  <2> HIDE DEF request
  <2>3. QED
    BY <2>1, <2>2, Beginning DEF Becomes
<1>2. Still("login") /\ Still("remove")
  BY <1>1 DEF Still, Becomes, Idle
<1>3. TypeOK'
  BY <1>1 DEF Put, fileVars, ghostVars, Becomes, TypeOK
<1>4. Quiet' /\ \A v \in Workers : JobFits(v)'
  BY <1>1 DEF Put, fileVars, ghostVars, Becomes, Idle, Quiet, JobFits
<1>5. \A n \in Nonces : NonceInv(n)'
  BY <1>2, NonceFrame DEF Put, fileVars, ghostVars
<1>6. \A s \in Sessions : SessionInv(s)'
  BY <1>2, SessionFrame DEF Put, fileVars, ghostVars, TypeOK
<1>7. ClaimInv' /\ TokenInv' /\ ClaimableOrClaimed'
  BY <1>1 DEF Put, fileVars, ghostVars, Becomes, ClaimInv, TokenInv, ClaimableOrClaimed,
              Written, Writing, Admitted, Readable, Idle
<1>8. QED
  BY <1>3, <1>4, <1>5, <1>6, <1>7

LEMMA SignupCheckIInv ==
    ASSUME IInv, NEW w \in Workers, SignupCheck(w)
    PROVE  IInv'
<1> USE CredentialsAssumption, FilesAssumption DEF IInv
<1>1. up /\ job[w].op = "signup" /\ job[w].pc = "check" /\ Becomes(w, job'[w])
      /\ \/ job'[w] = Idle
         \/ job'[w].pc = "truncate" /\ job'[w].op = job[w].op /\ job'[w].dev = job[w].dev
             /\ job'[w].nonce = job[w].nonce /\ job'[w].raced = job[w].raced
  <2>1. job[w] \in Job /\ up /\ job[w].op = "signup" /\ job[w].pc = "check"
    BY DEF SignupCheck, At, TypeOK
  <2>2. Becomes(w, [job[w] EXCEPT !.pc = "truncate"]) \/ Becomes(w, Idle)
    BY GoesOn, Ending DEF SignupCheck, Steps
  <2>3. CASE Becomes(w, Idle)
    BY <2>1, <2>3 DEF Becomes
  <2>4. CASE Becomes(w, [job[w] EXCEPT !.pc = "truncate"])
    BY <2>1, <2>4, Fields DEF Becomes
  <2>5. QED
    BY <2>2, <2>3, <2>4
<1>2. Still("login") /\ Still("remove")
  BY <1>1 DEF Still, Becomes, Idle
<1>3. TypeOK'
  BY <1>1 DEF SignupCheck, fileVars, Becomes, TypeOK
<1>4. Quiet' /\ \A v \in Workers : JobFits(v)'
  BY <1>1 DEF SignupCheck, fileVars, Becomes, Idle, Quiet, JobFits
<1>5. \A n \in Nonces : NonceInv(n)'
  BY <1>2, NonceFrame DEF SignupCheck, fileVars
<1>6. \A s \in Sessions : SessionInv(s)'
  BY <1>2, SessionFrame DEF SignupCheck, fileVars, TypeOK
<1>7. ClaimInv' /\ TokenInv' /\ ClaimableOrClaimed'
  <2>1. \A v \in Workers : Writing(v)' <=> Writing(v)
    BY <1>1 DEF Becomes, Writing, Idle
  <2>2. UNCHANGED <<up, envelope, token, claims, invites>> /\ excused \subseteq excused'
        /\ excused' \subseteq excused \cup {"claims"}
    BY DEF SignupCheck, fileVars
  <2>3. \A v \in Workers \ {w} : job'[v] = job[v]
    BY <1>1 DEF Becomes
  <2>4. ClaimInv'
    <3>1. CASE job'[w] = Idle
      BY <2>1, <2>2, <2>3, <3>1 DEF ClaimInv, Written, Readable, Admitted, Idle
    <3>2. CASE job'[w].op = "signup" /\ job'[w].pc = "truncate" /\ "claims" \notin excused'
      <4>1. \A v \in Workers \ {w} : ~Admitted(v) /\ ~Writing(v)
        BY <3>2 DEF SignupCheck, Ends, Idle, TypeOK
      <4>2. ~Readable
        BY <3>2 DEF SignupCheck, Ends, Idle, TypeOK
      <4>3. claims = 0
        BY <1>1, <2>2, <3>2, <4>1, <4>2 DEF ClaimInv, Written, Writing, TypeOK
      <4>4. \A v \in Workers \ {w} : ~Admitted(v)'
        BY <2>3, <4>1 DEF Admitted
      <4>5. QED
        BY <2>2, <4>3, <4>4 DEF ClaimInv
    <3>3. QED
      BY <1>1, <3>1, <3>2 DEF ClaimInv
  <2>5. TokenInv'
    BY <1>1, <2>1, <2>2, <2>3 DEF TokenInv, Written, Readable, Idle
  <2>6. ClaimableOrClaimed'
    BY <2>1, <2>2 DEF ClaimableOrClaimed, Readable
  <2>7. QED
    BY <2>4, <2>5, <2>6
<1>8. QED
  BY <1>3, <1>4, <1>5, <1>6, <1>7

LEMMA TruncateEnvelopeIInv ==
    ASSUME IInv, NEW w \in Workers, TruncateEnvelope(w)
    PROVE  IInv'
<1> USE CredentialsAssumption, FilesAssumption DEF IInv
<1>1. up /\ job[w].op \in {"signup", "put"} /\ job[w].pc = "truncate" /\ Becomes(w, job'[w])
      /\ job'[w].pc = "write" /\ job'[w].op = job[w].op /\ job'[w].dev = job[w].dev
      /\ job'[w].nonce = job[w].nonce /\ job'[w].raced = job[w].raced
  <2>1. job[w] \in Job /\ up /\ job[w].op \in {"signup", "put"} /\ job[w].pc = "truncate"
    BY DEF TruncateEnvelope, At, TypeOK
  <2>2. Becomes(w, [job[w] EXCEPT !.pc = "write"])
    BY GoesOn DEF TruncateEnvelope, Steps
  <2>3. QED
    BY <2>1, <2>2, Fields DEF Becomes
<1>2. Still("login") /\ Still("remove")
  BY <1>1 DEF Still, Becomes, Idle
<1>3. TypeOK'
  BY <1>1 DEF TruncateEnvelope, ghostVars, Becomes, TypeOK
<1>4. Quiet' /\ \A v \in Workers : JobFits(v)'
  BY <1>1 DEF TruncateEnvelope, ghostVars, Becomes, Idle, Quiet, JobFits
<1>5. \A n \in Nonces : NonceInv(n)'
  BY <1>2, NonceFrame DEF TruncateEnvelope, ghostVars
<1>6. \A s \in Sessions : SessionInv(s)'
  BY <1>2, SessionFrame DEF TruncateEnvelope, ghostVars, TypeOK
<1>7. ClaimInv' /\ TokenInv' /\ ClaimableOrClaimed'
  BY <1>1 DEF TruncateEnvelope, ghostVars, Becomes, ClaimInv, TokenInv, ClaimableOrClaimed,
              Written, Writing, Admitted, Readable, Idle
<1>8. QED
  BY <1>3, <1>4, <1>5, <1>6, <1>7

LEMMA WriteEnvelopeIInv ==
    ASSUME IInv, NEW w \in Workers, WriteEnvelope(w)
    PROVE  IInv'
<1> USE CredentialsAssumption, FilesAssumption DEF IInv
<1>1. up /\ job[w].op \in {"signup", "put"} /\ job[w].pc = "write" /\ Becomes(w, job'[w])
      /\ \/ job[w].op = "put" /\ job'[w] = Idle
         \/ job[w].op = "signup" /\ job'[w].pc = "burn"
            /\ job'[w].op = job[w].op /\ job'[w].dev = job[w].dev
            /\ job'[w].nonce = job[w].nonce /\ job'[w].raced = job[w].raced
  <2>1. job[w] \in Job /\ up /\ job[w].op \in {"signup", "put"} /\ job[w].pc = "write"
    BY DEF WriteEnvelope, Writing, TypeOK
  <2>2. \/ job[w].op = "put" /\ Becomes(w, Idle)
        \/ job[w].op = "signup" /\ Becomes(w, [job[w] EXCEPT !.pc = "burn"])
    BY <2>1, GoesOn, Ending DEF WriteEnvelope, Steps
  <2>3. CASE job[w].op = "put" /\ Becomes(w, Idle)
    BY <2>1, <2>3 DEF Becomes
  <2>4. CASE job[w].op = "signup" /\ Becomes(w, [job[w] EXCEPT !.pc = "burn"])
    BY <2>1, <2>4, Fields DEF Becomes
  <2>5. QED
    BY <2>2, <2>3, <2>4
<1>2. Still("login") /\ Still("remove")
  BY <1>1 DEF Still, Becomes, Idle
<1>3. TypeOK'
  BY <1>1 DEF WriteEnvelope, Becomes, TypeOK
<1>4. Quiet' /\ \A v \in Workers : JobFits(v)'
  BY <1>1 DEF WriteEnvelope, Becomes, Idle, Quiet, JobFits
<1>5. \A n \in Nonces : NonceInv(n)'
  BY <1>2, NonceFrame DEF WriteEnvelope
<1>6. \A s \in Sessions : SessionInv(s)'
  BY <1>2, SessionFrame DEF WriteEnvelope, TypeOK
<1>7. ClaimInv' /\ TokenInv' /\ ClaimableOrClaimed'
  BY <1>1 DEF WriteEnvelope, Becomes, ClaimInv, TokenInv, ClaimableOrClaimed, Written, Writing,
              Admitted, Readable, Idle
<1>8. QED
  BY <1>3, <1>4, <1>5, <1>6, <1>7

LEMMA EnvelopeFailsIInv ==
    ASSUME IInv, NEW w \in Workers, EnvelopeFails(w)
    PROVE  IInv'
<1> USE CredentialsAssumption, FilesAssumption DEF IInv
<1>1. up /\ job[w].op \in {"signup", "put"} /\ job[w].pc = "write" /\ Becomes(w, Idle)
  BY Ending DEF EnvelopeFails, At, Writing
<1>2. Still("login") /\ Still("remove")
  BY <1>1 DEF Still, Becomes, Idle
<1>3. TypeOK'
  BY <1>1 DEF EnvelopeFails, Fails, Becomes, TypeOK
<1>4. Quiet' /\ \A v \in Workers : JobFits(v)'
  BY <1>1 DEF EnvelopeFails, Fails, Becomes, Idle, Quiet, JobFits
<1>5. \A n \in Nonces : NonceInv(n)'
  BY <1>2, NonceFrame DEF EnvelopeFails, Fails
<1>6. \A s \in Sessions : SessionInv(s)'
  BY <1>2, SessionFrame DEF EnvelopeFails, Fails, TypeOK
<1>7. ClaimInv' /\ TokenInv' /\ ClaimableOrClaimed'
  <2>1. \A v \in Workers \ {w} : job'[v] = job[v]
    BY <1>1 DEF Becomes
  <2>2. \A v \in Workers : Admitted(v)' => Admitted(v) /\ job'[v] = job[v]
    BY <1>1, <2>1 DEF Becomes, Admitted, Idle
  <2>3. ClaimInv'
    <3>1. "claims" \in excused => "claims" \in excused'
      BY DEF EnvelopeFails
    <3>2. CASE envelope' = Torn /\ claims' = 0
      BY <2>2, <3>1, <3>2 DEF ClaimInv
    <3>3. CASE envelope' = envelope /\ envelope # Torn /\ claims' = claims
      <4>1. Readable'
        BY <1>1, <3>3 DEF TokenInv, Readable, Writing, TypeOK
      <4>2. QED
        BY <2>2, <3>1, <3>3, <4>1 DEF ClaimInv, Written, Readable
    <3>4. QED
      BY <3>2, <3>3 DEF EnvelopeFails
  <2>4. TokenInv'
    BY <1>1, <2>1 DEF EnvelopeFails, Becomes, TokenInv, Idle
  <2>5. ClaimableOrClaimed'
    BY <1>1 DEF EnvelopeFails, ClaimableOrClaimed, TokenInv
  <2>6. QED
    BY <2>3, <2>4, <2>5
<1>8. QED
  BY <1>3, <1>4, <1>5, <1>6, <1>7

LEMMA BurnFailsIInv ==
    ASSUME IInv, NEW w \in Workers, BurnFails(w)
    PROVE  IInv'
<1> USE CredentialsAssumption, FilesAssumption DEF IInv
<1>1. up /\ job[w].op = "signup" /\ job[w].pc = "burn" /\ Becomes(w, Idle)
  BY Ending DEF BurnFails, At
<1>2. Still("login") /\ Still("remove")
  BY <1>1 DEF Still, Becomes, Idle
<1>3. TypeOK'
  BY <1>1 DEF BurnFails, Fails, fileVars, ghostVars, Becomes, TypeOK
<1>4. Quiet' /\ \A v \in Workers : JobFits(v)'
  BY <1>1 DEF BurnFails, Fails, fileVars, ghostVars, Becomes, Idle, Quiet, JobFits
<1>5. \A n \in Nonces : NonceInv(n)'
  BY <1>2, NonceFrame DEF BurnFails, Fails, fileVars, ghostVars
<1>6. \A s \in Sessions : SessionInv(s)'
  BY <1>2, SessionFrame DEF BurnFails, Fails, fileVars, ghostVars, TypeOK
<1>7. ClaimInv' /\ TokenInv' /\ ClaimableOrClaimed'
  BY <1>1 DEF BurnFails, Fails, fileVars, ghostVars, Becomes, ClaimInv, TokenInv,
              ClaimableOrClaimed, Written, Writing, Admitted, Readable, Idle
<1>8. QED
  BY <1>3, <1>4, <1>5, <1>6, <1>7

LEMMA BurnIInv ==
    ASSUME IInv, NEW w \in Workers, Burn(w)
    PROVE  IInv'
<1> USE CredentialsAssumption, FilesAssumption DEF IInv
<1>1. /\ up /\ job[w].op = "signup" /\ job[w].pc = "burn"
      /\ job' \in [Workers -> Job] /\ job'[w] = Idle
      /\ \A v \in Workers \ {w} :
             /\ job'[v].op = job[v].op /\ job'[v].pc = job[v].pc
             /\ IF job[v].op = "signup" THEN job'[v].raced = TRUE ELSE job'[v] = job[v]
  <2>1. \A v \in Workers : [job[v] EXCEPT !.raced = TRUE] \in Job
    <3>1. ASSUME NEW r \in Job
          PROVE  [r EXCEPT !.raced = TRUE] \in Job
      BY DEF Job
    <3>2. QED
      BY <3>1 DEF TypeOK
  <2>2. job' \in [Workers -> Job]
    BY <2>1, IdleIsJob DEF Burn, TypeOK
  <2>3. QED
    BY <2>2 DEF Burn, At, TypeOK, Job
<1>2. Still("login") /\ Still("remove")
  BY <1>1 DEF Still, Idle
<1>3. TypeOK'
  BY <1>1 DEF Burn, ghostVars, TypeOK
<1>4. Quiet' /\ \A v \in Workers : JobFits(v)'
  BY <1>1 DEF Burn, Quiet, JobFits, Idle
<1>5. \A n \in Nonces : NonceInv(n)'
  BY <1>2, NonceFrame DEF Burn, ghostVars
<1>6. \A s \in Sessions : SessionInv(s)'
  BY <1>2, SessionFrame DEF Burn, ghostVars
<1>7. \A v \in Workers : /\ Writing(v)' <=> Writing(v)
                         /\ Admitted(v)' => Admitted(v) /\ job'[v].pc = job[v].pc
  BY <1>1 DEF Writing, Admitted, Idle
<1>8. ClaimInv'
  BY <1>7 DEF Burn, ghostVars, ClaimInv, Written, Readable
<1>9. TokenInv' /\ ClaimableOrClaimed'
  BY <1>1, <1>7 DEF Burn, ghostVars, TokenInv, ClaimableOrClaimed, Written, Readable, Idle
<1>10. QED
  BY <1>3, <1>4, <1>5, <1>6, <1>8, <1>9

-----------------------------------------------------------------------------
(* The steps of no request.                                                *)

LEMMA IssueIInv ==
    ASSUME IInv, Issue
    PROVE  IInv'
<1> USE CredentialsAssumption, FilesAssumption DEF IInv
<1>1. used'.nonce = used.nonce + 1 /\ used.nonce \in Nat
      /\ used' \in [nonce : 0..MaxNonces, session : 0..MaxSessions, token : 0..MaxTokens]
  BY DEF Issue, TypeOK
<1>2. live' \in [Nonces -> {Absent} \cup Nat]
  BY DEF Issue, TypeOK
<1>3. TypeOK'
  BY <1>1, <1>2 DEF Issue, fileVars, ghostVars, TypeOK
<1>4. Quiet' /\ \A v \in Workers : JobFits(v)'
  BY DEF Issue, Quiet, JobFits
<1>5. ASSUME NEW n \in Nonces
      PROVE  NonceInv(n)'
  <2>1. n \in Nat
    BY DEF Nonces
  <2>2. live'[n] # Absent => live[n] # Absent \/ n = used.nonce + 1
    BY <1>1 DEF Issue
  <2>3. \A v \in Workers : Holds(v, n)' <=> Holds(v, n)
    BY DEF Issue, Holds
  <2>4. QED
    BY <1>1, <2>1, <2>2, <2>3 DEF Issue, ghostVars, NonceInv
<1>6. \A s \in Sessions : SessionInv(s)'
  BY DEF Issue, fileVars, ghostVars, SessionInv, Removes
<1>7. ClaimInv' /\ TokenInv' /\ ClaimableOrClaimed'
  BY DEF Issue, fileVars, ghostVars, ClaimInv, TokenInv, ClaimableOrClaimed, Written, Writing,
         Admitted, Readable
<1>8. QED
  BY <1>3, <1>4, <1>5, <1>6, <1>7

LEMMA TickIInv ==
    ASSUME IInv, Tick
    PROVE  IInv'
<1> USE CredentialsAssumption DEF IInv
<1>1. TypeOK' /\ Quiet' /\ \A v \in Workers : JobFits(v)'
  BY DEF Tick, fileVars, ghostVars, TypeOK, Quiet, JobFits
<1>2. \A n \in Nonces : NonceInv(n)'
  BY DEF Tick, ghostVars, NonceInv, Holds
<1>3. \A s \in Sessions : SessionInv(s)'
  BY DEF Tick, fileVars, ghostVars, SessionInv, Removes
<1>4. ClaimInv' /\ TokenInv' /\ ClaimableOrClaimed'
  BY DEF Tick, fileVars, ghostVars, ClaimInv, TokenInv, ClaimableOrClaimed, Written, Writing,
         Admitted, Readable
<1>5. QED
  BY <1>1, <1>2, <1>3, <1>4

\* A start finds no request, whatever becomes of the token.
LEMMA StartIInv ==
    ASSUME IInv, Start \/ StartFails
    PROVE  IInv'
<1> USE CredentialsAssumption, FilesAssumption DEF IInv
<1>1. \A w \in Workers : job[w].op = "none" /\ job[w].pc = "idle" /\ job[w].rest = {}
  BY DEF Start, StartFails, Quiet, Idle
<1>2. UNCHANGED <<now, hash, live, device, session, envelope, job, granted, stray, claims>>
  BY DEF Start, StartFails
<1>3. used' \in [nonce : 0..MaxNonces, session : 0..MaxSessions, token : 0..MaxTokens]
      /\ used'.nonce = used.nonce /\ token' \in {Absent, Torn} \cup Tokens
      /\ invites' \subseteq Tokens /\ invites \subseteq invites'
  <2>1. CASE Readable \/ token \in Tokens
    BY <2>1 DEF Start, StartFails, TypeOK
  <2>2. CASE ~(Readable \/ token \in Tokens) /\ Start
    BY <2>2 DEF Start, TypeOK, Tokens
  <2>3. CASE StartFails
    BY <2>3 DEF StartFails, TypeOK, Tokens
  <2>4. QED
    BY <2>1, <2>2, <2>3
<1>4. faults' \in [crash : 0..MaxCrashes, failure : 0..MaxFailures]
  BY DEF Start, StartFails, Fails, TypeOK
<1>5. up' = TRUE /\ excused' \subseteq {"claims", "locked"}
      /\ ("claims" \in excused' <=> "claims" \in excused)
  BY DEF Start, StartFails, TypeOK
<1>6. TypeOK'
  BY <1>2, <1>3, <1>4, <1>5 DEF TypeOK
<1>7. Quiet' /\ \A v \in Workers : JobFits(v)'
  BY <1>2, <1>5 DEF Quiet, JobFits
<1>8. \A n \in Nonces : NonceInv(n)'
  BY <1>1, <1>2, <1>3 DEF NonceInv, Holds
<1>9. \A s \in Sessions : SessionInv(s)'
  BY <1>1, <1>2 DEF SessionInv, Removes
<1>10. ClaimInv' /\ TokenInv'
  BY <1>1, <1>2, <1>5 DEF ClaimInv, TokenInv, Written, Writing, Admitted, Readable
<1>11. ClaimableOrClaimed'
  BY <1>2 DEF Start, StartFails, ClaimableOrClaimed, Readable
<1>12. QED
  BY <1>6, <1>7, <1>8, <1>9, <1>10, <1>11

LEMMA CrashIInv ==
    ASSUME IInv, Crash
    PROVE  IInv'
<1> USE CredentialsAssumption, FilesAssumption DEF IInv
<1>1. \A w \in Workers : job'[w] = Idle
  BY DEF Crash
<1>2. stray' \subseteq Sessions /\ stray \subseteq stray'
  BY DEF Crash, SessionsOf, TypeOK
<1>3. job' \in [Workers -> Job]
  BY IdleIsJob DEF Crash
<1>4. TypeOK'
  <2>1. faults' \in [crash : 0..MaxCrashes, failure : 0..MaxFailures]
    BY DEF Crash, TypeOK
  <2>2. up' = FALSE /\ live' \in [Nonces -> {Absent} \cup Nat] /\ claims' \in Nat
    BY DEF Crash, TypeOK
  <2>3. QED
    BY <1>2, <1>3, <2>1, <2>2 DEF Crash, fileVars, TypeOK
<1>5. Quiet' /\ \A v \in Workers : JobFits(v)'
  <2>1. Quiet'
    BY <1>1 DEF Quiet
  <2>2. QED
    BY <1>1, <2>1 DEF JobFits, Idle
<1>6. \A n \in Nonces : NonceInv(n)'
  BY <1>1 DEF Crash, NonceInv, Holds, Idle
<1>7. ASSUME NEW s \in Sessions, s \notin stray', session[s] \in SessionRecord
      PROVE  device[session[s].device] # Absent
  <2>1. ASSUME NEW w \in Workers, Removes(w, session[s].device, s)
        PROVE  FALSE
    <3>1. job[w].op = "remove" /\ s \in SessionsOf(job[w].dev)
      BY <1>7, <2>1 DEF Removes, SessionsOf
    <3>2. QED
      BY <1>7, <3>1 DEF Crash
  <2>2. QED
    BY <1>2, <1>7, <2>1 DEF SessionInv
<1>8. \A s \in Sessions : SessionInv(s)'
  BY <1>7 DEF Crash, fileVars, SessionInv
<1>9. ClaimInv' /\ TokenInv' /\ ClaimableOrClaimed'
  BY <1>1 DEF Crash, fileVars, ClaimInv, TokenInv, ClaimableOrClaimed, Written, Writing,
              Admitted, Readable, Idle
<1>10. QED
  BY <1>4, <1>5, <1>6, <1>8, <1>9

-----------------------------------------------------------------------------
LEMMA InitIInv == Init => IInv
<1> SUFFICES ASSUME Init PROVE IInv
  OBVIOUS
<1> USE CredentialsAssumption, FilesAssumption
<1>1. TypeOK
  <2>1. job \in [Workers -> Job] /\ now \in 0..MaxTime
    BY IdleIsJob DEF Init
  <2>2. used \in [nonce : 0..MaxNonces, session : 0..MaxSessions, token : 0..MaxTokens]
        /\ faults \in [crash : 0..MaxCrashes, failure : 0..MaxFailures]
    BY DEF Init
  <2>3. live \in [Nonces -> {Absent} \cup Nat] /\ granted \in [Nonces -> Nat]
        /\ session \in [Sessions -> {Absent, Torn} \cup SessionRecord]
    BY DEF Init
  <2>4. QED
    BY <2>1, <2>2, <2>3 DEF Init, TypeOK
<1>2. Quiet /\ \A w \in Workers : JobFits(w)
  BY DEF Init, Quiet, JobFits, Idle
<1>3. \A n \in Nonces : NonceInv(n)
  BY DEF Init, NonceInv, Holds, Idle, Nonces
<1>4. \A s \in Sessions : SessionInv(s)
  BY DEF Init, SessionInv
<1>5. ClaimInv /\ TokenInv /\ ClaimableOrClaimed
  BY DEF Init, ClaimInv, TokenInv, ClaimableOrClaimed, Admitted, Writing, Idle
<1>6. QED
  BY <1>1, <1>2, <1>3, <1>4, <1>5 DEF IInv

LEMMA NextIInv == IInv /\ [Next]_vars => IInv'
<1> SUFFICES ASSUME IInv, [Next]_vars
             PROVE  IInv'
  OBVIOUS
<1>1. CASE Issue \/ Start \/ StartFails \/ Crash \/ Tick
  BY <1>1, IssueIInv, StartIInv, CrashIInv, TickIInv
<1>2. ASSUME NEW w \in Workers, SessionStep(w)
      PROVE  IInv'
  BY <1>2, LoginIInv, ConsumeIInv, VerifyIInv, CreateSessionIInv, WriteSessionIInv, SessionFailsIInv
  DEF SessionStep
<1>3. ASSUME NEW w \in Workers, DeviceStep(w)
      PROVE  IInv'
  BY <1>3, VouchIInv, RemoveIInv, CreateDeviceIInv, WriteDeviceIInv, VouchFailsIInv, RemoveKeyIInv,
     ListSessionsIInv, ListFailsIInv, UnlinkIInv, UnlinkFailsIInv
  DEF DeviceStep
<1>4. ASSUME NEW w \in Workers, EnvelopeStep(w)
      PROVE  IInv'
  BY <1>4, SignupIInv, PutIInv, SignupCheckIInv, TruncateEnvelopeIInv, WriteEnvelopeIInv,
     EnvelopeFailsIInv, BurnIInv, BurnFailsIInv
  DEF EnvelopeStep
<1>5. CASE UNCHANGED vars
  <2>1. UNCHANGED <<up, now, hash, live, device, session, envelope, token, job, used, faults,
                    granted, stray, invites, claims, excused>>
    BY <1>5 DEF vars, fileVars, ghostVars
  <2>2. TypeOK' /\ Quiet' /\ \A v \in Workers : JobFits(v)'
    BY <2>1 DEF IInv, TypeOK, Quiet, JobFits
  <2>3. \A n \in Nonces : NonceInv(n)'
    BY <2>1 DEF IInv, NonceInv, Holds
  <2>4. \A s \in Sessions : SessionInv(s)'
    BY <2>1 DEF IInv, SessionInv, Removes
  <2>5. ClaimInv' /\ TokenInv' /\ ClaimableOrClaimed'
    BY <2>1 DEF IInv, ClaimInv, TokenInv, ClaimableOrClaimed, Written, Writing, Admitted,
                Readable
  <2>6. QED
    BY <2>2, <2>3, <2>4, <2>5 DEF IInv
<1>6. QED
  BY <1>1, <1>2, <1>3, <1>4, <1>5 DEF Next

\* Every state satisfies the inductive invariant, for any threads, devices, clock and faults.
THEOREM CredentialsInvariant == Spec => []IInv
<1>1. QED
  BY InitIInv, NextIInv, PTL DEF Spec

-----------------------------------------------------------------------------
(* What it says of the runs' properties.                                   *)

\* The credentials are what their types say.
THEOREM CredentialsTyped == Spec => []TypeOK
<1>1. IInv => TypeOK
  BY DEF IInv
<1>2. QED
  BY <1>1, CredentialsInvariant, PTL

\* However often, late or concurrently statements with a nonce come, it is worth one session.
THEOREM NoncesAreSpentOnce == Spec => []NonceSpentOnce
<1>1. IInv => NonceSpentOnce
  BY DEF IInv, NonceInv, NonceSpentOnce
<1>2. QED
  BY <1>1, CredentialsInvariant, PTL

\* A session of a device that was removed opens nothing once the removal has passed it, but for
\* the ones the removal could not see or did not finish.
THEOREM RevokedDevicesLoseSessions == Spec => []RevokedLosesSessions
<1>1. IInv => RevokedLosesSessions
  BY DEF IInv, SessionInv, Removes, Usable, RevokedLosesSessions
<1>2. QED
  BY <1>1, CredentialsInvariant, PTL

\* An account is claimed once, unless sign-ups overlapped.
THEOREM AccountsAreClaimedOnce == Spec => []ClaimedOnce
<1>1. IInv => ClaimedOnce
  BY DEF IInv, TypeOK, ClaimInv, ClaimedOnce
<1>2. QED
  BY <1>1, CredentialsInvariant, PTL

\* A running relay never leaves an account with neither an envelope nor a link that claims it,
\* but for the failed writes that "locked" names.
THEOREM NoAccountIsLocked == Spec => []ClaimableOrClaimed
<1>1. IInv => ClaimableOrClaimed
  BY DEF IInv
<1>2. QED
  BY <1>1, CredentialsInvariant, PTL

=============================================================================
