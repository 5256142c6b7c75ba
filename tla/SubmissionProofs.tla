-------------------------- MODULE SubmissionProofs --------------------------
(***************************************************************************)
(* Safety of drafts and submissions for any ids, peers, workers and faults: *)
(* what was sealed stays sealed, no draft is lost unsaid, every record was *)
(* attempted, every signature verifies, and the second write of a message  *)
(* nobody touched changes nothing.                                         *)
(*                                                                         *)
(* What carries the proof is that a message, by its tag, has one id for    *)
(* ever, so that whoever writes it again touches every send it is in.      *)
(***************************************************************************)
EXTENDS Submission, TLAPS

-----------------------------------------------------------------------------
(* The inductive invariant.                                                *)

\* Every tag in use is of a message that was made, and is used under one id alone.
Homed(home) ==
    /\ \A i \in Id : /\ pending[i] # None => pending[i].tag <= emails /\ home[pending[i].tag] = i
                     /\ stored[i] # None => stored[i].tag <= emails /\ home[stored[i].tag] = i
    /\ \A w \in Worker :
           /\ job[w].step # "idle" => job[w].msg.tag <= emails /\ home[job[w].msg.tag] = job[w].id
           /\ task[w].step # "idle" =>
                  /\ task[w].outbound.tag <= emails /\ home[task[w].outbound.tag] = task[w].id
                  /\ task[w].stored.tag = task[w].outbound.tag

OneId == \E home \in [Tag -> Id \cup {None}] : Homed(home)

\* Nothing has happened to a message that has not been made.
Unmade == \A t \in Tag : t > emails => fate[t] = {}

\* Only plaintext has an HTML alternative.
Plain(m) == m.html => m.text = "plain"
HtmlIsPlain ==
    /\ \A i \in Id : /\ pending[i] # None => Plain(pending[i])
                     /\ stored[i] # None => Plain(stored[i])
    /\ \A w \in Worker : /\ job[w].step # "idle" => Plain(job[w].msg)
                         /\ task[w].step # "idle" => Plain(task[w].stored)

Sealed(m) == m.text # "plain" /\ ~m.html
MustBeSealed(t) == "sealed" \in fate[t] /\ "undone" \notin fate[t]

\* What a send will write back is sealed if its message is, unless the message was touched.
SendsAreSealed ==
    /\ \A t \in Tag : "sealed" \in fate[t] => keyOnFile
    /\ \A w \in Worker :
           task[w].step # "idle" /\ ~task[w].touched /\ MustBeSealed(task[w].stored.tag) =>
               Sealed(task[w].stored)

\* A send that has no outcome yet.
Live(t) ==
    \E w \in Worker : task[w].step \in {"build", "generate", "deliver"} /\ task[w].outbound.tag = t

Attempted(t) == "stored" \in fate[t] /\ (fate[t] \cap {"ended", "nobody", "cut"} # {} \/ Live(t))

\* What is listed, or about to be, and whatever a send was made for was attempted; a
\* request has no send before its hook has returned.
SendsAreTrue ==
    /\ \A t \in subs : Attempted(t)
    /\ \A w \in Worker : /\ job[w].step = "record" => Attempted(job[w].msg.tag)
                         /\ task[w].step # "idle" => Attempted(task[w].outbound.tag)
                         /\ job[w].step = "hook" => task[w].step = "idle"

\* A send signs with the domain's key or not at all.
KeysAgree ==
    /\ \A w \in Worker : task[w].step = "deliver" => task[w].key \in {None, dkim}
    /\ SignaturesHold

\* A reply is to another message, and a message nobody has touched is what its send would write.
Settled ==
    /\ \A i \in Id : pending[i] # None => pending[i].parent # i
    /\ \A w \in Worker :
           /\ job[w].step # "idle" /\ job[w].msg.thread = None => job[w].msg.parent # job[w].id
           /\ task[w].step # "idle" /\ task[w].stored.thread = None =>
                  task[w].stored.parent # task[w].id
           /\ task[w].step # "idle" /\ ~task[w].touched =>
                  stored[task[w].id] = Resolve(task[w].id, task[w].stored)

IInv ==
    /\ TypeOK
    /\ OneId
    /\ Unmade
    /\ HtmlIsPlain
    /\ SendsAreSealed
    /\ SealedStaysSealed
    /\ DraftsAccounted
    /\ SendsAreTrue
    /\ KeysAgree
    /\ Settled

-----------------------------------------------------------------------------
(* The records.                                                            *)

LEMMA EmailIs ==
    ASSUME NEW m \in Email
    PROVE  /\ m # None
           /\ m.tag \in Tag /\ m.draft \in BOOLEAN /\ m.seen \in BOOLEAN /\ m.e2e \in BOOLEAN
           /\ m.text \in {"plain", "pgp", "sealed"} /\ m.html \in BOOLEAN
           /\ m.from \in Peer \cup {None}
           /\ m.parent \in Id \cup {None} /\ m.thread \in Id \cup {None}
<1>1. m # None
  BY EmailAssumption
<1>2. QED
  BY <1>1 DEF Email

LEMMA TaskIs ==
    ASSUME NEW t \in Tasks, t.step # "idle"
    PROVE  /\ t.step \in {"build", "generate", "deliver", "back"}
           /\ t.id \in Id /\ t.outbound \in Email /\ t.stored \in Email /\ t.to \subseteq Peer
           /\ t.key \in Worker \cup {None} /\ t.touched \in BOOLEAN
  BY DEF Tasks, Idle

LEMMA JobIs ==
    ASSUME NEW j \in Jobs, j.step # "idle"
    PROVE  j.step \in {"hook", "record"} /\ j.id \in Id /\ j.msg \in Email /\ j.to \subseteq Peer
  BY DEF Jobs, Idle

\* What the state holds, by the type invariant.
LEMMA Held ==
    ASSUME TypeOK
    PROVE  /\ \A i \in Id : pending[i] # None =>
                  pending[i] \in Email /\ pending[i].draft /\ pending[i].thread = None
           /\ \A i \in Id : stored[i] # None => stored[i] \in Email /\ stored[i].thread # None
           /\ \A w \in Worker : job[w] \in Jobs /\ task[w] \in Tasks
           /\ \A w \in Worker : job[w].step # "idle" => job[w].id \in Id /\ job[w].msg \in Email
           /\ \A w \in Worker : task[w].step # "idle" =>
                  /\ task[w].id \in Id /\ task[w].touched \in BOOLEAN
                  /\ task[w].outbound \in Email /\ task[w].stored \in Email
<1>1. \A w \in Worker : job[w] \in Jobs /\ task[w] \in Tasks
  BY DEF TypeOK
<1>2. /\ \A i \in Id : pending[i] # None =>
             pending[i] \in Email /\ pending[i].draft /\ pending[i].thread = None
      /\ \A i \in Id : stored[i] # None => stored[i] \in Email /\ stored[i].thread # None
  BY DEF TypeOK
<1>3. QED
  BY <1>1, <1>2, TaskIs, JobIs

\* A message with another thread, tag, or flags.
LEMMA WithThread ==
    ASSUME NEW m \in Email, NEW th \in Id \cup {None}
    PROVE  [m EXCEPT !.thread = th] \in Email /\ [m EXCEPT !.thread = th].thread = th
  BY DEF Email

LEMMA WithTag ==
    ASSUME NEW m \in Email, NEW t \in Tag
    PROVE  LET n == [m EXCEPT !.tag = t]
           IN  /\ n \in Email /\ n.tag = t /\ n.parent = m.parent /\ n.thread = m.thread
               /\ n.text = m.text /\ n.html = m.html
  BY DEF Email

LEMMA WithFlags ==
    ASSUME NEW m \in Email
    PROVE  /\ [m EXCEPT !.seen = ~@] \in Email
           /\ [m EXCEPT !.draft = TRUE] \in Email
           /\ [m EXCEPT !.draft = FALSE] \in Email
           /\ [m EXCEPT !.e2e = TRUE] \in Email
           /\ SealStoredBody(m) \in Email
  BY DEF Email, SealStoredBody

\* The same message, but for its thread, its flags and its being sealed.
SameMessage(n, m) == n.tag = m.tag /\ n.parent = m.parent
SameBody(n, m) == n.text = m.text /\ n.html = m.html

LEMMA ResolveIs ==
    ASSUME TypeOK, NEW i \in Id, NEW m \in Email
    PROVE  /\ Resolve(i, m) \in Email /\ Resolve(i, m).thread # None
           /\ SameMessage(Resolve(i, m), m) /\ SameBody(Resolve(i, m), m)
<1>1. CASE m.thread # None
  BY <1>1 DEF Resolve, SameMessage, SameBody
<1>2. CASE m.thread = None
  <2> DEFINE th == IF m.parent # None /\ stored[m.parent] # None
                   THEN stored[m.parent].thread ELSE i
  <2>1. th \in Id
    BY SubmissionAssumption, Held, EmailIs
  <2>2. Resolve(i, m) = [m EXCEPT !.thread = th]
    BY <1>2 DEF Resolve
  <2> HIDE DEF th
  <2>3. th \in Id \cup {None} /\ th # None
    BY <2>1, SubmissionAssumption
  <2>4. Resolve(i, m) \in Email /\ Resolve(i, m).thread # None
    BY <2>2, <2>3, WithThread
  <2>5. SameMessage(Resolve(i, m), m) /\ SameBody(Resolve(i, m), m)
    BY <2>2 DEF Email, SameMessage, SameBody
  <2>6. QED
    BY <2>4, <2>5
<1>3. QED
  BY <1>1, <1>2

LEMMA StoredCopyIs ==
    ASSUME NEW m \in Email, NEW works \in BOOLEAN
    PROVE  LET copy == StoredCopy(m, works)
           IN  /\ copy \in Email /\ SameMessage(copy, m) /\ copy.thread = m.thread
               /\ ~copy.draft
               /\ m.text # "plain" => SameBody(copy, m)
               /\ m.text = "plain" =>
                      IF keyOnFile /\ works THEN copy.text = "sealed" /\ ~copy.html
                      ELSE SameBody(copy, m)
<1> DEFINE s == [m EXCEPT !.draft = FALSE]
<1>1. /\ s \in Email /\ SameMessage(s, m) /\ SameBody(s, m) /\ s.thread = m.thread
      /\ ~s.draft
  BY WithFlags DEF Email, SameMessage, SameBody
<1>2. StoredCopy(m, works) = IF s.text # "plain" THEN [s EXCEPT !.e2e = TRUE]
                             ELSE IF keyOnFile /\ works THEN SealStoredBody(s)
                             ELSE s
  BY Zenon DEF StoredCopy
<1> HIDE DEF s
<1>3. CASE s.text # "plain"
  <2>1. [s EXCEPT !.e2e = TRUE] \in Email
    BY <1>1, WithFlags
  <2>2. QED
    BY <1>1, <1>2, <1>3, <2>1 DEF Email, SameMessage, SameBody
<1>4. CASE s.text = "plain" /\ keyOnFile /\ works
  <2>1. SealStoredBody(s) \in Email
    BY <1>1, WithFlags
  <2>2. StoredCopy(m, works) = SealStoredBody(s)
    BY <1>2, <1>4
  <2>3. QED
    BY <1>1, <1>4, <2>1, <2>2 DEF Email, SealStoredBody, SameMessage, SameBody
<1>5. CASE s.text = "plain" /\ ~(keyOnFile /\ works)
  BY <1>1, <1>2, <1>5 DEF SameMessage, SameBody
<1>6. QED
  BY <1>3, <1>4, <1>5

LEMMA FreshIs ==
    ASSUME emails \in Nat, emails < MaxEmails, NEW text \in {"plain", "pgp", "sealed"},
           NEW html \in BOOLEAN, NEW from \in Peer \cup {None}, NEW parent \in Id \cup {None}
    PROVE  LET m == Fresh(text, html, from, parent)
           IN  /\ m \in Email
               /\ m.tag = emails + 1 /\ m.text = text /\ m.html = html
               /\ m.parent = parent /\ m.thread = None
<1>1. emails + 1 \in Tag
  BY SubmissionAssumption DEF Tag
<1>2. QED
  BY <1>1 DEF Fresh, Email

\* A send that goes on.
SameSend(n, t) == n.id = t.id /\ n.outbound = t.outbound /\ n.stored = t.stored

LEMMA TaskTouched ==
    ASSUME NEW t \in Tasks, t.step # "idle"
    PROVE  LET n == [t EXCEPT !.touched = TRUE]
           IN  n \in Tasks /\ SameSend(n, t) /\ n.touched /\ n.step = t.step /\ n.key = t.key
<1> DEFINE n == [t EXCEPT !.touched = TRUE]
<1>1. t \in Tasks \ {Idle}
  BY DEF Idle
<1>2. n \in Tasks
  BY <1>1 DEF Tasks
<1>3. SameSend(n, t) /\ n.touched /\ n.step = t.step /\ n.key = t.key
  BY <1>1 DEF Tasks, SameSend
<1>4. QED
  BY <1>2, <1>3

LEMMA TaskWithStep ==
    ASSUME NEW t \in Tasks, t.step # "idle",
           NEW step \in {"build", "generate", "deliver", "back"}
    PROVE  LET n == [t EXCEPT !.step = step]
           IN  n \in Tasks /\ SameSend(n, t) /\ n.touched = t.touched /\ n.step = step
               /\ n.key = t.key
  BY DEF Tasks, Idle, SameSend

LEMMA TaskWithKey ==
    ASSUME NEW t \in Tasks, t.step # "idle", NEW key \in Worker \cup {None}
    PROVE  LET n == [t EXCEPT !.step = "deliver", !.key = key]
           IN  /\ n \in Tasks /\ SameSend(n, t) /\ n.touched = t.touched
               /\ n.step = "deliver" /\ n.key = key
<1> DEFINE n == [t EXCEPT !.step = "deliver", !.key = key]
<1>1. t \in Tasks \ {Idle}
  BY DEF Idle
<1>2. n \in Tasks
  BY <1>1 DEF Tasks
<1>3. SameSend(n, t) /\ n.touched = t.touched /\ n.step = "deliver" /\ n.key = key
  BY <1>1 DEF Tasks, SameSend
<1>4. QED
  BY <1>2, <1>3

\* What a write under i does to the send t, of which n is what it leaves.
TouchedBy(i, n, t) ==
    /\ n.step = t.step
    /\ t.step = "idle" => n = t
    /\ t.step # "idle" =>
           /\ SameSend(n, t) /\ n.key = t.key
           /\ n.touched \in BOOLEAN
           /\ n.touched <=> t.touched \/ t.id = i \/ t.stored.parent = i

LEMMA TouchedIs ==
    ASSUME TypeOK, NEW i \in Id
    PROVE  /\ Touched(i) \in [Worker -> Tasks]
           /\ \A w \in Worker : TouchedBy(i, Touched(i)[w], task[w])
<1>1. ASSUME NEW w \in Worker
      PROVE  Touched(i)[w] \in Tasks /\ TouchedBy(i, Touched(i)[w], task[w])
  <2>1. task[w] \in Tasks
    BY Held
  <2>2. CASE task[w].step # "idle" /\ (task[w].id = i \/ task[w].stored.parent = i)
    <3>1. Touched(i)[w] = [task[w] EXCEPT !.touched = TRUE]
      BY <2>2 DEF Touched
    <3>2. QED
      BY <2>1, <2>2, <3>1, TaskTouched DEF TouchedBy
  <2>3. CASE ~(task[w].step # "idle" /\ (task[w].id = i \/ task[w].stored.parent = i))
    <3>1. Touched(i)[w] = task[w]
      BY <2>3 DEF Touched
    <3>2. QED
      BY <2>1, <2>3, <3>1, TaskIs DEF TouchedBy, SameSend
  <2>4. QED
    BY <2>2, <2>3
<1>2. QED
  BY <1>1 DEF Touched

-----------------------------------------------------------------------------
(* What the steps have in common.                                         *)

\* A message under i is written over: every send that it concerns is touched.
LEMMA WriteTouches ==
    ASSUME TypeOK, Settled, NEW i \in Id, NEW m, stored' = [stored EXCEPT ![i] = m],
           NEW w \in Worker, TouchedBy(i, task'[w], task[w]), task'[w].step # "idle"
    PROVE  /\ task'[w].stored.thread = None => task'[w].stored.parent # task'[w].id
           /\ ~task'[w].touched =>
                  stored'[task'[w].id] = Resolve(task[w].id, task[w].stored)'
<1>1. /\ task[w].step # "idle" /\ SameSend(task'[w], task[w])
      /\ task'[w].touched \in BOOLEAN
      /\ task'[w].touched <=> task[w].touched \/ task[w].id = i \/ task[w].stored.parent = i
  BY DEF TouchedBy
<1>2. task[w].id \in Id /\ task[w].stored \in Email
  BY <1>1, Held
<1>3. task'[w].stored.thread = None => task'[w].stored.parent # task'[w].id
  BY <1>1 DEF Settled, SameSend
<1>4. ASSUME ~task'[w].touched
      PROVE  stored'[task'[w].id] = Resolve(task[w].id, task[w].stored)'
  <2>1. /\ task'[w].id = task[w].id /\ task'[w].stored = task[w].stored
        /\ task[w].id # i /\ task[w].stored.parent # i
        /\ stored[task[w].id] = Resolve(task[w].id, task[w].stored)
    BY <1>1, <1>4 DEF Settled, SameSend
  <2>2. task[w].stored.parent \in Id \cup {None}
    BY <1>2, EmailIs
  <2>3. \A k \in Id : k # i => stored'[k] = stored[k]
    BY DEF TypeOK
  <2>4. QED
    BY <1>2, <2>1, <2>2, <2>3 DEF Resolve
<1>5. QED
  BY <1>3, <1>4

\* The sends after a write under i.
LEMMA AfterTouched ==
    ASSUME TypeOK, NEW i \in Id, task' = Touched(i)
    PROVE  /\ task' \in [Worker -> Tasks]
           /\ \A w \in Worker : TouchedBy(i, task'[w], task[w])
           /\ \A w \in Worker : task'[w].step = task[w].step
           /\ \A w \in Worker : task[w].step # "idle" =>
                  /\ SameSend(task'[w], task[w]) /\ task'[w].key = task[w].key
                  /\ ~task'[w].touched => ~task[w].touched
  BY TouchedIs DEF TouchedBy

\* The same when w's own send begins or ends with it.
LEMMA AfterTouchedBut ==
    ASSUME TypeOK, NEW i \in Id, NEW w \in Worker, NEW n \in Tasks,
           task' = [Touched(i) EXCEPT ![w] = n]
    PROVE  /\ task' \in [Worker -> Tasks] /\ task'[w] = n
           /\ \A v \in Worker \ {w} : TouchedBy(i, task'[v], task[v])
           /\ \A v \in Worker \ {w} : task'[v].step = task[v].step
           /\ \A v \in Worker \ {w} : task[v].step # "idle" =>
                  /\ SameSend(task'[v], task[v]) /\ task'[v].key = task[v].key
                  /\ ~task'[v].touched => ~task[v].touched
<1>1. /\ Touched(i) \in [Worker -> Tasks]
      /\ \A v \in Worker : TouchedBy(i, Touched(i)[v], task[v])
  BY TouchedIs
<1>2. /\ task' \in [Worker -> Tasks] /\ task'[w] = n
      /\ \A v \in Worker \ {w} : TouchedBy(i, task'[v], task[v])
  BY <1>1
<1>3. QED
  BY <1>2 DEF TouchedBy

\* Something has happened to some of the messages.
LEMMA MarkIs ==
    ASSUME NEW tags, NEW what, fate' = Mark(tags, what), NEW t \in Tag
    PROVE  /\ t \notin tags => fate'[t] = fate[t]
           /\ \A x : x \in fate'[t] <=> x \in fate[t] \/ (t \in tags /\ x = what)
<1>1. fate'[t] = IF t \in tags THEN fate[t] \cup {what} ELSE fate[t]
  BY DEF Mark
<1>2. QED
  BY <1>1

LEMMA MarkHas ==
    ASSUME NEW t \in Tag, NEW what, fate' = Mark({t}, what)
    PROVE  what \in fate'[t]
  BY DEF Mark

\* Nothing that has happened to a message is undone but by a submission.
FateGrows ==
    /\ \A t \in Tag : t > emails => fate'[t] = {}
    /\ \A t \in Tag : "stored" \in fate[t] => "stored" \in fate'[t]
    /\ \A t \in Tag : "lost" \in fate[t] => "lost" \in fate'[t]
    /\ \A t \in Tag : "ended" \in fate[t] => "ended" \in fate'[t]
    /\ \A t \in Tag : "nobody" \in fate[t] => "nobody" \in fate'[t]
    /\ \A t \in Tag : "cut" \in fate[t] => "cut" \in fate'[t]
    /\ \A t \in Tag : "sealed" \in fate'[t] => "sealed" \in fate[t]
    /\ \A t \in Tag : "undone" \in fate[t] => "undone" \in fate'[t]

\* No send begins.
NoNewSend ==
    \A w \in Worker : task'[w].step # "idle" =>
        /\ task[w].step # "idle" /\ SameSend(task'[w], task[w])
        /\ ~task'[w].touched => ~task[w].touched

LEMMA FateStays ==
    ASSUME Unmade, fate' = fate
    PROVE  FateGrows
  BY DEF Unmade, FateGrows

LEMMA FateMarked ==
    ASSUME Unmade, NEW tags, NEW what, \A t \in Tag : t > emails => t \notin tags,
           what \in {"lost", "ended", "nobody", "undone", "cut"}, fate' = Mark(tags, what)
    PROVE  FateGrows
<1>1. \A t \in Tag : /\ t \notin tags => fate'[t] = fate[t]
                     /\ \A x : x \in fate'[t] <=> x \in fate[t] \/ (t \in tags /\ x = what)
  BY MarkIs
<1>2. "sealed" # what
  OBVIOUS
<1>3. QED
  BY <1>1, <1>2 DEF Unmade, FateGrows

LEMMA SealFrame ==
    ASSUME TypeOK, SendsAreSealed, NoNewSend, FateGrows, keyOnFile => keyOnFile'
    PROVE  SendsAreSealed'
<1>1. \A t \in Tag : "sealed" \in fate'[t] => keyOnFile'
  BY DEF SendsAreSealed, FateGrows
<1>2. ASSUME NEW w \in Worker, task'[w].step # "idle", ~task'[w].touched,
             "sealed" \in fate'[task'[w].stored.tag],
             "undone" \notin fate'[task'[w].stored.tag]
      PROVE  Sealed(task'[w].stored)
  <2>1. /\ task[w].step # "idle" /\ ~task[w].touched
        /\ task'[w].stored = task[w].stored
    BY <1>2 DEF NoNewSend, SameSend
  <2>2. task[w].stored.tag \in Tag
    BY <2>1, Held, EmailIs
  <2>3. MustBeSealed(task[w].stored.tag)
    BY <1>2, <2>1, <2>2 DEF MustBeSealed, FateGrows
  <2>4. QED
    BY <2>1, <2>3 DEF SendsAreSealed
<1>3. QED
  BY <1>1, <1>2 DEF SendsAreSealed, MustBeSealed, Sealed

LEMMA StoredFrame ==
    ASSUME TypeOK, SealedStaysSealed, FateGrows,
           \A i \in Id : stored'[i] # None =>
               stored[i] # None /\ stored'[i].tag = stored[i].tag /\ SameBody(stored'[i], stored[i])
    PROVE  SealedStaysSealed'
<1>1. ASSUME NEW i \in Id, stored'[i] # None,
             "sealed" \in fate'[stored'[i].tag], "undone" \notin fate'[stored'[i].tag]
      PROVE  stored'[i].text # "plain" /\ ~stored'[i].html
  <2>1. /\ stored[i] # None /\ stored'[i].tag = stored[i].tag
        /\ SameBody(stored'[i], stored[i]) /\ stored[i].tag \in Tag
    BY <1>1, Held, EmailIs
  <2>2. "sealed" \in fate[stored[i].tag] /\ "undone" \notin fate[stored[i].tag]
    BY <1>1, <2>1 DEF FateGrows
  <2>3. QED
    BY <2>1, <2>2 DEF SealedStaysSealed, SameBody
<1>2. QED
  BY <1>1 DEF SealedStaysSealed

\* Live sends go on or have an outcome, and no record or send comes out of nothing.
LEMMA TrueFrame ==
    ASSUME TypeOK, SendsAreTrue, NoNewSend, FateGrows, subs' = subs,
           \A w \in Worker : task[w].step \in {"build", "generate", "deliver"} =>
               \/ /\ task'[w].step \in {"build", "generate", "deliver"}
                  /\ SameSend(task'[w], task[w])
               \/ fate'[task[w].outbound.tag] \cap {"ended", "nobody", "cut"} # {},
           \A w \in Worker : job'[w].step = "record" =>
               job[w].step = "record" /\ job'[w].msg = job[w].msg,
           \A w \in Worker : job'[w].step = "hook" => task'[w].step = "idle"
    PROVE  SendsAreTrue'
<1>1. ASSUME NEW t \in Tag, Attempted(t)
      PROVE  Attempted(t)'
  <2>1. "stored" \in fate'[t]
    BY <1>1 DEF Attempted, FateGrows
  <2>2. CASE fate[t] \cap {"ended", "nobody", "cut"} # {}
    BY <1>1, <2>1, <2>2 DEF Attempted, FateGrows
  <2>3. ASSUME NEW w \in Worker, task[w].step \in {"build", "generate", "deliver"},
               task[w].outbound.tag = t
        PROVE  Attempted(t)'
    BY <2>1, <2>3 DEF Attempted, Live, SameSend
  <2>4. QED
    BY <1>1, <2>2, <2>3 DEF Attempted, Live
<1>2. /\ subs \subseteq Tag
      /\ \A w \in Worker : job[w].step = "record" => job[w].msg.tag \in Tag
      /\ \A w \in Worker : task[w].step # "idle" => task[w].outbound.tag \in Tag
  BY Held, EmailIs DEF TypeOK
<1>3. \A t \in subs' : Attempted(t)'
  BY <1>1, <1>2 DEF SendsAreTrue
<1>4. ASSUME NEW w \in Worker
      PROVE  /\ job'[w].step = "record" => Attempted(job[w].msg.tag)'
             /\ task'[w].step # "idle" => Attempted(task[w].outbound.tag)'
  BY <1>1, <1>2 DEF SendsAreTrue, NoNewSend, SameSend
<1>5. QED
  BY <1>3, <1>4 DEF SendsAreTrue

-----------------------------------------------------------------------------
(* One lemma for each action.                                              *)

\* Receive, Import and Copy store a new message.
LEMMA NewMailIInv ==
    ASSUME IInv, NEW i \in Id, NEW m \in Email, m.html => m.text = "plain",
           emails < MaxEmails, m.tag = emails + 1, Put(i, m),
           emails' = emails + 1, fate' = Mark({emails + 1}, "stored"), task' = Touched(i),
           UNCHANGED <<submissions, pending, subs, job, keyOnFile, dkim, wire, changes, faults>>
    PROVE  IInv'
<1> USE SubmissionAssumption DEF IInv
<1> DEFINE n == Resolve(i, m)
<1>1. /\ n \in Email /\ n # None /\ n.thread # None /\ n.tag = emails + 1
      /\ n.text = m.text /\ n.html = m.html
  BY ResolveIs, EmailIs DEF SameMessage, SameBody
<1>2. /\ stored' = [stored EXCEPT ![i] = n] /\ stored'[i] = n
      /\ \A k \in Id \ {i} : stored'[k] = stored[k]
  BY DEF Put, TypeOK
<1> HIDE DEF n
<1>3. /\ task' \in [Worker -> Tasks]
      /\ \A w \in Worker : TouchedBy(i, task'[w], task[w])
      /\ \A w \in Worker : task'[w].step = task[w].step
      /\ \A w \in Worker : task[w].step # "idle" =>
             /\ SameSend(task'[w], task[w]) /\ task'[w].key = task[w].key
             /\ ~task'[w].touched => ~task[w].touched
  BY AfterTouched
<1>4. /\ emails \in Nat /\ emails + 1 \in Tag
      /\ \A t \in Tag : t # emails + 1 => fate'[t] = fate[t]
      /\ \A t \in Tag : \A x : x \in fate'[t] <=> x \in fate[t] \/ (t = emails + 1 /\ x = "stored")
  <2>1. emails \in Nat /\ emails + 1 \in Tag
    BY DEF TypeOK, Tag
  <2>2. \A t \in Tag :
            /\ t \notin {emails + 1} => fate'[t] = fate[t]
            /\ \A x : x \in fate'[t] <=>
                      x \in fate[t] \/ (t \in {emails + 1} /\ x = "stored")
    BY MarkIs
  <2>3. QED
    BY <2>1, <2>2
<1>4a. \A t \in Tag : MustBeSealed(t)' => MustBeSealed(t)
  BY <1>4 DEF MustBeSealed
<1>5. TypeOK'
  <2>1. emails' \in 0 .. MaxEmails
    BY <1>4 DEF Tag
  <2>2. fate' \in [Tag -> SUBSET {"lost", "stored", "sealed", "ended", "nobody", "cut", "undone"}]
    BY DEF TypeOK, Mark
  <2>3. stored' \in [Id -> {None} \cup {k \in Email : k.thread # None}]
    BY <1>1, <1>2 DEF TypeOK
  <2>4. QED
    BY <1>3, <2>1, <2>2, <2>3 DEF TypeOK
<1>6. OneId'
  <2>1. PICK home \in [Tag -> Id \cup {None}] : Homed(home)
    BY DEF OneId
  <2> DEFINE next == [home EXCEPT ![emails + 1] = i]
  <2>2. next \in [Tag -> Id \cup {None}]
    BY <2>1
  <2>3. /\ next[emails + 1] = i
        /\ \A t \in Tag : t <= emails => next[t] = home[t]
    BY <1>4, <2>1 DEF Tag
  <2> HIDE DEF next
  <2>4. \A t \in Tag : t <= emails => t <= emails'
    BY <1>4 DEF Tag
  <2>5. \A k \in Id : /\ pending[k] # None => pending[k].tag \in Tag
                      /\ stored[k] # None => stored[k].tag \in Tag
    BY Held, EmailIs
  <2>6. \A w \in Worker :
            /\ job[w].step # "idle" => job[w].msg.tag \in Tag
            /\ task[w].step # "idle" => task[w].outbound.tag \in Tag
    BY Held, EmailIs
  <2>7. \A k \in Id :
            /\ pending'[k] # None => pending'[k].tag <= emails' /\ next[pending'[k].tag] = k
            /\ stored'[k] # None => stored'[k].tag <= emails' /\ next[stored'[k].tag] = k
    BY <1>1, <1>2, <1>4, <2>1, <2>3, <2>4, <2>5 DEF Homed
  <2>8. \A w \in Worker :
            /\ job'[w].step # "idle" =>
                  job'[w].msg.tag <= emails' /\ next[job'[w].msg.tag] = job'[w].id
            /\ task'[w].step # "idle" =>
                  /\ task'[w].outbound.tag <= emails'
                  /\ next[task'[w].outbound.tag] = task'[w].id
                  /\ task'[w].stored.tag = task'[w].outbound.tag
    BY <1>3, <2>1, <2>3, <2>4, <2>6 DEF Homed, SameSend
  <2>9. QED
    BY <2>2, <2>7, <2>8 DEF OneId, Homed
<1>7. Unmade'
  <2>1. ASSUME NEW t \in Tag, t > emails + 1
        PROVE  t > emails /\ t # emails + 1
    BY <1>4, <2>1 DEF Tag
  <2>2. QED
    BY <1>4, <2>1 DEF Unmade
<1>8. HtmlIsPlain'
  BY <1>1, <1>2, <1>3 DEF HtmlIsPlain, Plain, SameSend
<1>9. fate[emails + 1] = {}
  BY <1>4 DEF Unmade
<1>10. SendsAreSealed'
  <2>1. \A t \in Tag : "sealed" \in fate'[t] => keyOnFile'
    <3>1. \A t \in Tag : "sealed" \in fate'[t] => "sealed" \in fate[t]
      BY <1>4
    <3>2. keyOnFile' = keyOnFile
      OBVIOUS
    <3>3. QED
      BY <3>1, <3>2 DEF SendsAreSealed
  <2>2. ASSUME NEW w \in Worker, task'[w].step # "idle", ~task'[w].touched,
               MustBeSealed(task[w].stored.tag)'
        PROVE  Sealed(task'[w].stored)
    <3>1. /\ task[w].step # "idle" /\ ~task[w].touched
          /\ task'[w].stored = task[w].stored
      BY <1>3, <2>2 DEF SameSend
    <3>2. task[w].stored.tag \in Tag
      BY <3>1, Held, EmailIs
    <3>3. MustBeSealed(task[w].stored.tag)
      BY <1>4a, <2>2, <3>1, <3>2 DEF MustBeSealed
    <3>4. QED
      BY <3>1, <3>3 DEF SendsAreSealed
  <2>3. QED
    BY <2>1, <2>2 DEF SendsAreSealed, MustBeSealed, Sealed
<1>11. SealedStaysSealed'
  <2>1. \A k \in Id : stored[k] # None => stored[k].tag \in Tag
    BY Held, EmailIs
  <2>2. "sealed" \notin fate'[emails + 1]
    <3>1. "sealed" \in fate'[emails + 1] <=>
              "sealed" \in fate[emails + 1] \/ "sealed" = "stored"
      BY <1>4
    <3>2. QED
      BY <1>9, <3>1
  <2>3. ASSUME NEW k \in Id \ {i}, stored'[k] # None,
               "sealed" \in fate'[stored'[k].tag], "undone" \notin fate'[stored'[k].tag]
        PROVE  stored'[k].text # "plain" /\ ~stored'[k].html
    <3>1. stored'[k] = stored[k] /\ stored[k] # None /\ stored[k].tag \in Tag
      BY <1>2, <2>1, <2>3
    <3>2. MustBeSealed(stored[k].tag)
      BY <1>4a, <2>3, <3>1 DEF MustBeSealed
    <3>3. QED
      BY <3>1, <3>2 DEF SealedStaysSealed, MustBeSealed
  <2>4. QED
    BY <1>1, <1>2, <2>2, <2>3 DEF SealedStaysSealed
<1>12. DraftsAccounted'
  <2>1. \A t \in 1 .. emails' : t \in Tag /\ (t = emails + 1 \/ t \in 1 .. emails)
    BY <1>4 DEF Tag
  <2>2. QED
    BY <1>4, <2>1 DEF DraftsAccounted
<1>13. SendsAreTrue'
  <2>1. \A t \in Tag : Live(t) => Live(t)'
    BY <1>3 DEF Live, SameSend
  <2>2. \A t \in Tag : Attempted(t) => Attempted(t)'
    BY <1>4, <2>1 DEF Attempted
  <2>3. QED
    BY <1>3, <2>2, Held, EmailIs DEF SendsAreTrue, TypeOK, SameSend
<1>14. KeysAgree'
  BY <1>3 DEF KeysAgree, SignaturesHold
<1>15. Settled'
  BY <1>2, <1>3, WriteTouches DEF Settled
<1>16. QED
  BY <1>5, <1>6, <1>7, <1>8, <1>10, <1>11, <1>12, <1>13, <1>14, <1>15

\* Patch and Destroy change or remove a stored message.
LEMMA ChangeIIn ==
    ASSUME IInv, NEW i \in Id, stored[i] # None,
           NEW x, \/ x = None
                  \/ /\ x \in Email /\ x.thread # None /\ x.tag = stored[i].tag
                     /\ SameBody(x, stored[i]),
           stored' = [stored EXCEPT ![i] = x], task' = Touched(i),
           UNCHANGED <<submissions, pending, subs, job, keyOnFile, dkim, wire, emails, fate,
                       faults>>
    PROVE  IInv'
<1> USE SubmissionAssumption DEF IInv
<1>1. /\ stored'[i] = x
      /\ \A k \in Id \ {i} : stored'[k] = stored[k]
  BY DEF TypeOK
<1>2. /\ task' \in [Worker -> Tasks]
      /\ \A w \in Worker : TouchedBy(i, task'[w], task[w])
      /\ \A w \in Worker : task'[w].step = task[w].step
      /\ \A w \in Worker : task[w].step # "idle" =>
             /\ SameSend(task'[w], task[w]) /\ task'[w].key = task[w].key
             /\ ~task'[w].touched => ~task[w].touched
  BY AfterTouched
<1>3. NoNewSend
  BY <1>2 DEF NoNewSend
<1>4. FateGrows
  BY FateStays
<1>5. \A k \in Id : stored'[k] # None =>
          stored[k] # None /\ stored'[k].tag = stored[k].tag /\ SameBody(stored'[k], stored[k])
  BY <1>1 DEF SameBody
<1>6. TypeOK'
  <2>1. stored' \in [Id -> {None} \cup {m \in Email : m.thread # None}]
    BY <1>1 DEF TypeOK
  <2>2. QED
    BY <1>2, <2>1 DEF TypeOK
<1>7. OneId'
  <2>1. PICK home \in [Tag -> Id \cup {None}] : Homed(home)
    BY DEF OneId
  <2>2. Homed(home)'
    BY <1>2, <1>5, <2>1 DEF Homed, SameSend
  <2>3. QED
    BY <2>1, <2>2 DEF OneId
<1>8. Unmade'
  BY DEF Unmade
<1>9. HtmlIsPlain'
  BY <1>2, <1>5 DEF HtmlIsPlain, Plain, SameSend, SameBody
<1>10. SendsAreSealed'
  BY <1>3, <1>4, SealFrame
<1>11. SealedStaysSealed'
  BY <1>4, <1>5, StoredFrame
<1>12. DraftsAccounted'
  BY DEF DraftsAccounted
<1>13. SendsAreTrue'
  BY <1>2, <1>3, <1>4, TrueFrame DEF SendsAreTrue
<1>14. KeysAgree'
  BY <1>2 DEF KeysAgree, SignaturesHold
<1>15. Settled'
  BY <1>2, WriteTouches DEF Settled
<1>16. QED
  BY <1>6, <1>7, <1>8, <1>9, <1>10, <1>11, <1>12, <1>13, <1>14, <1>15

LEMMA PatchIInv ==
    ASSUME IInv, NEW i \in Id, Patch(i)
    PROVE  IInv'
<1> DEFINE x == [stored[i] EXCEPT !.seen = ~@]
<1>1. stored[i] \in Email /\ stored[i].thread # None
  BY Held DEF Patch, IInv
<1>2. /\ x \in Email /\ x.thread # None /\ x.tag = stored[i].tag
      /\ SameBody(x, stored[i])
  <2>1. x \in Email
    BY <1>1, WithFlags
  <2>2. x.thread = stored[i].thread /\ x.tag = stored[i].tag /\ SameBody(x, stored[i])
    BY <1>1 DEF Email, SameBody
  <2>3. QED
    BY <1>1, <2>1, <2>2
<1>3. stored' = [stored EXCEPT ![i] = x]
  BY DEF Patch
<1> HIDE DEF x
<1>4. QED
  BY <1>2, <1>3, ChangeIIn DEF Patch

LEMMA DestroyIInv ==
    ASSUME IInv, NEW i \in Id, Destroy(i)
    PROVE  IInv'
  BY ChangeIIn DEF Destroy

LEMMA ReceiveIInv ==
    ASSUME IInv, NEW i \in Id, NEW p \in Peer, Receive(i, p)
    PROVE  IInv'
<1> DEFINE m == Fresh(IF keyOnFile THEN "sealed" ELSE "plain", FALSE, p, None)
<1>1. m \in Email /\ m.tag = emails + 1 /\ (m.html => m.text = "plain")
  <2>1. emails \in Nat /\ emails < MaxEmails
    BY DEF IInv, TypeOK, Receive
  <2>2. (IF keyOnFile THEN "sealed" ELSE "plain") \in {"plain", "pgp", "sealed"}
    OBVIOUS
  <2>3. emails + 1 \in Tag
    BY <2>1, SubmissionAssumption DEF Tag
  <2>4. m \in Email /\ m.tag = emails + 1 /\ m.html = FALSE
    BY <2>1, <2>2, <2>3 DEF Fresh, Email
  <2>5. QED
    BY <2>4
<1> HIDE DEF m
<1>2. Put(i, m)
  BY DEF m, Receive
<1>3. QED
  BY <1>1, <1>2, NewMailIInv DEF Receive

LEMMA ImportIInv ==
    ASSUME IInv, NEW i \in Id, NEW p \in Peer, Import(i, p)
    PROVE  IInv'
<1> DEFINE m == Fresh("plain", FALSE, p, None)
<1>1. m \in Email /\ m.tag = emails + 1 /\ (m.html => m.text = "plain")
  <2>1. emails \in Nat /\ emails < MaxEmails
    BY DEF IInv, TypeOK, Import
  <2>2. emails + 1 \in Tag
    BY <2>1, SubmissionAssumption DEF Tag
  <2>3. m \in Email /\ m.tag = emails + 1 /\ m.html = FALSE
    BY <2>1, <2>2 DEF Fresh, Email
  <2>4. QED
    BY <2>3
<1> HIDE DEF m
<1>2. Put(i, m)
  BY DEF m, Import
<1>3. QED
  BY <1>1, <1>2, NewMailIInv DEF Import

LEMMA CopyIInv ==
    ASSUME IInv, NEW i \in Id, NEW j \in Id, Copy(i, j)
    PROVE  IInv'
<1> DEFINE m == IF stored[i] # None THEN stored[i] ELSE pending[i]
<1> DEFINE n == [m EXCEPT !.tag = emails + 1]
<1>1. m \in Email /\ Plain(m)
  BY Held DEF IInv, Copy, HtmlIsPlain
<1>2. emails + 1 \in Tag
  BY SubmissionAssumption DEF IInv, TypeOK, Tag, Copy
<1>3. Put(j, n)
  BY DEF Copy
<1> HIDE DEF m
<1>4. n \in Email /\ n.tag = emails + 1 /\ (n.html => n.text = "plain")
  BY <1>1, <1>2, WithTag DEF Plain
<1> HIDE DEF n
<1>5. QED
  BY <1>3, <1>4, NewMailIInv DEF Copy

LEMMA UploadKeyIInv ==
    ASSUME IInv, UploadKey
    PROVE  IInv'
<1> USE DEF IInv, UploadKey
<1>1. NoNewSend
  BY DEF NoNewSend, SameSend
<1>2. FateGrows
  BY FateStays
<1>3. TypeOK'
  BY DEF TypeOK
<1>4. OneId'
  BY DEF OneId, Homed
<1>5. Unmade' /\ HtmlIsPlain' /\ DraftsAccounted' /\ KeysAgree' /\ Settled'
  BY DEF Unmade, HtmlIsPlain, DraftsAccounted, KeysAgree, SignaturesHold, Settled, Resolve
<1>6. SendsAreSealed'
  BY <1>1, <1>2, SealFrame
<1>7. SealedStaysSealed'
  BY DEF SealedStaysSealed
<1>8. SendsAreTrue'
  BY DEF SendsAreTrue, Attempted, Live
<1>9. QED
  BY <1>3, <1>4, <1>5, <1>6, <1>7, <1>8

LEMMA CreateIInv ==
    ASSUME IInv, NEW i \in Id, NEW text \in {"plain", "pgp"}, NEW html \in BOOLEAN,
           NEW parent \in Id \cup {None}, Create(i, text, html, parent)
    PROVE  IInv'
<1> USE SubmissionAssumption DEF IInv
<1> DEFINE m == [Fresh(text, html, None, parent) EXCEPT !.draft = TRUE]
<1>1. /\ emails \in Nat /\ emails < MaxEmails /\ emails' = emails + 1
      /\ emails + 1 \in Tag
  BY DEF TypeOK, Tag, Create
<1>2. /\ m \in Email /\ m.tag = emails + 1 /\ m.draft /\ m.thread = None
      /\ m.parent = parent /\ m.text = text /\ m.html = html
  BY <1>1 DEF Fresh, Email
<1>3. /\ pending' = [pending EXCEPT ![i] = m]
      /\ parent # None => parent # i
      /\ html => text = "plain"
      /\ UNCHANGED <<stored, subs, job, task, keyOnFile, dkim, wire, changes, faults, submissions>>
  BY DEF Create
<1> HIDE DEF m
<1>4. /\ pending'[i] = m /\ m # None
      /\ \A k \in Id \ {i} : pending'[k] = pending[k]
  BY <1>2, <1>3, EmailAssumption DEF TypeOK
<1>5. pending[i] # None => pending[i].tag \in Tag /\ pending[i].tag <= emails
  <2>1. PICK home \in [Tag -> Id \cup {None}] : Homed(home)
    BY DEF OneId
  <2>2. QED
    BY <2>1, Held, EmailIs DEF Homed
<1>6. FateGrows
  <2>1. CASE pending[i] = None
    BY <2>1, FateStays DEF Create
  <2>2. CASE pending[i] # None
    <3>1. fate' = Mark({pending[i].tag}, "lost")
      BY <2>2 DEF Create
    <3>2. \A t \in Tag : t > emails => t \notin {pending[i].tag}
      BY <1>1, <1>5, <2>2 DEF Tag
    <3>3. QED
      BY <3>1, <3>2, FateMarked
  <2>3. QED
    BY <2>1, <2>2
<1>7. NoNewSend
  BY <1>3 DEF NoNewSend, SameSend
<1>8. TypeOK'
  <2>1. pending' \in [Id -> {None} \cup {k \in Email : k.draft /\ k.thread = None}]
    BY <1>2, <1>3 DEF TypeOK
  <2>2. fate' \in [Tag -> SUBSET {"lost", "stored", "sealed", "ended", "nobody", "cut", "undone"}]
    BY DEF TypeOK, Mark, Create
  <2>3. emails' \in 0 .. MaxEmails
    BY <1>1
  <2>4. QED
    BY <1>3, <2>1, <2>2, <2>3 DEF TypeOK
<1>9. OneId'
  <2>1. PICK home \in [Tag -> Id \cup {None}] : Homed(home)
    BY DEF OneId
  <2> DEFINE next == [home EXCEPT ![emails + 1] = i]
  <2>2. next \in [Tag -> Id \cup {None}]
    BY <2>1
  <2>3. /\ next[emails + 1] = i
        /\ \A t \in Tag : t <= emails => next[t] = home[t]
    BY <1>1, <2>1 DEF Tag
  <2> HIDE DEF next
  <2>4. \A t \in Tag : t <= emails => t <= emails'
    BY <1>1 DEF Tag
  <2>5. \A k \in Id : /\ pending[k] # None => pending[k].tag \in Tag
                      /\ stored[k] # None => stored[k].tag \in Tag
    BY Held, EmailIs
  <2>6. \A w \in Worker :
            /\ job[w].step # "idle" => job[w].msg.tag \in Tag
            /\ task[w].step # "idle" => task[w].outbound.tag \in Tag
    BY Held, EmailIs
  <2>7. \A k \in Id :
            /\ pending'[k] # None => pending'[k].tag <= emails' /\ next[pending'[k].tag] = k
            /\ stored'[k] # None => stored'[k].tag <= emails' /\ next[stored'[k].tag] = k
    BY <1>1, <1>2, <1>3, <1>4, <2>1, <2>3, <2>4, <2>5 DEF Homed
  <2>8. \A w \in Worker :
            /\ job'[w].step # "idle" =>
                  job'[w].msg.tag <= emails' /\ next[job'[w].msg.tag] = job'[w].id
            /\ task'[w].step # "idle" =>
                  /\ task'[w].outbound.tag <= emails'
                  /\ next[task'[w].outbound.tag] = task'[w].id
                  /\ task'[w].stored.tag = task'[w].outbound.tag
    BY <1>3, <2>1, <2>3, <2>4, <2>6 DEF Homed
  <2>9. QED
    BY <2>2, <2>7, <2>8 DEF OneId, Homed
<1>10. Unmade'
  <2>1. \A t \in Tag : t > emails + 1 => t > emails
    BY <1>1 DEF Tag
  <2>2. QED
    BY <1>1, <1>6, <2>1 DEF Unmade, FateGrows
<1>11. HtmlIsPlain'
  BY <1>2, <1>3, <1>4 DEF HtmlIsPlain, Plain
<1>12. SendsAreSealed'
  BY <1>3, <1>6, <1>7, SealFrame
<1>13. SealedStaysSealed'
  BY <1>3, <1>6, StoredFrame DEF SameBody
<1>14. DraftsAccounted'
  <2>1. ASSUME NEW t \in 1 .. emails'
        PROVE  t \in Tag /\ (t = emails + 1 \/ t \in 1 .. emails)
    BY <1>1 DEF Tag
  <2>2. pending[i] # None => "lost" \in fate'[pending[i].tag]
    BY <1>5, MarkIs DEF Create
  <2>3. \A t \in Tag : fate[t] \cap {"lost", "stored"} # {} => fate'[t] \cap {"lost", "stored"} # {}
    BY <1>6 DEF FateGrows
  <2>4. QED
    BY <1>2, <1>3, <1>4, <2>1, <2>2, <2>3 DEF DraftsAccounted
<1>15. SendsAreTrue'
  BY <1>3, <1>6, <1>7, TrueFrame DEF SendsAreTrue, SameSend
<1>16. KeysAgree'
  BY <1>3 DEF KeysAgree, SignaturesHold
<1>17. Settled'
  BY <1>2, <1>3, <1>4 DEF Settled, Resolve
<1>18. QED
  BY <1>8, <1>9, <1>10, <1>11, <1>12, <1>13, <1>14, <1>15, <1>16, <1>17

LEMMA TakeIInv ==
    ASSUME IInv, NEW w \in Worker, NEW i \in Id, NEW to \in SUBSET Peer, Take(w, i, to)
    PROVE  IInv'
<1> USE SubmissionAssumption DEF IInv
<1> DEFINE m == IF pending[i] # None THEN pending[i] ELSE stored[i]
<1> DEFINE j == Job(i, m, to)
<1>1. /\ m # None /\ m \in Email /\ Plain(m)
      /\ m.thread = None => m.parent # i
  BY Held DEF Take, HtmlIsPlain, Settled
<1>2. /\ job' = [job EXCEPT ![w] = j]
      /\ pending' = [pending EXCEPT ![i] = None]
      /\ job[w].step = "idle" /\ task[w].step = "idle"
      /\ UNCHANGED <<stored, subs, task, keyOnFile, dkim, wire, emails, fate, changes, faults>>
  BY DEF Take
<1>3. \A t : pending[i] # None /\ pending[i].tag = t => m.tag = t
  OBVIOUS
<1>4. ASSUME NEW home, Homed(home)
      PROVE  m.tag <= emails /\ home[m.tag] = i
  BY <1>1, <1>4 DEF Homed
<1> HIDE DEF m
<1>5. /\ j \in Jobs /\ j.step = "hook" /\ j.id = i /\ j.msg = m
  BY <1>1 DEF Job, Jobs
<1> HIDE DEF j
<1>6. /\ job' \in [Worker -> Jobs] /\ job'[w] = j
      /\ \A v \in Worker \ {w} : job'[v] = job[v]
  BY <1>2, <1>5 DEF TypeOK
<1>7. /\ pending'[i] = None
      /\ \A k \in Id \ {i} : pending'[k] = pending[k]
  BY <1>2 DEF TypeOK
<1>8. NoNewSend
  BY <1>2 DEF NoNewSend, SameSend
<1>9. FateGrows
  BY <1>2, FateStays
<1>10. TypeOK'
  <2>1. pending' \in [Id -> {None} \cup {k \in Email : k.draft /\ k.thread = None}]
    BY <1>2 DEF TypeOK
  <2>2. QED
    BY <1>2, <1>6, <2>1 DEF TypeOK
<1>11. OneId'
  <2>1. PICK home \in [Tag -> Id \cup {None}] : Homed(home)
    BY DEF OneId
  <2>2. Homed(home)'
    BY <1>2, <1>4, <1>5, <1>6, <1>7, <2>1 DEF Homed
  <2>3. QED
    BY <2>1, <2>2 DEF OneId
<1>12. Unmade'
  BY <1>2 DEF Unmade
<1>13. HtmlIsPlain'
  BY <1>1, <1>2, <1>5, <1>6, <1>7 DEF HtmlIsPlain, Plain
<1>14. SendsAreSealed'
  BY <1>2, <1>8, <1>9, SealFrame
<1>15. SealedStaysSealed'
  BY <1>2 DEF SealedStaysSealed
<1>16. DraftsAccounted'
  BY <1>2, <1>3, <1>5, <1>6, <1>7 DEF DraftsAccounted
<1>17. SendsAreTrue'
  BY <1>2, <1>5, <1>6, <1>8, <1>9, TrueFrame DEF SendsAreTrue, SameSend
<1>18. KeysAgree'
  BY <1>2 DEF KeysAgree, SignaturesHold
<1>19. Settled'
  BY <1>1, <1>2, <1>5, <1>6, <1>7 DEF Settled, Resolve
<1>20. QED
  BY <1>10, <1>11, <1>12, <1>13, <1>14, <1>15, <1>16, <1>17, <1>18, <1>19

\* The submission ends without a send: Refuse and PutFails.
LEMMA NotCreatedIInv ==
    ASSUME IInv, NEW w \in Worker, job[w].step = "hook",
           job' = [job EXCEPT ![w] = Idle], fate' = Mark({job[w].msg.tag}, "lost"),
           UNCHANGED <<pending, stored, subs, task, keyOnFile, dkim, wire, emails>>
    PROVE  IInv'
<1> USE SubmissionAssumption DEF IInv
<1>1. /\ job' \in [Worker -> Jobs] /\ job'[w] = Idle
      /\ \A v \in Worker \ {w} : job'[v] = job[v]
  BY DEF TypeOK, Jobs
<1>2. job[w].msg.tag \in Tag /\ job[w].msg.tag <= emails
  <2>1. PICK home \in [Tag -> Id \cup {None}] : Homed(home)
    BY DEF OneId
  <2>2. QED
    BY <2>1, Held, EmailIs DEF Homed
<1>3. FateGrows
  <2>1. \A t \in Tag : t > emails => t \notin {job[w].msg.tag}
    BY <1>2 DEF TypeOK, Tag
  <2>2. QED
    BY <2>1, FateMarked
<1>4. NoNewSend
  BY DEF NoNewSend, SameSend
<1>5. "lost" \in fate'[job[w].msg.tag]
  BY <1>2, MarkHas
<1>6. TypeOK'
  <2>1. fate' \in [Tag -> SUBSET {"lost", "stored", "sealed", "ended", "nobody", "cut", "undone"}]
    BY DEF TypeOK, Mark
  <2>2. QED
    BY <1>1, <2>1 DEF TypeOK
<1>7. OneId'
  BY <1>1 DEF OneId, Homed, Idle
<1>8. Unmade'
  BY <1>3 DEF Unmade, FateGrows
<1>9. HtmlIsPlain'
  BY <1>1 DEF HtmlIsPlain, Plain, Idle
<1>10. SendsAreSealed'
  BY <1>3, <1>4, SealFrame
<1>11. SealedStaysSealed'
  BY <1>3, StoredFrame DEF SameBody
<1>12. DraftsAccounted'
  <2>1. \A t \in Tag : fate[t] \cap {"lost", "stored"} # {} => fate'[t] \cap {"lost", "stored"} # {}
    BY <1>3 DEF FateGrows
  <2>2. \A t \in 1 .. emails : t \in Tag
    BY DEF TypeOK, Tag
  <2>3. QED
    BY <1>1, <1>5, <2>1, <2>2 DEF DraftsAccounted
<1>13. SendsAreTrue'
  BY <1>1, <1>3, <1>4, TrueFrame DEF SendsAreTrue, SameSend, Idle
<1>14. KeysAgree'
  BY DEF KeysAgree, SignaturesHold
<1>15. Settled'
  BY <1>1 DEF Settled, Resolve, Idle
<1>16. QED
  BY <1>6, <1>7, <1>8, <1>9, <1>10, <1>11, <1>12, <1>13, <1>14, <1>15

LEMMA RecordIInv ==
    ASSUME IInv, NEW w \in Worker, Record(w)
    PROVE  IInv'
<1> USE SubmissionAssumption DEF IInv
<1>1. /\ job' \in [Worker -> Jobs] /\ job'[w] = Idle
      /\ \A v \in Worker \ {w} : job'[v] = job[v]
      /\ job[w].step = "record" /\ subs' = subs \cup {job[w].msg.tag}
      /\ UNCHANGED <<pending, stored, task, keyOnFile, dkim, wire, emails, fate>>
  BY DEF TypeOK, Jobs, Record
<1>2. job[w].msg.tag \in Tag
  BY <1>1, Held, EmailIs
<1>3. TypeOK'
  BY <1>1, <1>2 DEF TypeOK
<1>4. OneId'
  BY <1>1 DEF OneId, Homed, Idle
<1>5. Unmade' /\ SealedStaysSealed'
  BY <1>1 DEF Unmade, SealedStaysSealed
<1>6. HtmlIsPlain'
  BY <1>1 DEF HtmlIsPlain, Plain, Idle
<1>7. SendsAreSealed'
  BY <1>1 DEF SendsAreSealed, MustBeSealed, Sealed
<1>8. DraftsAccounted'
  BY <1>1 DEF DraftsAccounted
<1>9. SendsAreTrue'
  <2>1. \A t : Attempted(t)' <=> Attempted(t)
    BY <1>1 DEF Attempted, Live
  <2>2. QED
    BY <1>1, <2>1 DEF SendsAreTrue, Idle
<1>10. KeysAgree'
  BY <1>1 DEF KeysAgree, SignaturesHold
<1>11. Settled'
  BY <1>1 DEF Settled, Resolve, Idle
<1>12. QED
  BY <1>3, <1>4, <1>5, <1>6, <1>7, <1>8, <1>9, <1>10, <1>11

\* All but the keys, when one send goes on or ends.
LEMMA SendFrame ==
    ASSUME IInv, NEW w \in Worker, task[w].step # "idle", NEW n \in Tasks,
           n.step = "idle" \/ (SameSend(n, task[w]) /\ n.touched = task[w].touched),
           task' = [task EXCEPT ![w] = n],
           n.step \in {"idle", "back"} => fate'[task[w].outbound.tag] \cap {"ended", "nobody", "cut"} # {},
           fate' \in [Tag -> SUBSET {"lost", "stored", "sealed", "ended", "nobody", "cut", "undone"}],
           FateGrows, dkim' \in Worker \cup {None, Torn},
           UNCHANGED <<pending, stored, subs, job, keyOnFile, emails>>
    PROVE  /\ TypeOK' /\ OneId' /\ Unmade' /\ HtmlIsPlain' /\ SendsAreSealed'
           /\ SealedStaysSealed' /\ DraftsAccounted' /\ SendsAreTrue' /\ Settled'
<1> USE SubmissionAssumption DEF IInv
<1>1. /\ task' \in [Worker -> Tasks] /\ task'[w] = n
      /\ \A v \in Worker \ {w} : task'[v] = task[v]
  BY DEF TypeOK
<1>2. NoNewSend
  BY <1>1 DEF NoNewSend, SameSend
<1>3. TypeOK'
  BY <1>1 DEF TypeOK
<1>4. OneId'
  <2>1. PICK home \in [Tag -> Id \cup {None}] : Homed(home)
    BY DEF OneId
  <2>2. Homed(home)'
    BY <1>1, <2>1 DEF Homed, SameSend
  <2>3. QED
    BY <2>1, <2>2 DEF OneId
<1>5. Unmade'
  BY DEF Unmade, FateGrows
<1>6. HtmlIsPlain'
  BY <1>1 DEF HtmlIsPlain, Plain, SameSend
<1>7. SendsAreSealed'
  BY <1>2, SealFrame
<1>8. SealedStaysSealed'
  BY StoredFrame DEF SameBody
<1>9. DraftsAccounted'
  <2>1. \A t \in Tag : fate[t] \cap {"lost", "stored"} # {} => fate'[t] \cap {"lost", "stored"} # {}
    BY DEF FateGrows
  <2>2. \A t \in 1 .. emails : t \in Tag
    BY DEF TypeOK, Tag
  <2>3. QED
    BY <2>1, <2>2 DEF DraftsAccounted
<1>10. SendsAreTrue'
  <2>1. \A v \in Worker : task[v].step \in {"build", "generate", "deliver"} =>
            \/ /\ task'[v].step \in {"build", "generate", "deliver"}
               /\ SameSend(task'[v], task[v])
            \/ fate'[task[v].outbound.tag] \cap {"ended", "nobody", "cut"} # {}
    BY <1>1, TaskIs DEF SameSend
  <2>2. \A v \in Worker : job'[v].step = "hook" => task'[v].step = "idle"
    BY <1>1 DEF SendsAreTrue
  <2>3. QED
    BY <1>2, <2>1, <2>2, TrueFrame
<1>11. Settled'
  <2>1. ASSUME NEW v \in Worker, task'[v].step # "idle"
        PROVE  /\ task[v].step # "idle"
               /\ task'[v].id = task[v].id /\ task'[v].stored = task[v].stored
               /\ task'[v].touched = task[v].touched
    BY <1>1, <2>1 DEF SameSend
  <2>2. \A i, m : Resolve(i, m)' = Resolve(i, m)
    BY DEF Resolve
  <2>3. QED
    BY <2>1, <2>2 DEF Settled
<1>12. QED
  BY <1>3, <1>4, <1>5, <1>6, <1>7, <1>8, <1>9, <1>10, <1>11

\* What the end of a send's attempt says of its message.
LEMMA EndedIs ==
    ASSUME IInv, NEW w \in Worker, task[w].step # "idle", NEW n, NEW how \in {"ended", "nobody"}, Ends(w, n, how)
    PROVE  /\ task' = [task EXCEPT ![w] = n]
           /\ fate'[task[w].outbound.tag] \cap {"ended", "nobody", "cut"} # {}
           /\ fate' \in [Tag -> SUBSET {"lost", "stored", "sealed", "ended", "nobody", "cut", "undone"}]
           /\ FateGrows
<1> USE SubmissionAssumption DEF IInv
<1>1. task' = [task EXCEPT ![w] = n] /\ fate' = Mark({task[w].outbound.tag}, how)
  BY DEF Ends
<1>2. task[w].outbound.tag \in Tag /\ task[w].outbound.tag <= emails
  <2>1. PICK home \in [Tag -> Id \cup {None}] : Homed(home)
    BY DEF OneId
  <2>2. QED
    BY <2>1, Held, EmailIs DEF Homed
<1>3. how \in fate'[task[w].outbound.tag]
  BY <1>1, <1>2, MarkHas
<1>4. FateGrows
  <2>1. \A t \in Tag : t > emails => t \notin {task[w].outbound.tag}
    BY <1>2 DEF TypeOK, Tag
  <2>2. QED
    BY <1>1, <2>1, FateMarked
<1>5. fate' \in [Tag -> SUBSET {"lost", "stored", "sealed", "ended", "nobody", "cut", "undone"}]
  BY <1>1 DEF TypeOK, Mark
<1>6. QED
  BY <1>1, <1>3, <1>4, <1>5

LEMMA NobodyToSendToIInv ==
    ASSUME IInv, NEW w \in Worker, NobodyToSendTo(w)
    PROVE  IInv'
<1>1. Idle \in Tasks /\ Idle.step = "idle"
  BY DEF Tasks, Idle
<1>2. /\ task[w].step # "idle" /\ Ends(w, Idle, "nobody")
      /\ UNCHANGED <<pending, stored, subs, job, keyOnFile, dkim, wire, emails>>
  BY DEF NobodyToSendTo
<1>3. KeysAgree'
  BY <1>1, <1>2 DEF IInv, TypeOK, KeysAgree, SignaturesHold, Ends
<1>4. QED
  BY <1>1, <1>2, <1>3, EndedIs, SendFrame DEF IInv, TypeOK

LEMMA LoadKeyIInv ==
    ASSUME IInv, NEW w \in Worker, LoadKey(w)
    PROVE  IInv'
<1> USE SubmissionAssumption DEF IInv
<1> DEFINE n == IF dkim \in Worker THEN [task[w] EXCEPT !.step = "deliver", !.key = dkim]
                ELSE [task[w] EXCEPT !.step = "generate"]
<1>1. /\ task[w].step = "build" /\ task' = [task EXCEPT ![w] = n]
      /\ UNCHANGED <<pending, stored, subs, job, keyOnFile, dkim, wire, emails, fate>>
  BY DEF LoadKey
<1>2. /\ n \in Tasks /\ SameSend(n, task[w]) /\ n.touched = task[w].touched
      /\ n.step \in {"generate", "deliver"}
      /\ n.step = "deliver" => n.key = dkim
  <2>1. task[w] \in Tasks
    BY Held
  <2>2. CASE dkim \in Worker
    <3>1. n = [task[w] EXCEPT !.step = "deliver", !.key = dkim]
      BY <2>2
    <3>2. dkim \in Worker \cup {None}
      BY <2>2
    <3> HIDE DEF n
    <3>3. QED
      BY <1>1, <2>1, <3>1, <3>2, TaskWithKey
  <2>3. CASE dkim \notin Worker
    BY <1>1, <2>1, <2>3, TaskWithStep
  <2>4. QED
    BY <2>2, <2>3
<1> HIDE DEF n
<1>3. FateGrows
  BY <1>1, FateStays
<1>4. KeysAgree'
  BY <1>1, <1>2 DEF TypeOK, KeysAgree, SignaturesHold
<1>5. IInv'
  <2>1. /\ task[w].step # "idle" /\ n.step \notin {"idle", "back"}
        /\ fate' \in [Tag -> SUBSET {"lost", "stored", "sealed", "ended", "nobody", "cut", "undone"}]
        /\ dkim' \in Worker \cup {None, Torn}
    BY <1>1, <1>2 DEF TypeOK
  <2>2. QED
    BY <1>1, <1>2, <1>3, <1>4, <2>1, SendFrame
<1>6. QED
  BY <1>5

LEMMA WriteKeyIInv ==
    ASSUME IInv, NEW w \in Worker, WriteKey(w)
    PROVE  IInv'
<1> USE SubmissionAssumption DEF IInv
<1> DEFINE key == IF dkim = None THEN w ELSE None
<1> DEFINE n == [task[w] EXCEPT !.step = "deliver", !.key = key]
<1>1. /\ task[w].step = "generate" /\ task' = [task EXCEPT ![w] = n]
      /\ dkim' = IF dkim = None THEN w ELSE dkim
      /\ UNCHANGED <<pending, stored, subs, job, keyOnFile, wire, emails, fate>>
  BY DEF WriteKey
<1>2. key \in Worker \cup {None} /\ key \in {None, dkim'}
  BY <1>1
<1> HIDE DEF key
<1>3. /\ n \in Tasks /\ SameSend(n, task[w]) /\ n.touched = task[w].touched
      /\ n.step = "deliver" /\ n.key = key
  <2>1. task[w] \in Tasks /\ task[w].step # "idle"
    BY <1>1, Held
  <2>2. QED
    BY <1>2, <2>1, TaskWithKey
<1> HIDE DEF n
<1>4. FateGrows
  BY <1>1, FateStays
<1>5. KeysAgree'
  <2>1. dkim' = dkim \/ dkim = None
    BY <1>1
  <2>2. task'[w] = n /\ \A v \in Worker \ {w} : task'[v] = task[v]
    BY <1>1 DEF TypeOK
  <2>3. \A v \in Worker : task'[v].step = "deliver" => task'[v].key \in {None, dkim'}
    BY <1>2, <1>3, <2>1, <2>2 DEF KeysAgree
  <2>4. SignaturesHold'
    BY <1>1, <2>1 DEF KeysAgree, SignaturesHold
  <2>5. QED
    BY <2>3, <2>4 DEF KeysAgree
<1>6. dkim' \in Worker \cup {None, Torn}
  BY <1>1 DEF TypeOK
<1>7. QED
  BY <1>1, <1>3, <1>4, <1>5, <1>6, SendFrame DEF TypeOK

\* Whatever is assembled is signed with that key over what leaves, or not at all.
LEMMA AssembleIs ==
    ASSUME NEW m, NEW key
    PROVE  LET x == Assemble(m, key)
           IN  x.signer # None => x.signer = key /\ x.over = x.wrapped
  BY DEF Assemble, Sign, Wrap, Build

LEMMA SendIInv ==
    ASSUME IInv, NEW w \in Worker, Send(w)
    PROVE  IInv'
<1> USE SubmissionAssumption DEF IInv
<1>1. PICK n \in {[task[w] EXCEPT !.step = "back"], Idle} : Ends(w, n, "ended")
  BY DEF Send
<1>2. /\ task[w].step = "deliver" /\ wire' = Assemble(task[w].outbound, task[w].key)
      /\ UNCHANGED <<pending, stored, subs, job, keyOnFile, dkim, emails>>
  BY DEF Send
<1>3. /\ n \in Tasks /\ n.step \in {"idle", "back"}
      /\ n.step = "idle" \/ (SameSend(n, task[w]) /\ n.touched = task[w].touched)
  <2>1. CASE n = Idle
    BY <2>1 DEF Tasks, Idle
  <2>2. CASE n = [task[w] EXCEPT !.step = "back"]
    BY <1>2, <2>2, Held, TaskWithStep
  <2>3. QED
    BY <2>1, <2>2
<1>4. task' = [task EXCEPT ![w] = n]
  BY <1>1 DEF Ends
<1>5. KeysAgree'
  <2>1. task'[w] = n /\ \A v \in Worker \ {w} : task'[v] = task[v]
    BY <1>4 DEF TypeOK
  <2>2. wire'.signer # None => wire'.signer = dkim' /\ wire'.over = wire'.wrapped
    BY <1>2, AssembleIs DEF KeysAgree
  <2>3. QED
    BY <1>2, <1>3, <2>1, <2>2 DEF KeysAgree, SignaturesHold
<1>6. QED
  BY <1>1, <1>2, <1>3, <1>5, EndedIs, SendFrame DEF TypeOK

LEMMA PutBackIInv ==
    ASSUME IInv, NEW w \in Worker, PutBack(w)
    PROVE  IInv'
<1> USE SubmissionAssumption DEF IInv
<1> DEFINE t == task[w]
<1> DEFINE n == Resolve(t.id, t.stored)
<1>1. /\ t.step = "back" /\ Put(t.id, t.stored)
      /\ fate' = IF t.touched THEN Mark({t.stored.tag}, "undone") ELSE fate
      /\ task' = [Touched(t.id) EXCEPT ![w] = Idle]
      /\ UNCHANGED <<pending, subs, job, keyOnFile, dkim, wire, emails>>
  BY DEF PutBack
<1>2. t.id \in Id /\ t.stored \in Email /\ t.stored.tag \in Tag /\ t.touched \in BOOLEAN
  BY <1>1, Held, EmailIs
<1>3. /\ n \in Email /\ n # None /\ n.thread # None
      /\ n.tag = t.stored.tag /\ SameBody(n, t.stored)
  BY <1>2, ResolveIs, EmailIs DEF SameMessage
<1>4. /\ stored' = [stored EXCEPT ![t.id] = n] /\ stored'[t.id] = n
      /\ \A k \in Id \ {t.id} : stored'[k] = stored[k]
  BY <1>1, <1>2 DEF Put, TypeOK
<1> HIDE DEF n
<1>5. Idle \in Tasks /\ Idle.step = "idle"
  BY DEF Tasks, Idle
<1>6. /\ task' \in [Worker -> Tasks] /\ task'[w] = Idle
      /\ \A v \in Worker \ {w} : TouchedBy(t.id, task'[v], task[v])
      /\ \A v \in Worker \ {w} : task'[v].step = task[v].step
      /\ \A v \in Worker \ {w} : task[v].step # "idle" =>
             /\ SameSend(task'[v], task[v]) /\ task'[v].key = task[v].key
             /\ ~task'[v].touched => ~task[v].touched
  BY <1>1, <1>2, <1>5, AfterTouchedBut
<1>7. NoNewSend
  BY <1>5, <1>6 DEF NoNewSend
<1>8. t.stored.tag <= emails /\ \A home : Homed(home) => home[t.stored.tag] = t.id
  BY <1>1 DEF OneId, Homed
<1>9. FateGrows
  <2>1. CASE t.touched
    <3>1. fate' = Mark({t.stored.tag}, "undone")
      BY <1>1, <2>1
    <3>2. \A u \in Tag : u > emails => u \notin {t.stored.tag}
      BY <1>2, <1>8 DEF TypeOK, Tag
    <3>3. QED
      BY <3>1, <3>2, FateMarked
  <2>2. CASE ~t.touched
    BY <1>1, <2>2, FateStays
  <2>3. QED
    BY <2>1, <2>2
<1>10. TypeOK'
  <2>1. stored' \in [Id -> {None} \cup {m \in Email : m.thread # None}]
    BY <1>3, <1>4 DEF TypeOK
  <2>2. fate' \in [Tag -> SUBSET {"lost", "stored", "sealed", "ended", "nobody", "cut", "undone"}]
    BY <1>1 DEF TypeOK, Mark
  <2>3. QED
    BY <1>1, <1>6, <2>1, <2>2 DEF TypeOK
<1>11. OneId'
  <2>1. PICK home \in [Tag -> Id \cup {None}] : Homed(home)
    BY DEF OneId
  <2>2. Homed(home)'
    BY <1>1, <1>3, <1>4, <1>5, <1>6, <1>8, <2>1 DEF Homed, SameSend
  <2>3. QED
    BY <2>1, <2>2 DEF OneId
<1>12. Unmade'
  BY <1>1, <1>9 DEF Unmade, FateGrows
<1>13. HtmlIsPlain'
  BY <1>1, <1>3, <1>4, <1>5, <1>6 DEF HtmlIsPlain, Plain, SameSend, SameBody
<1>14. SendsAreSealed'
  BY <1>1, <1>7, <1>9, SealFrame
<1>15. SealedStaysSealed'
  <2>1. ASSUME "sealed" \in fate'[t.stored.tag], "undone" \notin fate'[t.stored.tag]
        PROVE  Sealed(t.stored)
    <3>1. ~t.touched
      BY <1>1, <1>2, <2>1, MarkHas
    <3>2. MustBeSealed(t.stored.tag)
      BY <1>2, <1>9, <2>1 DEF MustBeSealed, FateGrows
    <3>3. QED
      BY <1>1, <3>1, <3>2 DEF SendsAreSealed
  <2>2. ASSUME NEW k \in Id \ {t.id}, stored'[k] # None,
               "sealed" \in fate'[stored'[k].tag], "undone" \notin fate'[stored'[k].tag]
        PROVE  stored'[k].text # "plain" /\ ~stored'[k].html
    <3>1. stored'[k] = stored[k] /\ stored[k] # None /\ stored[k].tag \in Tag
      BY <1>4, <2>2, Held, EmailIs
    <3>2. "sealed" \in fate[stored[k].tag] /\ "undone" \notin fate[stored[k].tag]
      BY <1>9, <2>2, <3>1 DEF FateGrows
    <3>3. QED
      BY <3>1, <3>2 DEF SealedStaysSealed
  <2>3. QED
    BY <1>3, <1>4, <2>1, <2>2 DEF SealedStaysSealed, Sealed, SameBody
<1>16. DraftsAccounted'
  <2>1. \A u \in Tag : fate[u] \cap {"lost", "stored"} # {} => fate'[u] \cap {"lost", "stored"} # {}
    BY <1>9 DEF FateGrows
  <2>2. \A u \in 1 .. emails : u \in Tag
    BY DEF TypeOK, Tag
  <2>3. QED
    BY <1>1, <2>1, <2>2 DEF DraftsAccounted
<1>17. SendsAreTrue'
  <2>1. \A v \in Worker : task[v].step \in {"build", "generate", "deliver"} =>
            /\ task'[v].step \in {"build", "generate", "deliver"}
            /\ SameSend(task'[v], task[v])
    BY <1>1, <1>6
  <2>2. \A v \in Worker : job'[v].step = "hook" => task'[v].step = "idle"
    BY <1>1, <1>5, <1>6 DEF SendsAreTrue
  <2>3. QED
    BY <1>1, <1>7, <1>9, <2>1, <2>2, TrueFrame
<1>18. KeysAgree'
  BY <1>1, <1>5, <1>6 DEF KeysAgree, SignaturesHold
<1>19. Settled'
  <2>1. \A v \in Worker : task'[v].step # "idle" =>
            /\ task'[v].stored.thread = None => task'[v].stored.parent # task'[v].id
            /\ ~task'[v].touched =>
                   stored'[task'[v].id] = Resolve(task[v].id, task[v].stored)'
    BY <1>2, <1>4, <1>5, <1>6, WriteTouches
  <2>2. QED
    BY <1>1, <2>1 DEF Settled
<1>20. QED
  BY <1>10, <1>11, <1>12, <1>13, <1>14, <1>15, <1>16, <1>17, <1>18, <1>19

LEMMA CrashIInv ==
    ASSUME IInv, Crash
    PROVE  IInv'
<1> USE SubmissionAssumption DEF IInv
<1> DEFINE drafts == {pending[i].tag : i \in {k \in Id : pending[k] # None}}
<1> DEFINE taken == {job[w].msg.tag : w \in {v \in Busy(job) : job[v].step = "hook"}}
<1> DEFINE sent == {task[w].outbound.tag : w \in Busy(task)}
<1>1. /\ pending' = [i \in Id |-> None]
      /\ job' = [w \in Worker |-> Idle] /\ task' = [w \in Worker |-> Idle]
      /\ dkim' = dkim \/ (dkim = None /\ dkim' = Torn)
      /\ fate' = [t \in Tag |-> fate[t]
                      \cup (IF t \in drafts \cup taken THEN {"lost"} ELSE {})
                      \cup (IF t \in sent THEN {"cut"} ELSE {})]
      /\ UNCHANGED <<stored, subs, keyOnFile, wire, emails>>
  BY DEF Crash
<1>2. Idle \in Jobs /\ Idle \in Tasks /\ Idle.step = "idle"
  BY DEF Jobs, Tasks, Idle
<1>3. /\ \A i \in Id : pending[i] # None => pending[i].tag \in drafts
      /\ \A w \in Worker : job[w].step = "hook" => job[w].msg.tag \in taken
      /\ \A w \in Worker : task[w].step # "idle" => task[w].outbound.tag \in sent
  BY DEF Busy
<1>4. \A t \in drafts \cup taken \cup sent : t <= emails
  BY DEF OneId, Homed, Busy
<1> HIDE DEF drafts, taken, sent
<1>5. \A t \in Tag : \A x : x \in fate'[t] <=>
          \/ x \in fate[t]
          \/ t \in drafts \cup taken /\ x = "lost"
          \/ t \in sent /\ x = "cut"
  BY <1>1
<1>6. FateGrows
  <2>1. \A t \in Tag : t > emails => t \notin drafts \cup taken \cup sent
    BY <1>4 DEF TypeOK, Tag
  <2>2. \A t \in Tag : t > emails => fate'[t] = {}
    BY <1>1, <2>1 DEF Unmade
  <2>3. \A t \in Tag : "sealed" \in fate'[t] => "sealed" \in fate[t]
    BY <1>5
  <2>4. QED
    BY <1>5, <2>2, <2>3 DEF FateGrows
<1>7. NoNewSend
  BY <1>1, <1>2 DEF NoNewSend
<1>8. TypeOK'
  <2>1. fate' \in [Tag -> SUBSET {"lost", "stored", "sealed", "ended", "nobody", "cut", "undone"}]
    BY <1>1 DEF TypeOK
  <2>2. QED
    BY <1>1, <1>2, <2>1 DEF TypeOK
<1>9. OneId'
  BY <1>1, <1>2 DEF OneId, Homed
<1>10. Unmade'
  BY <1>1, <1>6 DEF Unmade, FateGrows
<1>11. HtmlIsPlain'
  BY <1>1, <1>2 DEF HtmlIsPlain, Plain
<1>12. SendsAreSealed'
  BY <1>1, <1>6, <1>7, SealFrame
<1>13. SealedStaysSealed'
  BY <1>1, <1>6, StoredFrame DEF SameBody
<1>14. DraftsAccounted'
  <2>1. \A t \in Tag : fate[t] \cap {"lost", "stored"} # {} => fate'[t] \cap {"lost", "stored"} # {}
    BY <1>6 DEF FateGrows
  <2>2. \A t \in Tag : t \in drafts \cup taken => "lost" \in fate'[t]
    BY <1>5
  <2>3. \A t \in 1 .. emails : t \in Tag
    BY DEF TypeOK, Tag
  <2>4. ASSUME NEW t \in 1 .. emails
        PROVE  fate'[t] \cap {"lost", "stored"} # {}
    <3>1. t \in Tag
      BY <2>3
    <3>2. CASE fate[t] \cap {"lost", "stored"} # {}
      BY <2>1, <3>1, <3>2
    <3>3. CASE t \in drafts \cup taken
      BY <2>2, <3>1, <3>3
    <3>4. QED
      BY <1>3, <3>2, <3>3 DEF DraftsAccounted
  <2>5. QED
    BY <1>1, <2>4 DEF DraftsAccounted
<1>15. SendsAreTrue'
  <2>1. \A w \in Worker : task[w].step # "idle" => "cut" \in fate'[task[w].outbound.tag]
    BY <1>3, <1>5, Held, EmailIs
  <2>2. QED
    BY <1>1, <1>2, <1>6, <1>7, <2>1, TrueFrame
<1>16. KeysAgree'
  BY <1>1, <1>2 DEF KeysAgree, SignaturesHold
<1>17. Settled'
  BY <1>1, <1>2 DEF Settled
<1>18. QED
  BY <1>8, <1>9, <1>10, <1>11, <1>12, <1>13, <1>14, <1>15, <1>16, <1>17

LEMMA SubmitIInv ==
    ASSUME IInv, NEW w \in Worker, Submit(w)
    PROVE  IInv'
<1> USE SubmissionAssumption DEF IInv
<1> DEFINE j == job[w]
<1>1. PICK works \in BOOLEAN :
        LET copy == StoredCopy(j.msg, works)
            sealed == j.msg.text = "plain" /\ copy.text = "sealed"
        IN  /\ Put(j.id, copy)
            /\ fate' = [fate EXCEPT ![j.msg.tag] =
                          (@ \ {"ended", "cut", "nobody"})
                            \cup {"stored"} \cup (IF sealed THEN {"sealed"} ELSE {})
                            \cup (IF works THEN {} ELSE {"undone"})]
            /\ task' = [Touched(j.id) EXCEPT ![w] =
                          [step |-> "build", id |-> j.id, outbound |-> j.msg,
                           stored |-> copy, to |-> j.to, key |-> None,
                           touched |-> FALSE]]
  BY DEF Submit
<1>2. /\ j.step = "hook" /\ job' = [job EXCEPT ![w] = [j EXCEPT !.step = "record"]]
      /\ UNCHANGED <<pending, subs, keyOnFile, dkim, wire, emails>>
  BY DEF Submit
<1>3. /\ j \in Jobs /\ j.id \in Id /\ j.msg \in Email /\ j.msg.tag \in Tag /\ j.to \subseteq Peer
      /\ Plain(j.msg) /\ task[w].step = "idle"
  BY <1>2, Held, JobIs, EmailIs DEF HtmlIsPlain, SendsAreTrue
<1> DEFINE tag == j.msg.tag
<1> DEFINE copy == StoredCopy(j.msg, works)
<1> DEFINE n == Resolve(j.id, copy)
<1> DEFINE t == [step |-> "build", id |-> j.id, outbound |-> j.msg, stored |-> copy,
                 to |-> j.to, key |-> None, touched |-> FALSE]
<1> DEFINE sealed == j.msg.text = "plain" /\ copy.text = "sealed"
<1>4. /\ copy \in Email /\ copy.tag = tag /\ copy.parent = j.msg.parent
      /\ copy.thread = j.msg.thread
      /\ Plain(copy)
      /\ keyOnFile /\ works => Sealed(copy)
      /\ sealed => keyOnFile
      /\ j.msg.text # "plain" => Sealed(copy)
  BY <1>3, StoredCopyIs DEF SameMessage, SameBody, Plain, Sealed
<1> HIDE DEF copy
<1>5. /\ n \in Email /\ n # None /\ n.thread # None /\ n.tag = tag /\ SameBody(n, copy)
  BY <1>3, <1>4, ResolveIs, EmailIs DEF SameMessage
<1>6. /\ stored' = [stored EXCEPT ![j.id] = n] /\ stored'[j.id] = n
      /\ \A k \in Id \ {j.id} : stored'[k] = stored[k]
  BY <1>1, <1>3 DEF Put, TypeOK, copy
<1>7. /\ t \in Tasks /\ t.step = "build" /\ t.id = j.id /\ t.outbound = j.msg
      /\ t.stored = copy /\ ~t.touched
  BY <1>3, <1>4 DEF Tasks
<1>8. /\ task' \in [Worker -> Tasks] /\ task'[w] = t
      /\ \A v \in Worker \ {w} : TouchedBy(j.id, task'[v], task[v])
      /\ \A v \in Worker \ {w} : task'[v].step = task[v].step
      /\ \A v \in Worker \ {w} : task[v].step # "idle" =>
             /\ SameSend(task'[v], task[v]) /\ task'[v].key = task[v].key
             /\ ~task'[v].touched => ~task[v].touched
  <2>1. task' = [Touched(j.id) EXCEPT ![w] = t]
    BY <1>1 DEF copy
  <2> HIDE DEF t
  <2>2. QED
    BY <1>3, <1>7, <2>1, AfterTouchedBut
<1> HIDE DEF t
<1>9. /\ \A u \in Tag \ {tag} : fate'[u] = fate[u]
      /\ fate'[tag] = (fate[tag] \ {"ended", "nobody", "cut"}) \cup {"stored"}
                          \cup (IF sealed THEN {"sealed"} ELSE {})
                          \cup (IF works THEN {} ELSE {"undone"})
      /\ fate' \in [Tag -> SUBSET {"lost", "stored", "sealed", "ended", "nobody", "cut", "undone"}]
  BY <1>1, <1>3 DEF copy, TypeOK
<1>10. /\ "stored" \in fate'[tag]
       /\ "sealed" \in fate'[tag] => sealed \/ "sealed" \in fate[tag]
       /\ "undone" \notin fate'[tag] => works /\ "undone" \notin fate[tag]
  BY <1>9
<1> HIDE DEF sealed, n
<1>11. /\ job' \in [Worker -> Jobs] /\ job'[w].step = "record"
       /\ job'[w].id = j.id /\ job'[w].msg = j.msg
       /\ \A v \in Worker \ {w} : job'[v] = job[v]
  <2> DEFINE next == [j EXCEPT !.step = "record"]
  <2>1. /\ next \in Jobs /\ next.step = "record" /\ next.id = j.id /\ next.msg = j.msg
    BY <1>2, <1>3 DEF Jobs, Idle
  <2>2. job' = [job EXCEPT ![w] = next]
    BY <1>2
  <2> HIDE DEF next
  <2>3. QED
    BY <2>1, <2>2 DEF TypeOK
<1>12. tag <= emails /\ \A home : Homed(home) => home[tag] = j.id
  BY <1>2 DEF OneId, Homed
\* A message that was ever sealed is sealed by a submission that works.
<1>13. "sealed" \in fate'[tag] /\ "undone" \notin fate'[tag] => Sealed(copy)
  <2>1. "sealed" \in fate[tag] => keyOnFile
    BY <1>3 DEF SendsAreSealed
  <2>2. QED
    BY <1>4, <1>10, <2>1
<1>14. TypeOK'
  <2>1. stored' \in [Id -> {None} \cup {m \in Email : m.thread # None}]
    BY <1>5, <1>6 DEF TypeOK
  <2>2. QED
    BY <1>2, <1>8, <1>9, <1>11, <2>1 DEF TypeOK
<1>15. OneId'
  <2>1. PICK home \in [Tag -> Id \cup {None}] : Homed(home)
    BY DEF OneId
  <2>2. \A k \in Id :
            /\ pending'[k] # None => pending'[k].tag <= emails' /\ home[pending'[k].tag] = k
            /\ stored'[k] # None => stored'[k].tag <= emails' /\ home[stored'[k].tag] = k
    BY <1>2, <1>5, <1>6, <1>12, <2>1 DEF Homed
  <2>3. \A v \in Worker :
            /\ job'[v].step # "idle" =>
                  job'[v].msg.tag <= emails' /\ home[job'[v].msg.tag] = job'[v].id
            /\ task'[v].step # "idle" =>
                  /\ task'[v].outbound.tag <= emails'
                  /\ home[task'[v].outbound.tag] = task'[v].id
                  /\ task'[v].stored.tag = task'[v].outbound.tag
    BY <1>2, <1>4, <1>7, <1>8, <1>11, <1>12, <2>1 DEF Homed, SameSend
  <2>4. QED
    BY <2>1, <2>2, <2>3 DEF OneId, Homed
<1>16. Unmade'
  <2>1. \A u \in Tag : u > emails => u # tag
    BY <1>12 DEF TypeOK, Tag
  <2>2. QED
    BY <1>2, <1>9, <2>1 DEF Unmade
<1>17. HtmlIsPlain'
  BY <1>2, <1>3, <1>4, <1>5, <1>6, <1>7, <1>8, <1>11 DEF HtmlIsPlain, Plain, SameSend, SameBody
<1>18. SendsAreSealed'
  <2>1. \A u \in Tag : "sealed" \in fate'[u] => keyOnFile
    BY <1>4, <1>9, <1>10 DEF SendsAreSealed
  <2>2. ASSUME NEW v \in Worker, task'[v].step # "idle", ~task'[v].touched,
               "sealed" \in fate'[task'[v].stored.tag],
               "undone" \notin fate'[task'[v].stored.tag]
        PROVE  Sealed(task'[v].stored)
    <3>1. CASE v = w
      BY <1>4, <1>7, <1>8, <1>13, <2>2, <3>1
    <3>2. CASE v # w
      <4>1. /\ task[v].step # "idle" /\ ~task[v].touched
            /\ task'[v].stored = task[v].stored /\ task[v].id # j.id
        BY <1>8, <2>2, <3>2 DEF SameSend, TouchedBy
      <4>2. task[v].stored.tag \in Tag \ {tag}
        <5>1. PICK home \in [Tag -> Id \cup {None}] : Homed(home)
          BY DEF OneId
        <5>2. home[task[v].stored.tag] = task[v].id
          BY <4>1, <5>1 DEF Homed
        <5>3. QED
          BY <1>12, <4>1, <5>1, <5>2, Held, EmailIs
      <4>3. MustBeSealed(task[v].stored.tag)
        BY <1>9, <2>2, <4>1, <4>2 DEF MustBeSealed
      <4>4. QED
        BY <4>1, <4>3 DEF SendsAreSealed
    <3>3. QED
      BY <3>1, <3>2
  <2>3. keyOnFile' = keyOnFile
    BY <1>2
  <2>4. QED
    BY <2>1, <2>2, <2>3 DEF SendsAreSealed, MustBeSealed, Sealed
<1>19. SealedStaysSealed'
  <2>1. ASSUME NEW k \in Id \ {j.id}, stored'[k] # None,
               "sealed" \in fate'[stored'[k].tag], "undone" \notin fate'[stored'[k].tag]
        PROVE  stored'[k].text # "plain" /\ ~stored'[k].html
    <3>1. stored'[k] = stored[k] /\ stored[k] # None
      BY <1>6, <2>1
    <3>2. stored[k].tag \in Tag \ {tag}
      <4>1. PICK home \in [Tag -> Id \cup {None}] : Homed(home)
        BY DEF OneId
      <4>2. home[stored[k].tag] = k
        BY <3>1, <4>1 DEF Homed
      <4>3. QED
        BY <1>12, <3>1, <4>1, <4>2, Held, EmailIs
    <3>3. QED
      BY <1>9, <2>1, <3>1, <3>2 DEF SealedStaysSealed
  <2>2. QED
    BY <1>5, <1>6, <1>13, <2>1 DEF SealedStaysSealed, Sealed, SameBody
<1>20. DraftsAccounted'
  <2>1. \A u \in 1 .. emails : u \in Tag
    BY DEF TypeOK, Tag
  <2>2. emails' = emails /\ pending' = pending
    BY <1>2
  <2> SUFFICES ASSUME NEW u \in 1 .. emails
               PROVE  \/ fate'[u] \cap {"lost", "stored"} # {}
                      \/ \E i \in Id : pending[i] # None /\ pending[i].tag = u
                      \/ \E v \in Worker : job'[v].step = "hook" /\ job'[v].msg.tag = u
    BY <2>2 DEF DraftsAccounted
  <2>3. CASE u = tag
    BY <1>10, <2>3
  <2>4. CASE u # tag
    <3>1. fate'[u] = fate[u]
      BY <1>9, <2>1, <2>4
    <3>2. \A v \in Worker : job[v].step = "hook" /\ job[v].msg.tag = u => v # w
      BY <2>4
    <3>3. \A v \in Worker : job[v].step = "hook" /\ job[v].msg.tag = u => job'[v] = job[v]
      BY <1>11, <3>2
    <3>4. QED
      BY <3>1, <3>3 DEF DraftsAccounted
  <2>5. QED
    BY <2>3, <2>4
<1>21. SendsAreTrue'
  <2>1. Attempted(tag)'
    BY <1>2, <1>7, <1>8, <1>10, <1>11 DEF Attempted, Live
  <2>2. \A u \in Tag \ {tag} : Attempted(u) => Attempted(u)'
    BY <1>3, <1>8, <1>9 DEF Attempted, Live, SameSend
  <2>3. \A u \in Tag : Attempted(u) => Attempted(u)'
    BY <1>11, <2>1, <2>2
  <2>4. /\ subs \subseteq Tag
        /\ \A v \in Worker : job[v].step = "record" => job[v].msg.tag \in Tag
        /\ \A v \in Worker : task[v].step # "idle" => task[v].outbound.tag \in Tag
    BY Held, EmailIs DEF TypeOK
  <2>5. \A u \in subs' : Attempted(u)'
    BY <1>2, <2>3, <2>4 DEF SendsAreTrue
  <2>6. ASSUME NEW v \in Worker \ {w}
        PROVE  /\ job'[v].step = "record" => Attempted(job[v].msg.tag)'
               /\ task'[v].step # "idle" => Attempted(task[v].outbound.tag)'
               /\ job'[v].step = "hook" => task'[v].step = "idle"
    BY <1>8, <1>11, <2>3, <2>4 DEF SendsAreTrue, SameSend
  <2>7. QED
    BY <1>7, <1>8, <1>11, <2>1, <2>5, <2>6 DEF SendsAreTrue
<1>22. KeysAgree'
  BY <1>2, <1>7, <1>8 DEF KeysAgree, SignaturesHold
<1>23. Settled'
  <2>1. ASSUME NEW v \in Worker \ {w}, task'[v].step # "idle"
        PROVE  /\ task'[v].stored.thread = None => task'[v].stored.parent # task'[v].id
               /\ ~task'[v].touched =>
                      stored'[task'[v].id] = Resolve(task[v].id, task[v].stored)'
    BY <1>3, <1>6, <1>8, <2>1, WriteTouches
  <2>2. copy.thread = None => copy.parent # j.id
    BY <1>2, <1>4 DEF Settled
  <2>3. stored'[task'[w].id] = Resolve(task[w].id, task[w].stored)'
    <3>1. copy.parent \in Id \cup {None}
      BY <1>4, EmailIs
    <3>2. task'[w].id = j.id /\ task'[w].stored = copy
      BY <1>7, <1>8
    <3>3. QED
      BY <1>6, <2>2, <3>1, <3>2 DEF Resolve, n
  <2>4. QED
    BY <1>2, <1>7, <1>8, <1>11, <2>1, <2>2, <2>3 DEF Settled
<1>24. QED
  BY <1>14, <1>15, <1>16, <1>17, <1>18, <1>19, <1>20, <1>21, <1>22, <1>23

-----------------------------------------------------------------------------
LEMMA InitIInv ==
    ASSUME Init
    PROVE  IInv
<1> USE SubmissionAssumption
<1>1. Idle.step = "idle" /\ Idle \in Jobs /\ Idle \in Tasks
  BY DEF Idle, Jobs, Tasks
<1>2. /\ \A i \in Id : pending[i] = None /\ stored[i] = None
      /\ \A w \in Worker : job[w] = Idle /\ task[w] = Idle
      /\ subs = {} /\ dkim = None /\ wire = None /\ emails = 0
      /\ \A t \in Tag : fate[t] = {}
  BY DEF Init
<1>3. TypeOK
  BY <1>1 DEF Init, TypeOK
<1>4. OneId
  <2>1. [t \in Tag |-> None] \in [Tag -> Id \cup {None}]
    OBVIOUS
  <2>2. Homed([t \in Tag |-> None])
    BY <1>1, <1>2 DEF Homed
  <2>3. QED
    BY <2>1, <2>2 DEF OneId
<1>5. Unmade /\ SealedStaysSealed
  BY <1>2 DEF Unmade, SealedStaysSealed
<1>6. HtmlIsPlain /\ Settled
  BY <1>1, <1>2 DEF HtmlIsPlain, Settled
<1>7. SendsAreSealed
  BY <1>1, <1>2 DEF SendsAreSealed, MustBeSealed
<1>8. DraftsAccounted
  BY <1>2 DEF DraftsAccounted
<1>9. SendsAreTrue
  BY <1>1, <1>2 DEF SendsAreTrue
<1>10. KeysAgree
  BY <1>1, <1>2 DEF KeysAgree, SignaturesHold
<1>11. QED
  BY <1>3, <1>4, <1>5, <1>6, <1>7, <1>8, <1>9, <1>10 DEF IInv

LEMMA NextIInv ==
    ASSUME IInv, [Next]_vars
    PROVE  IInv'
<1>1. ASSUME NEW i \in Id, NEW p \in Peer, Receive(i, p) \/ Import(i, p)
      PROVE  IInv'
  BY <1>1, ReceiveIInv, ImportIInv
<1>2. ASSUME NEW i \in Id, NEW j \in Id, Copy(i, j)
      PROVE  IInv'
  BY <1>2, CopyIInv
<1>3. ASSUME NEW i \in Id, Patch(i) \/ Destroy(i)
      PROVE  IInv'
  BY <1>3, PatchIInv, DestroyIInv
<1>4. CASE UploadKey
  BY <1>4, UploadKeyIInv
<1>5. ASSUME NEW i \in Id, NEW text \in {"plain", "pgp"}, NEW html \in BOOLEAN,
             NEW parent \in Id \cup {None}, Create(i, text, html, parent)
      PROVE  IInv'
  BY <1>5, CreateIInv
<1>6. ASSUME NEW w \in Worker, NEW i \in Id, NEW to \in SUBSET Peer, Take(w, i, to)
      PROVE  IInv'
  BY <1>6, TakeIInv
<1>7. ASSUME NEW w \in Worker
      PROVE  /\ Submit(w) => IInv'
             /\ Record(w) => IInv'
             /\ NobodyToSendTo(w) => IInv'
             /\ LoadKey(w) => IInv'
             /\ WriteKey(w) => IInv'
             /\ Send(w) => IInv'
             /\ PutBack(w) => IInv'
  BY SubmitIInv, RecordIInv, NobodyToSendToIInv, LoadKeyIInv, WriteKeyIInv, SendIInv, PutBackIInv
<1>8. ASSUME NEW w \in Worker, Refuse(w) \/ PutFails(w)
      PROVE  IInv'
  BY <1>8, NotCreatedIInv DEF Refuse, PutFails
<1>9. CASE Crash
  BY <1>9, CrashIInv
<1>10. CASE UNCHANGED vars
  <2>1. UNCHANGED <<pending, stored, subs, job, task, keyOnFile, dkim, wire, emails, fate>>
    BY <1>10 DEF vars
  <2>2. TypeOK' /\ OneId' /\ Unmade' /\ HtmlIsPlain'
    BY <2>1 DEF IInv, TypeOK, OneId, Homed, Unmade, HtmlIsPlain, Plain
  <2>3. SendsAreSealed' /\ SealedStaysSealed' /\ DraftsAccounted'
    BY <2>1 DEF IInv, SendsAreSealed, MustBeSealed, Sealed, SealedStaysSealed, DraftsAccounted
  <2>4. SendsAreTrue'
    BY <2>1 DEF IInv, SendsAreTrue, Attempted, Live
  <2>5. KeysAgree' /\ Settled'
    BY <2>1 DEF IInv, KeysAgree, SignaturesHold, Settled, Resolve
  <2>6. QED
    BY <2>2, <2>3, <2>4, <2>5 DEF IInv
<1>11. QED
  BY <1>1, <1>2, <1>3, <1>4, <1>5, <1>6, <1>7, <1>8, <1>9, <1>10 DEF Next

-----------------------------------------------------------------------------
(* The theorems.                                                           *)

\* IInv holds in every reachable state: every message keeps to one id, and every send under
\* way is accounted for (hooks.rs, submit.rs on_submit_email and spawn_send).
THEOREM SubmissionInvariant == Spec => []IInv
<1>1. Init => IInv
  BY InitIInv
<1>2. IInv /\ [Next]_vars => IInv'
  BY NextIInv
<1>3. QED
  BY <1>1, <1>2, PTL DEF Spec

\* Every variable keeps its type, for any sets of ids, peers and workers (store.rs Inner).
THEOREM SubmissionTyped == Spec => []TypeOK
<1>1. IInv => TypeOK
  BY DEF IInv
<1>2. QED
  BY <1>1, SubmissionInvariant, PTL

\* Neither the second write of a send nor a later submission brings back the plaintext of a
\* message that was sealed (hooks.rs seal_stored_body, submit.rs spawn_send).
THEOREM SealingLasts == Spec => []SealedStaysSealed
<1>1. IInv => SealedStaysSealed
  BY DEF IInv
<1>2. QED
  BY <1>1, SubmissionInvariant, PTL

\* A draft is pending, in a submission, stored, or lost in one of the ways the client is told
\* of or a restart explains (store.rs take_pending, submit.rs on_submit_email).
THEOREM NoDraftVanishes == Spec => []DraftsAccounted
<1>1. IInv => DraftsAccounted
  BY DEF IInv
<1>2. QED
  BY <1>1, SubmissionInvariant, PTL

\* What EmailSubmission/get lists was stored and attempted, or its attempt is still on, was cut
\* by a crash, or found that the envelope names nobody (submission.rs set, submit.rs spawn_send).
THEOREM RecordsWereAttempted == Spec => []RecordsAreTrue
<1>1. ASSUME IInv
      PROVE  RecordsAreTrue
  <2>1. \A t \in subs : Attempted(t)
    BY <1>1 DEF IInv, SendsAreTrue
  <2>2. \A t : Live(t) => \E w \in Worker : task[w].step # "idle" /\ task[w].outbound.tag = t
    BY DEF Live
  <2>3. QED
    BY <2>1, <2>2 DEF RecordsAreTrue, Attempted
<1>2. QED
  BY <1>1, SubmissionInvariant, PTL

\* A signature is by the domain's one key and over the form that leaves, whatever sends look
\* for the key at once and wherever a crash cuts its file short (dkim.rs
\* load_or_generate_key, outbound.rs send).
THEOREM SignaturesVerify == Spec => []SignaturesHold
<1>1. IInv => SignaturesHold
  BY DEF IInv, KeysAgree
<1>2. QED
  BY <1>1, SubmissionInvariant, PTL

\* A send that puts a message nobody has touched puts what is there.
LEMMA PutBackIsNeutral ==
    ASSUME IInv, NEW w \in Worker, PutBack(w), ~task[w].touched
    PROVE  stored' = stored
<1>1. task[w].step # "idle" /\ task[w].id \in Id
  BY Held DEF PutBack, IInv
<1>2. stored[task[w].id] = Resolve(task[w].id, task[w].stored)
  BY <1>1 DEF IInv, Settled
<1>3. stored' = [stored EXCEPT ![task[w].id] = stored[task[w].id]]
  BY <1>2 DEF PutBack, Put
<1>4. QED
  BY <1>1, <1>3 DEF IInv, TypeOK

\* A step that does not leave the store alone ends no other send.
LEMMA OthersEndNone ==
    ASSUME IInv, Next
    PROVE  \/ stored' = stored
           \/ \E v \in Worker : PutBack(v) /\ \A w \in Worker \ {v} : task'[w].step = task[w].step
           \/ \A w \in Worker : task[w].step = "back" => task'[w].step = "back"
<1> USE DEF IInv
<1>1. ASSUME NEW i \in Id, task' = Touched(i)
      PROVE  \A w \in Worker : task'[w].step = task[w].step
  BY <1>1, AfterTouched
<1>2. ASSUME NEW i \in Id, NEW v \in Worker, NEW n, task' = [Touched(i) EXCEPT ![v] = n]
      PROVE  \A w \in Worker \ {v} : task'[w].step = task[w].step
  BY <1>2, TouchedIs DEF TouchedBy
<1>3. ASSUME NEW i \in Id, NEW p \in Peer, Receive(i, p) \/ Import(i, p)
      PROVE  \A w \in Worker : task'[w].step = task[w].step
  BY <1>1, <1>3 DEF Receive, Import
<1>4. ASSUME NEW i \in Id, NEW j \in Id, Copy(i, j)
      PROVE  \A w \in Worker : task'[w].step = task[w].step
  BY <1>1, <1>4 DEF Copy
<1>5. ASSUME NEW i \in Id, Patch(i) \/ Destroy(i)
      PROVE  \A w \in Worker : task'[w].step = task[w].step
  BY <1>1, <1>5 DEF Patch, Destroy
<1>6. ASSUME NEW v \in Worker, Submit(v)
      PROVE  \A w \in Worker : task[w].step = "back" => task'[w].step = "back"
  <2>1. job[v].id \in Id /\ task[v].step = "idle"
    BY <1>6, Held DEF Submit, SendsAreTrue
  <2>2. \A w \in Worker \ {v} : task'[w].step = task[w].step
    BY <1>2, <1>6, <2>1 DEF Submit
  <2>3. QED
    BY <2>1, <2>2
<1>7. ASSUME NEW v \in Worker, PutBack(v)
      PROVE  \A w \in Worker \ {v} : task'[w].step = task[w].step
  <2>1. task[v].id \in Id
    BY <1>7, Held DEF PutBack
  <2>2. QED
    BY <1>2, <1>7, <2>1 DEF PutBack
<1>8. ASSUME NEW v \in Worker
      PROVE  /\ Refuse(v) \/ PutFails(v) \/ Record(v) \/ NobodyToSendTo(v) => stored' = stored
             /\ LoadKey(v) \/ WriteKey(v) \/ Send(v) => stored' = stored
  BY DEF Refuse, PutFails, Record, NobodyToSendTo, LoadKey, WriteKey, Send
<1>9. ASSUME UploadKey \/ Crash
      PROVE  stored' = stored
  BY <1>9 DEF UploadKey, Crash
<1>10. ASSUME NEW i \in Id, NEW text, NEW html, NEW parent, Create(i, text, html, parent)
       PROVE  stored' = stored
  BY <1>10 DEF Create
<1>11. ASSUME NEW v \in Worker, NEW i \in Id, NEW to, Take(v, i, to)
       PROVE  stored' = stored
  BY <1>11 DEF Take
<1>12. QED
  BY <1>3, <1>4, <1>5, <1>6, <1>7, <1>8, <1>9, <1>10, <1>11 DEF Next

\* The second write of a sent message changes nothing unless the message, or the parent its
\* thread is taken from, was touched since the first (submit.rs spawn_send).
THEOREM SecondWriteIsNeutral == Spec => PutBackChangesNothing
<1>1. ASSUME IInv, [Next]_vars
      PROVE  [\A w \in Worker :
                 (task[w].step = "back" /\ task'[w].step = "idle" /\ ~task[w].touched)
                 => stored' = stored]_vars
  <2>1. CASE UNCHANGED vars
    BY <2>1 DEF vars
  <2>2. CASE Next
    BY <1>1, <2>2, OthersEndNone, PutBackIsNeutral
  <2>3. QED
    BY <1>1, <2>1, <2>2
<1>2. QED
  BY <1>1, SubmissionInvariant, PTL DEF Spec, PutBackChangesNothing

=============================================================================
