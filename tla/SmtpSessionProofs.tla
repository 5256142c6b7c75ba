------------------------- MODULE SmtpSessionProofs -------------------------
(***************************************************************************)
(* Safety of a conversation between the relay's SMTP server and a client,  *)
(* for any mails, addresses, accounts and bounds: the replies stay in step *)
(* with the commands, an envelope holds what its own transaction asked     *)
(* for, and what has been acknowledged is kept.                            *)
(***************************************************************************)
EXTENDS SmtpSession, FiniteSetTheorems, TLAPS

-----------------------------------------------------------------------------
(* What the server has of the conversation, and what is on its way to it.    *)

Reading == task \in {"banner", "command", "data", "deliver"}
From    == IF task \in {"command", "data", "deliver"} THEN from ELSE 0
Text    == Body[mailOf[from]]
\* The items at the head of toServer that belong to the message being read.
Skip    == IF task = "data" THEN Len(Text) - Len(got) + 1 ELSE 0

\* A command with its argument.
IsWord(q) ==
    /\ q \in Item
    /\ q.verb \notin {"line", ".", "connect"}
    /\ q.verb = "MAIL" => q.txn \in Txns
    /\ q.verb = "RCPT" => q.addr \in Addresses

\* A transaction of which nothing has been read to the end or filed.
Fresh(t) == t \notin whole /\ \A a \in Accounts : \A c \in store[a] : c.txn # t

IsMail(i) == toServer[i].verb = "MAIL"

Numbered ==
    /\ Current \in 0 .. MaxTxns
    /\ \A t \in 1 .. MaxTxns : mailOf[t] # None <=> t <= Current
    /\ whole \subseteq Txns /\ inClear \subseteq Txns /\ heard.txn \in {0} \cup Txns
    /\ task \in {"command", "data", "deliver"} => from \in {0} \cup Txns

\* Commands on their way, in the order their transactions are numbered.
Queue ==
    /\ \A i \in DOMAIN toServer : i > Skip => IsWord(toServer[i])
    /\ \A i \in DOMAIN toServer : toServer[i].verb = "DATA" => i = Len(toServer)
    /\ \A i, j \in DOMAIN toServer :
           i < j /\ IsMail(i) /\ IsMail(j) => toServer[i].txn < toServer[j].txn
    /\ \A i \in DOMAIN toServer : IsMail(i) =>
           /\ From < toServer[i].txn /\ Fresh(toServer[i].txn)
           /\ secure => toServer[i].txn \notin inClear

\* A recipient on its way was asked for in the transaction it will be read in.
Wants ==
    \A i \in DOMAIN toServer : toServer[i].verb = "RCPT" =>
        /\ \A j \in 1 .. i - 1 : IsMail(j) /\ (\A l \in j + 1 .. i - 1 : ~ IsMail(l))
               => <<toServer[j].txn, toServer[i].addr>> \in wanted
        /\ From # 0 /\ (\A j \in 1 .. i - 1 : ~ IsMail(j))
               => <<From, toServer[i].addr>> \in wanted

\* The transaction last asked for is the last one the server will come to.
Newest ==
    link = "open" =>
        \/ \E i \in DOMAIN toServer : IsMail(i) /\ toServer[i].txn = Current
        \/ From \in {0, Current} /\ \A i \in DOMAIN toServer : ~ IsMail(i)

Fit(t, r) == <<t, r>> \in wanted /\ (route[r] # None \/ <<t, r>> \in excused)

Envelope ==
    /\ task = "command" /\ from # 0 => greeted
    /\ task \in {"command", "data"} =>
           /\ from = 0 => rcpts = <<>>
           /\ from # 0 => Fresh(from)
           /\ \A i \in DOMAIN rcpts : Fit(from, rcpts[i])
    /\ task \in {"data", "deliver"} => from # 0
    /\ task = "deliver" => \A i \in DOMAIN todo : Fit(from, todo[i])
    /\ secure /\ task # "banner" => from \notin inClear

\* The part of the message that has been read, and the part on its way.
Message ==
    /\ task \in {"data", "deliver"} =>
           Len(got) <= Len(Text) /\ \A i \in DOMAIN got : got[i] = Text[i]
    /\ task = "data" => \A i \in DOMAIN toServer :
           /\ i < Skip => toServer[i] = LineItem(Stuff(Text[Len(got) + i]))
           /\ i = Skip => toServer[i] = DotItem
    /\ task = "deliver" /\ from \in whole => got = Text

Filed ==
    \A a \in Accounts :
        /\ \A c \in store[a] :
               /\ c.txn \in Txns /\ <<c.txn, c.addr>> \in wanted /\ c.mail = mailOf[c.txn]
               /\ Len(c.lines) <= Len(Body[c.mail])
               /\ \A i \in DOMAIN c.lines : c.lines[i] = Body[c.mail][i]
               /\ c.txn \in whole => c.lines = Body[c.mail]
               /\ c.id = IF c.mail \in WithId THEN <<c.mail, 0>> ELSE <<None, c.id[2]>>
        /\ \A c, d \in store[a] : c.id = d.id => c = d

-----------------------------------------------------------------------------
(* What is on its way to the client, and what the client makes of it.        *)

\* What a command is answered with when the session goes on.
Plain(i) ==
    /\ i <= Len(asked)
    /\ toClient[i] \in Answers(asked[i].verb)
    /\ ~ (asked[i].verb = "STARTTLS" /\ toClient[i] = 220)
    /\ ~ (asked[i].verb = "DATA" /\ toClient[i] = 354)

AllPlain == \A i \in DOMAIN toClient : Plain(i)
\* All but the last, which is the answer code to verb.
LastIs(verb, code) ==
    LET k == Len(toClient)
    IN  /\ 0 < k /\ k <= Len(asked)
        /\ \A i \in 1 .. k - 1 : Plain(i)
        /\ asked[k].verb = verb /\ toClient[k] = code

\* What the client waits for is unread, from the item skip on, or answered.
Matched(skip) ==
    /\ Len(asked) = Len(toClient) + Len(toServer) - skip
    /\ \A i \in 1 .. Len(toServer) - skip : asked[Len(toClient) + i] = toServer[skip + i]

AskedWords ==
    /\ \A i \in DOMAIN asked : i > 1 \/ asked[i].verb \notin {"connect", "."} => IsWord(asked[i])
    /\ \A i \in DOMAIN asked : i < Len(asked) => asked[i].verb # "DATA"

Silent == toClient = <<>>
Quiet  == toClient = <<>> /\ asked = <<>>

InBanner ==
    /\ mode = "talk" /\ Silent /\ heard = Nothing
    /\ IF secure THEN Matched(0)
       ELSE /\ asked # <<>> /\ asked[1] = Cmd("connect") /\ Len(asked) = Len(toServer) + 1
            /\ \A i \in DOMAIN toServer : asked[i + 1] = toServer[i]
InCommand == mode = "talk" /\ AllPlain /\ Matched(0)
InData ==
    \/ mode = "talk" /\ toServer = <<>> /\ got = <<>> /\ LastIs("DATA", 354)
       /\ Len(asked) = Len(toClient)
    \/ mode = "body" /\ toServer = <<>> /\ got = <<>> /\ Quiet
       /\ heard.txn = from /\ body = Text
    \/ mode = "talk" /\ Silent /\ Skip <= Len(toServer) /\ Matched(Skip - 1)
AtDot == mode = "talk" /\ Silent /\ asked # <<>> /\ asked[1] = DotItem
InDeliver == AtDot /\ Len(asked) = Len(toServer) + 1 /\ \A i \in DOMAIN toServer : asked[i + 1] = toServer[i]
InHandshake ==
    \/ mode = "talk" /\ LastIs("STARTTLS", 220)
    \/ mode = "tls" /\ Quiet /\ heard = Nothing
InEnd ==
    /\ mode # "body"
    /\ mode = "tls" => Quiet
    /\ \A i \in DOMAIN toClient :
           \/ Plain(i)
           \/ i = Len(toClient) /\ toClient[i] = 500
           \/ i = Len(toClient) /\ i <= Len(asked) /\ asked[i].verb = "STARTTLS" /\ toClient[i] = 220

Sync ==
    /\ mode = "gone" <=> link # "open"
    /\ link # "open" => Quiet /\ body = <<>>
    /\ link = "closed" => task = "ended" /\ toServer = <<>>
    /\ task = "handshake" => ~ secure
    /\ AskedWords
    /\ link = "open" =>
           /\ task = "banner" => InBanner
           /\ task = "command" => InCommand
           /\ task = "data" => InData
           /\ task = "deliver" => InDeliver
           /\ task = "handshake" => InHandshake
           /\ task = "ended" => InEnd

Heard == [txn : 0 .. MaxTxns, rcpts : SUBSET Addresses]

\* The client's view h of the transaction is the server's.
Agrees(h) ==
    /\ h.txn = from
    /\ \A a \in h.rcpts : (\E i \in DOMAIN rcpts : rcpts[i] = a) \/ <<from, a>> \in excused

\* The replies on their way take the client's view to the server's.
Trace ==
    link = "open" /\ task \in {"command", "data"} =>
        \E H \in [0 .. Len(toClient) -> Heard] :
            /\ H[0] = heard
            /\ \A i \in DOMAIN toClient :
                   /\ H[i] = After(H[i - 1], asked[i], toClient[i])
                   /\ asked[i].verb = "RCPT" /\ toClient[i] = 502 => H[i - 1].txn = 0
            /\ Agrees(H[Len(toClient)])

\* What is known of the mail of transaction t and the recipient a, once t was read.
Kept(t, a) ==
    \/ \E u \in Txns : mailOf[u] = mailOf[t] /\ <<u, a>> \in excused
    \/ \E b \in Accounts : \E c \in store[b] : c.mail = mailOf[t] /\ c.lines = Body[c.mail]
    \/ \E b \in Accounts : <<b, t, "failed">> \in activity

Acks ==
    /\ \A ack \in acked : ack[1] \in Txns /\ Kept(ack[1], ack[2])
    /\ link = "open" /\ asked # <<>> /\ asked[1].verb = "." /\ toClient # <<>> =>
           \A a \in heard.rcpts : heard.txn # 0 /\ Kept(heard.txn, a)
    /\ link = "open" /\ task = "deliver" =>
           /\ from \in whole /\ heard.txn = from
           /\ \A a \in heard.rcpts : (\E i \in DOMAIN todo : todo[i] = a) \/ Kept(from, a)

\* How far the relay at the other end has come.
Relay ==
    /\ sender # None /\ link = "open" /\ result # "sent" =>
        /\ result = "none" /\ task # "ended"
        /\ Len(asked) <= 1
        /\ asked # <<>> => asked[1].verb = step \/ (asked[1].verb = "connect" /\ step = "EHLO")
        /\ step = "STARTTLS" => ~ secure
        /\ mode = "tls" => step = "EHLO"
        /\ mode = "body" => step = "."
        /\ task = "handshake" => toServer = <<>>
        /\ step \in {"EHLO", "HELO", "STARTTLS", "MAIL"} => left = Addresses
        /\ step \notin {"QUIT"}
        /\ step \in {"RCPT", "DATA", "."} => heard.txn # 0
        /\ step = "RCPT" => left \cup heard.rcpts \cup {q.addr : q \in {asked[i] : i \in DOMAIN asked}}
                              = Addresses
        /\ step \in {"DATA", "."} => heard.rcpts = Addresses
    /\ SentToAll

Bounded == task \in {"command", "data", "deliver"} => errors <= ErrorThreshold

ServerSide == Numbered /\ (Reading => Queue /\ Wants /\ Newest) /\ Envelope /\ Message /\ Filed

IInv == TypeOK /\ Bounded /\ ServerSide /\ Sync /\ Trace /\ Acks /\ Relay

-----------------------------------------------------------------------------
(* Sequences and replies.                                                    *)

Codes == {220, 221, 250, 252, 354, 454, 500, 501, 502}

LEMMA TailFacts ==
    ASSUME NEW S, NEW s \in Seq(S), s # <<>>
    PROVE  /\ Len(s) \in Nat /\ Len(s) > 0 /\ DOMAIN s = 1 .. Len(s)
           /\ Head(s) = s[1] /\ s[1] \in S
           /\ Tail(s) \in Seq(S) /\ Len(Tail(s)) = Len(s) - 1
           /\ DOMAIN Tail(s) = 1 .. Len(s) - 1
           /\ \A i \in 1 .. Len(s) - 1 : Tail(s)[i] = s[i + 1]
  OBVIOUS

LEMMA AppendFacts ==
    ASSUME NEW S, NEW s \in Seq(S), NEW x \in S
    PROVE  /\ Len(s) \in Nat /\ DOMAIN s = 1 .. Len(s)
           /\ Append(s, x) \in Seq(S) /\ Len(Append(s, x)) = Len(s) + 1
           /\ DOMAIN Append(s, x) = 1 .. Len(s) + 1
           /\ \A i \in 1 .. Len(s) : Append(s, x)[i] = s[i]
           /\ Append(s, x)[Len(s) + 1] = x
  OBVIOUS

LEMMA EmptyFacts ==
    ASSUME NEW S, NEW s \in Seq(S)
    PROVE  /\ Len(s) \in Nat /\ DOMAIN s = 1 .. Len(s) /\ (s = <<>> <=> Len(s) = 0)
           /\ \A i \in 1 .. Len(s) : s[i] \in S
  OBVIOUS

\* Sequences with the same elements.
LEMMA SameSeq ==
    ASSUME NEW S, NEW s \in Seq(S), NEW t \in Seq(S), Len(s) = Len(t),
           \A i \in 1 .. Len(s) : s[i] = t[i]
    PROVE  s = t
  OBVIOUS

\* The parts of the type invariant.
WireTyped ==
    /\ link \in {"closed", "open", "fin", "broken"}
    /\ toServer \in Seq(Item) /\ asked \in Seq(Item) /\ toClient \in Seq(Codes)
    /\ mode \in {"talk", "body", "tls", "gone"}
    /\ heard \in Heard /\ body \in Seq(Line)

SessionTyped ==
    /\ task \in {"banner", "command", "data", "deliver", "handshake", "ended"}
    /\ secure \in BOOLEAN /\ greeted \in BOOLEAN
    /\ from \in 0 .. MaxTxns
    /\ rcpts \in Seq(Addresses) /\ todo \in Seq(Addresses)
    /\ errors \in 0 .. ErrorThreshold + 1
    /\ got \in Seq(Line)

RelayTyped ==
    /\ tls \in BOOLEAN
    /\ route \in [Addresses -> Accounts \cup {None}]
    /\ store \in [Accounts -> SUBSET Copy]
    /\ activity \subseteq Accounts \X (1 .. MaxTxns) \X {"ok", "failed"}
    /\ now \in 0 .. MaxNow
    /\ whole \subseteq 1 .. MaxTxns /\ excused \subseteq (1 .. MaxTxns) \X Addresses
    /\ reroutes \in Nat /\ failures \in Nat

ClientTyped ==
    /\ sender \in Mails \cup {None}
    /\ step \in {"EHLO", "HELO", "STARTTLS", "MAIL", "RCPT", "DATA", ".", "QUIT"}
    /\ left \subseteq Addresses
    /\ result \in {"none", "sent", "rejected", "io"}
    /\ spoken \in Nat /\ conns \in Nat

RecordTyped ==
    /\ mailOf \in [1 .. MaxTxns -> Mails \cup {None}]
    /\ wanted \subseteq (0 .. MaxTxns) \X Addresses
    /\ inClear \subseteq 1 .. MaxTxns /\ acked \subseteq (1 .. MaxTxns) \X Addresses

LEMMA TypeParts ==
    TypeOK <=> WireTyped /\ SessionTyped /\ RelayTyped /\ ClientTyped /\ RecordTyped
<1>1. {secure, greeted, tls} \subseteq BOOLEAN <=> secure \in BOOLEAN /\ greeted \in BOOLEAN /\ tls \in BOOLEAN
  OBVIOUS
<1>2. {reroutes, failures, spoken, conns} \subseteq Nat
          <=> reroutes \in Nat /\ failures \in Nat /\ spoken \in Nat /\ conns \in Nat
  OBVIOUS
<1>3. TypeOK => WireTyped /\ SessionTyped /\ RelayTyped /\ ClientTyped /\ RecordTyped
  <2>1. SUFFICES ASSUME TypeOK
                 PROVE  WireTyped /\ SessionTyped /\ RelayTyped /\ ClientTyped /\ RecordTyped
    OBVIOUS
  <2>2. WireTyped
    BY <2>1 DEF TypeOK, WireTyped, Codes, Heard
  <2>3. SessionTyped
    BY <2>1 DEF TypeOK, SessionTyped
  <2>4. RelayTyped
    BY <2>1 DEF TypeOK, RelayTyped
  <2>5. ClientTyped /\ RecordTyped
    BY <2>1 DEF TypeOK, ClientTyped, RecordTyped
  <2>6. QED
    BY <2>2, <2>3, <2>4, <2>5
<1>4. WireTyped /\ SessionTyped /\ RelayTyped /\ ClientTyped /\ RecordTyped => TypeOK
  BY <1>1, <1>2, SMTT(60)
  DEF TypeOK, WireTyped, SessionTyped, RelayTyped, ClientTyped, RecordTyped, Codes, Heard
<1>5. QED
  BY <1>3, <1>4

LEMMA TypePartsPrime ==
    TypeOK' <=> WireTyped' /\ SessionTyped' /\ RelayTyped' /\ ClientTyped' /\ RecordTyped'
<1>1. {secure', greeted', tls'} \subseteq BOOLEAN
          <=> secure' \in BOOLEAN /\ greeted' \in BOOLEAN /\ tls' \in BOOLEAN
  OBVIOUS
<1>2. {reroutes', failures', spoken', conns'} \subseteq Nat
          <=> reroutes' \in Nat /\ failures' \in Nat /\ spoken' \in Nat /\ conns' \in Nat
  OBVIOUS
<1>3. TypeOK' => WireTyped' /\ SessionTyped' /\ RelayTyped' /\ ClientTyped' /\ RecordTyped'
  <2>1. SUFFICES ASSUME TypeOK'
                 PROVE  WireTyped' /\ SessionTyped' /\ RelayTyped' /\ ClientTyped' /\ RecordTyped'
    OBVIOUS
  <2>2. WireTyped'
    BY <2>1 DEF TypeOK, WireTyped, Codes, Heard
  <2>3. SessionTyped'
    BY <2>1 DEF TypeOK, SessionTyped
  <2>4. RelayTyped'
    BY <2>1 DEF TypeOK, RelayTyped
  <2>5. ClientTyped' /\ RecordTyped'
    BY <2>1 DEF TypeOK, ClientTyped, RecordTyped
  <2>6. QED
    BY <2>2, <2>3, <2>4, <2>5
<1>4. WireTyped' /\ SessionTyped' /\ RelayTyped' /\ ClientTyped' /\ RecordTyped' => TypeOK'
  BY <1>1, <1>2, SMTT(60)
  DEF TypeOK, WireTyped, SessionTyped, RelayTyped, ClientTyped, RecordTyped, Codes, Heard
<1>5. QED
  BY <1>3, <1>4

LEMMA CodeClasses ==
    /\ \A code \in Codes : Ok(code) <=> code \in {220, 221, 250, 252}
    /\ \A code \in Codes : Class(code) = 3 <=> code = 354
  BY DEF Codes, Ok, Class

LEMMA AnswersTyped ==
    ASSUME NEW verb
    PROVE  Answers(verb) \subseteq Codes
  BY DEF Answers, Codes

\* An item a client sends that is no line of a message.
LEMMA WordTyped ==
    ASSUME NEW q, IsWord(q)
    PROVE  /\ q \in Item /\ q.verb \in Verbs
           /\ q.verb = "MAIL" => q.txn \in 1 .. MaxTxns
  BY DEF IsWord, Item, Txns

LEMMA AfterTyped ==
    ASSUME NEW h \in Heard, NEW q, NEW code,
           q.verb = "MAIL" => q.txn \in 1 .. MaxTxns,
           q.verb = "RCPT" => q.addr \in Addresses,
           MaxTxns \in Nat
    PROVE  After(h, q, code) \in Heard
<1>1. Nothing \in Heard
  BY DEF Nothing, Heard
<1>2. q.verb = "MAIL" => [txn |-> q.txn, rcpts |-> {}] \in Heard
  BY DEF Heard
<1>3. q.verb = "RCPT" => [h EXCEPT !.rcpts = @ \cup {q.addr}] \in Heard
  BY DEF Heard
<1>4. QED
  BY <1>1, <1>2, <1>3 DEF After

-----------------------------------------------------------------------------
(* A command that is answered, with the session going on.  The actions of    *)
(* the server's command loop differ in what they do to the envelope.         *)

Holds(h, f, rs, ex) ==
    /\ h.txn = f
    /\ \A a \in h.rcpts : (\E i \in DOMAIN rs : rs[i] = a) \/ <<f, a>> \in ex

CommandStep(code) ==
    LET q == Head(toServer)
    IN  /\ task = "command" /\ task' = "command"
        /\ toServer # <<>> /\ toServer' = Tail(toServer)
        /\ toClient' = IF link # "open" THEN toClient ELSE Append(toClient, code)
        /\ code \in Answers(q.verb)
        /\ ~ (q.verb = "STARTTLS" /\ code = 220)
        /\ ~ (q.verb = "DATA" /\ code = 354)
        /\ q.verb = "RCPT" /\ code = 502 => from = 0
        /\ from' \in {0, from} \/ (q.verb = "MAIL" /\ from' = q.txn)
        /\ q.verb = "MAIL" => from' \in {0, q.txn}
        /\ rcpts' \in Seq(Addresses) /\ greeted' \in BOOLEAN /\ errors' \in 0 .. ErrorThreshold
        /\ from' # 0 => greeted'
        /\ from' = 0 => rcpts' = <<>>
        /\ \A i \in DOMAIN rcpts' : Fit(from, rcpts[i])'
        /\ excused \subseteq excused' /\ excused' \subseteq (1 .. MaxTxns) \X Addresses
        /\ \A h \in Heard : Agrees(h) => Holds(After(h, q, code), from', rcpts', excused')
        /\ UNCHANGED <<link, secure, got, todo, relay, whole, bounds, clientVars>>

LEMMA CommandHead ==
    ASSUME TypeOK, ServerSide, task = "command", toServer # <<>>
    PROVE  /\ IsWord(toServer[1]) /\ Head(toServer) = toServer[1] /\ toServer[1] \in Item
           /\ toServer \in Seq(Item) /\ Skip = 0 /\ From = from
<1>1. toServer \in Seq(Item) /\ Skip = 0 /\ From = from /\ Reading
  BY DEF TypeOK, Skip, From, Reading
<1>2. 1 \in DOMAIN toServer /\ Head(toServer) = toServer[1] /\ toServer[1] \in Item /\ 1 > Skip
  BY <1>1, TailFacts
<1>3. IsWord(toServer[1])
  BY <1>1, <1>2 DEF ServerSide, Queue
<1>4. QED
  BY <1>1, <1>2, <1>3

\* The conversation's own variables and the mail that is filed stay.
LEMMA CommandServerSide ==
    ASSUME TypeOK, ServerSide, NEW code, CommandStep(code)
    PROVE  ServerSide'
<1> DEFINE q == toServer[1]
<1>0. /\ IsWord(q) /\ Head(toServer) = q /\ q \in Item /\ toServer \in Seq(Item)
      /\ Skip = 0 /\ From = from /\ Reading /\ toServer # <<>> /\ toServer' = Tail(toServer)
  BY CommandHead DEF CommandStep, Reading
<1>1. /\ Len(toServer) \in Nat /\ Len(toServer) > 0 /\ DOMAIN toServer = 1 .. Len(toServer)
      /\ DOMAIN toServer' = 1 .. Len(toServer) - 1
      /\ \A i \in 1 .. Len(toServer) - 1 : toServer'[i] = toServer[i + 1]
  BY <1>0, TailFacts
<1>2. /\ Skip' = 0 /\ From' = from' /\ task' = "command" /\ task = "command"
      /\ UNCHANGED <<link, secure, got, todo, relay, whole, clientVars>>
  BY DEF CommandStep, Skip, From
<1>3. /\ from' \in {0, from} \/ (q.verb = "MAIL" /\ from' = q.txn)
      /\ q.verb = "MAIL" => from' \in {0, q.txn}
  BY <1>0 DEF CommandStep
<1>4. /\ UNCHANGED <<mailOf, wanted, inClear, store, route, heard>>
      /\ Txns' = Txns /\ Current' = Current
  BY <1>2 DEF clientVars, record, relay, Txns, Current
<1>5. Numbered'
  BY <1>0, <1>2, <1>3, <1>4 DEF ServerSide, Numbered, IsWord
<1>6. /\ from' \in Nat /\ from \in Nat
      /\ \A i \in 1 .. Len(toServer) : IsMail(i) => toServer[i].txn \in Nat
  <2>1. Txns \subseteq Nat
    BY DEF Txns
  <2>2. \A i \in 1 .. Len(toServer) : toServer[i] \in Item
    BY <1>0, EmptyFacts
  <2>3. QED
    BY <1>5, <1>2, <1>4, <2>1, <2>2 DEF Numbered, ServerSide, Item
<1>7. \A i \in 1 .. Len(toServer) - 1 : IsMail(i)' <=> IsMail(i + 1)
  BY <1>1 DEF IsMail
<1>8. Queue'
  <2>1. ASSUME NEW i \in DOMAIN toServer', i > Skip' PROVE IsWord(toServer[i])'
    BY <1>0, <1>1, <1>4, <2>1 DEF ServerSide, Queue, IsWord
  <2>2. ASSUME NEW i \in DOMAIN toServer', NEW j \in DOMAIN toServer',
               i < j, IsMail(i)', IsMail(j)'
        PROVE  toServer'[i].txn < toServer'[j].txn
    BY <1>0, <1>1, <1>7, <2>2 DEF ServerSide, Queue
  <2>3. ASSUME NEW i \in DOMAIN toServer', IsMail(i)'
        PROVE  /\ from' < toServer'[i].txn /\ Fresh(toServer'[i].txn)
               /\ secure => toServer'[i].txn \notin inClear
    <3>1. /\ i + 1 \in DOMAIN toServer /\ IsMail(i + 1) /\ toServer'[i] = toServer[i + 1]
          /\ 1 \in DOMAIN toServer /\ 1 < i + 1
      BY <1>1, <1>7, <2>3
    <3>2. /\ from < toServer[i + 1].txn /\ Fresh(toServer[i + 1].txn)
          /\ secure => toServer[i + 1].txn \notin inClear
          /\ q.verb = "MAIL" => q.txn < toServer[i + 1].txn
      BY <1>0, <3>1 DEF ServerSide, Queue, IsMail
    <3>3. 0 < toServer[i + 1].txn
      BY <1>6, <3>1, <3>2
    <3>4. QED
      BY <1>3, <3>1, <3>2, <3>3
  <2>4. \A t : Fresh(t)' <=> Fresh(t)
    BY <1>2, <1>4 DEF Fresh
  <2>5. ASSUME NEW i \in DOMAIN toServer', toServer'[i].verb = "DATA" PROVE i = Len(toServer')
    <3>1. i + 1 \in DOMAIN toServer /\ toServer'[i] = toServer[i + 1]
      BY <1>1, <2>5
    <3>2. i + 1 = Len(toServer)
      BY <1>0, <2>5, <3>1 DEF ServerSide, Queue
    <3>3. QED
      BY <1>1, <3>2
  <2>6. QED
    BY <1>2, <1>4, <2>1, <2>2, <2>3, <2>4, <2>5 DEF Queue
<1>9. Wants'
  <2>1. SUFFICES ASSUME NEW i \in DOMAIN toServer', toServer'[i].verb = "RCPT"
                 PROVE  /\ \A j \in 1 .. i - 1 : IsMail(j)' /\ (\A l \in j + 1 .. i - 1 : ~ IsMail(l)')
                               => <<toServer'[j].txn, toServer'[i].addr>> \in wanted
                        /\ from' # 0 /\ (\A j \in 1 .. i - 1 : ~ IsMail(j)')
                               => <<from', toServer'[i].addr>> \in wanted
    BY <1>2, <1>4 DEF Wants
  <2>2. /\ i \in 1 .. Len(toServer) - 1 /\ i + 1 \in DOMAIN toServer
        /\ toServer[i + 1].verb = "RCPT" /\ toServer'[i] = toServer[i + 1]
    BY <1>1, <2>1
  <2>3. ASSUME NEW j \in 1 .. i - 1, IsMail(j)', \A l \in j + 1 .. i - 1 : ~ IsMail(l)'
        PROVE  <<toServer'[j].txn, toServer'[i].addr>> \in wanted
    <3>1. j + 1 \in 1 .. (i + 1) - 1 /\ IsMail(j + 1) /\ toServer'[j] = toServer[j + 1]
      BY <1>1, <1>7, <2>2, <2>3
    <3>2. \A l \in (j + 1) + 1 .. (i + 1) - 1 : ~ IsMail(l)
      <4>1. \A l \in (j + 1) + 1 .. (i + 1) - 1 :
                l - 1 \in j + 1 .. i - 1 /\ l - 1 \in 1 .. Len(toServer) - 1 /\ (l - 1) + 1 = l
        BY <2>2, <2>3
      <4>2. QED
        BY <1>7, <2>3, <4>1
    <3>3. QED
      BY <1>0, <2>2, <3>1, <3>2 DEF ServerSide, Wants
  <2>4. ASSUME from' # 0, \A j \in 1 .. i - 1 : ~ IsMail(j)'
        PROVE  <<from', toServer'[i].addr>> \in wanted
    <3>1. \A l \in 2 .. (i + 1) - 1 : ~ IsMail(l)
      <4>1. \A l \in 2 .. (i + 1) - 1 : l - 1 \in 1 .. i - 1 /\ l - 1 \in 1 .. Len(toServer) - 1
                                        /\ (l - 1) + 1 = l
        BY <2>2
      <4>2. QED
        BY <1>7, <2>4, <4>1
    <3>2. CASE IsMail(1)
      <4>1. from' = q.txn /\ 1 \in 1 .. (i + 1) - 1
        BY <1>3, <2>2, <2>4, <3>2 DEF IsMail
      <4>2. \A l \in 1 + 1 .. (i + 1) - 1 : ~ IsMail(l)
        BY <3>1
      <4>3. <<toServer[1].txn, toServer[i + 1].addr>> \in wanted
        BY <1>0, <2>2, <3>2, <4>1, <4>2 DEF ServerSide, Wants
      <4>4. QED
        BY <2>2, <4>1, <4>3
    <3>3. CASE ~ IsMail(1)
      <4>1. from' = from /\ \A l \in 1 .. (i + 1) - 1 : ~ IsMail(l)
        BY <1>3, <2>4, <3>1, <3>3 DEF IsMail
      <4>2. QED
        BY <1>0, <2>2, <2>4, <4>1 DEF ServerSide, Wants
    <3>4. QED
      BY <3>2, <3>3
  <2>5. QED
    BY <2>3, <2>4
<1>10. Newest'
  <2>1. SUFFICES ASSUME link = "open"
                 PROVE  \/ \E i \in DOMAIN toServer' : IsMail(i)' /\ toServer'[i].txn = Current
                        \/ from' \in {0, Current} /\ \A i \in DOMAIN toServer' : ~ IsMail(i)'
    BY <1>2, <1>4 DEF Newest
  <2>2. CASE \E i \in DOMAIN toServer : IsMail(i) /\ toServer[i].txn = Current
    <3>1. PICK i \in DOMAIN toServer : IsMail(i) /\ toServer[i].txn = Current
      BY <2>2
    <3>2. CASE i = 1
      <4>1. \A j \in DOMAIN toServer' : ~ IsMail(j)'
        <5>1. SUFFICES ASSUME NEW j \in DOMAIN toServer', IsMail(j)' PROVE FALSE
          OBVIOUS
        <5>2. j + 1 \in DOMAIN toServer /\ IsMail(j + 1) /\ 1 < j + 1 /\ 1 \in DOMAIN toServer
          BY <1>1, <1>7, <5>1
        <5>3. Current < toServer[j + 1].txn
          BY <1>0, <3>1, <3>2, <5>2 DEF ServerSide, Queue
        <5>4. toServer[j + 1].txn \in Txns /\ j + 1 > Skip
          BY <1>0, <5>2 DEF ServerSide, Queue, IsWord, IsMail
        <5>5. toServer[j + 1].txn <= Current
          BY <5>4 DEF ServerSide, Numbered, Txns
        <5>6. QED
          BY <1>6, <1>1, <5>2, <5>3, <5>5 DEF ServerSide, Numbered
      <4>2. from' \in {0, Current}
        BY <1>3, <3>1, <3>2 DEF IsMail
      <4>3. QED
        BY <4>1, <4>2
    <3>3. CASE i # 1
      <4>1. i - 1 \in DOMAIN toServer' /\ (i - 1) + 1 = i /\ i - 1 \in 1 .. Len(toServer) - 1
        BY <1>1, <3>3
      <4>2. IsMail(i - 1)' /\ toServer'[i - 1].txn = Current
        BY <1>1, <1>7, <3>1, <4>1
      <4>3. QED
        BY <4>1, <4>2
    <3>4. QED
      BY <3>2, <3>3
  <2>3. CASE from \in {0, Current} /\ \A i \in DOMAIN toServer : ~ IsMail(i)
    <3>1. 1 \in DOMAIN toServer
      BY <1>1
    <3>2. from' \in {0, Current}
      BY <1>3, <2>3, <3>1 DEF IsMail
    <3>3. \A i \in DOMAIN toServer' : ~ IsMail(i)'
      BY <1>1, <1>7, <2>3
    <3>4. QED
      BY <3>2, <3>3
  <2>4. QED
    BY <1>0, <2>1, <2>2, <2>3 DEF ServerSide, Newest
<1>11. Envelope'
  <2>1. from' # 0 => Fresh(from)'
    <3>1. q.verb = "MAIL" => Fresh(q.txn)
      BY <1>0, <1>1 DEF ServerSide, Queue, IsMail
    <3>2. from # 0 => Fresh(from)
      BY <1>2 DEF ServerSide, Envelope
    <3>3. from' # 0 => Fresh(from')
      BY <1>3, <3>1, <3>2
    <3>4. QED
      BY <1>2, <1>4, <3>3 DEF Fresh
  <2>2. secure => from' \notin inClear
    <3>1. q.verb = "MAIL" /\ secure => q.txn \notin inClear
      BY <1>0, <1>1 DEF ServerSide, Queue, IsMail
    <3>2. secure => from \notin inClear
      BY <1>2 DEF ServerSide, Envelope
    <3>3. 0 \notin inClear
      BY DEF ServerSide, Numbered, Txns
    <3>4. QED
      BY <1>3, <3>1, <3>2, <3>3
  <2>3. \A i \in DOMAIN rcpts' : Fit(from, rcpts[i])'
    BY DEF CommandStep
  <2>4. (from' # 0 => greeted') /\ (from' = 0 => rcpts' = <<>>)
    BY DEF CommandStep
  <2>5. QED
    BY <1>2, <1>4, <2>1, <2>2, <2>3, <2>4 DEF Envelope
<1>12. Message' /\ Filed'
  BY <1>2, <1>4 DEF Message, ServerSide, Filed
<1>13. QED
  BY <1>5, <1>8, <1>9, <1>10, <1>11, <1>12 DEF ServerSide

\* What is known of a recipient stays known while the store only gains, or excuses what it loses.
LEMMA KeptStays ==
    ASSUME NEW t \in Txns, NEW a \in Addresses, Kept(t, a),
           \A u \in Txns : u \in Txns' /\ mailOf'[u] = mailOf[u],
           excused \subseteq excused', activity \subseteq activity',
           \A b \in Accounts : \A c \in store[b] : c.lines = Body[c.mail] =>
               \/ \E e \in Accounts : \E d \in store'[e] : d.mail = c.mail /\ d.lines = Body[d.mail]
               \/ c.txn \in Txns /\ mailOf[c.txn] = c.mail /\ \A x \in Addresses : <<c.txn, x>> \in excused'
    PROVE  Kept(t, a)'
<1>1. CASE \E u \in Txns : mailOf[u] = mailOf[t] /\ <<u, a>> \in excused
  BY <1>1 DEF Kept
<1>2. CASE \E b \in Accounts : \E c \in store[b] : c.mail = mailOf[t] /\ c.lines = Body[c.mail]
  <2>1. PICK b \in Accounts : \E c \in store[b] : c.mail = mailOf[t] /\ c.lines = Body[c.mail]
    BY <1>2
  <2>2. PICK c \in store[b] : c.mail = mailOf[t] /\ c.lines = Body[c.mail]
    BY <2>1
  <2>3. CASE \E e \in Accounts : \E d \in store'[e] : d.mail = c.mail /\ d.lines = Body[d.mail]
    BY <2>2, <2>3 DEF Kept
  <2>4. CASE c.txn \in Txns /\ mailOf[c.txn] = c.mail /\ \A x \in Addresses : <<c.txn, x>> \in excused'
    BY <2>2, <2>4 DEF Kept
  <2>5. QED
    BY <2>2, <2>3, <2>4
<1>3. CASE \E b \in Accounts : <<b, t, "failed">> \in activity
  BY <1>3 DEF Kept
<1>4. QED
  BY <1>1, <1>2, <1>3 DEF Kept

\* The same while the store stays as it is.
LEMMA KeptStaysStill ==
    ASSUME NEW t \in Txns, NEW a \in Addresses, Kept(t, a),
           \A u \in Txns : u \in Txns' /\ mailOf'[u] = mailOf[u],
           excused \subseteq excused', activity \subseteq activity', store' = store
    PROVE  Kept(t, a)'
  BY KeptStays

\* The server's next command is the first one the client has no answer to.
LEMMA CommandMatched ==
    ASSUME TypeOK, Sync, link = "open", task = "command", toServer # <<>>
    PROVE  /\ mode = "talk" /\ AllPlain
           /\ toServer \in Seq(Item) /\ asked \in Seq(Item) /\ toClient \in Seq(Codes)
           /\ Len(asked) = Len(toClient) + Len(toServer)
           /\ \A i \in 1 .. Len(toServer) : asked[Len(toClient) + i] = toServer[i]
           /\ Len(toClient) + 1 <= Len(asked) /\ asked[Len(toClient) + 1] = Head(toServer)
<1>1. toServer \in Seq(Item) /\ asked \in Seq(Item) /\ toClient \in Seq(Codes)
  BY DEF TypeOK, Codes
<1>2. mode = "talk" /\ AllPlain /\ Matched(0)
  BY DEF Sync, InCommand
<1>3. Len(toServer) \in Nat /\ Len(toServer) > 0 /\ Head(toServer) = toServer[1]
      /\ Len(toClient) \in Nat /\ Len(asked) \in Nat
  BY <1>1, TailFacts
<1>4. /\ Len(asked) = Len(toClient) + Len(toServer)
      /\ \A i \in 1 .. Len(toServer) : asked[Len(toClient) + i] = toServer[i]
  <2>1. Len(toServer) - 0 = Len(toServer) /\ \A i \in 1 .. Len(toServer) : 0 + i = i
    BY <1>3
  <2>2. QED
    BY <1>2, <1>3, <2>1 DEF Matched
<1>5. QED
  BY <1>1, <1>2, <1>3, <1>4

LEMMA CommandSync ==
    ASSUME TypeOK, ServerSide, Sync, NEW code, CommandStep(code)
    PROVE  Sync'
<1>1. /\ task = "command" /\ task' = "command" /\ toServer # <<>>
      /\ UNCHANGED <<link, secure, mode, asked, heard, body, mailOf>>
      /\ link # "open" => toClient' = toClient
  BY DEF CommandStep, clientVars, record
<1>2. ASSUME link = "open" PROVE InCommand'
  <2>1. /\ mode = "talk" /\ AllPlain
        /\ toServer \in Seq(Item) /\ asked \in Seq(Item) /\ toClient \in Seq(Codes)
        /\ Len(asked) = Len(toClient) + Len(toServer)
        /\ \A i \in 1 .. Len(toServer) : asked[Len(toClient) + i] = toServer[i]
        /\ Len(toClient) + 1 <= Len(asked) /\ asked[Len(toClient) + 1] = Head(toServer)
    BY <1>1, <1>2, CommandMatched
  <2>2. /\ toServer' = Tail(toServer) /\ toClient' = Append(toClient, code) /\ code \in Codes
        /\ code \in Answers(Head(toServer).verb)
        /\ ~ (Head(toServer).verb = "STARTTLS" /\ code = 220)
        /\ ~ (Head(toServer).verb = "DATA" /\ code = 354)
    BY <1>2, AnswersTyped DEF CommandStep
  <2>3. /\ Len(toClient) \in Nat /\ DOMAIN toClient = 1 .. Len(toClient)
        /\ Len(toClient') = Len(toClient) + 1 /\ DOMAIN toClient' = 1 .. Len(toClient) + 1
        /\ \A i \in 1 .. Len(toClient) : toClient'[i] = toClient[i]
        /\ toClient'[Len(toClient) + 1] = code
    BY <2>1, <2>2, AppendFacts
  <2>4. /\ Len(toServer) \in Nat /\ Len(toServer') = Len(toServer) - 1
        /\ \A i \in 1 .. Len(toServer) - 1 : toServer'[i] = toServer[i + 1]
    BY <1>1, <2>1, <2>2, TailFacts
  <2>5. AllPlain'
    <3>1. ASSUME NEW i \in 1 .. Len(toClient) PROVE Plain(i)'
      BY <1>1, <2>1, <2>3 DEF AllPlain, Plain
    <3>2. ASSUME NEW i, i = Len(toClient) + 1 PROVE Plain(i)'
      <4>1. i <= Len(asked) /\ asked[i] = Head(toServer) /\ toClient'[i] = code
        BY <2>1, <2>3, <3>2
      <4>2. QED
        BY <1>1, <2>2, <4>1 DEF Plain
    <3>3. \A i \in 1 .. Len(toClient) + 1 : i \in 1 .. Len(toClient) \/ i = Len(toClient) + 1
      BY <2>3
    <3>4. QED
      BY <2>3, <3>1, <3>2, <3>3 DEF AllPlain
  <2>6. Matched(0)'
    <3>1. Len(asked) = Len(toClient') + Len(toServer') - 0
      BY <2>1, <2>3, <2>4
    <3>2. ASSUME NEW i \in 1 .. Len(toServer') - 0
          PROVE  asked[Len(toClient') + i] = toServer'[0 + i]
      <4>1. i \in 1 .. Len(toServer) - 1 /\ i + 1 \in 1 .. Len(toServer) /\ 0 + i = i
        BY <2>4, <3>2
      <4>2. Len(toClient') + i = Len(toClient) + (i + 1)
        BY <2>3, <4>1
      <4>3. QED
        BY <2>1, <2>4, <4>1, <4>2
    <3>3. QED
      BY <1>1, <3>1, <3>2 DEF Matched
  <2>7. QED
    BY <1>1, <2>1, <2>5, <2>6 DEF InCommand
<1>3. AskedWords'
  BY <1>1 DEF Sync, AskedWords, IsWord, Txns
<1>4. QED
  BY <1>1, <1>2, <1>3 DEF Sync, Quiet

\* One more reply takes the client's view where the server's envelope goes.
LEMMA TraceGrows ==
    ASSUME TypeOK, ServerSide, Sync, Trace, NEW code \in Codes,
           task = "command", toServer # <<>>,
           link = "open" => toClient' = Append(toClient, code),
           UNCHANGED <<link, heard, asked>>,
           Head(toServer).verb = "RCPT" /\ code = 502 => from = 0,
           \A h \in Heard : Agrees(h)
                => Holds(After(h, Head(toServer), code), from', rcpts', excused')
    PROVE  Trace'
<1>1. SUFFICES ASSUME link = "open"
               PROVE  \E H \in [0 .. Len(toClient') -> Heard] :
                          /\ H[0] = heard
                          /\ \A i \in DOMAIN toClient' :
                                 /\ H[i] = After(H[i - 1], asked[i], toClient'[i])
                                 /\ asked[i].verb = "RCPT" /\ toClient'[i] = 502
                                    => H[i - 1].txn = 0
                          /\ Holds(H[Len(toClient')], from', rcpts', excused')
  BY DEF Trace, Agrees, Holds
<1> DEFINE k == Len(toClient)
           q == Head(toServer)
<1>2. /\ task = "command" /\ toServer # <<>> /\ toClient' = Append(toClient, code)
      /\ code \in Codes
  BY <1>1
<1>3. /\ toClient \in Seq(Codes) /\ asked[k + 1] = q /\ IsWord(q)
  BY <1>1, <1>2, CommandMatched, CommandHead
<1>4. /\ k \in Nat /\ DOMAIN toClient = 1 .. k
      /\ Len(toClient') = k + 1 /\ DOMAIN toClient' = 1 .. k + 1
      /\ \A i \in 1 .. k : toClient'[i] = toClient[i]
      /\ toClient'[k + 1] = code
  BY <1>2, <1>3, AppendFacts
<1>5. PICK H \in [0 .. k -> Heard] :
          /\ H[0] = heard
          /\ \A i \in 1 .. k : /\ H[i] = After(H[i - 1], asked[i], toClient[i])
                               /\ asked[i].verb = "RCPT" /\ toClient[i] = 502 => H[i - 1].txn = 0
          /\ Agrees(H[k])
  BY <1>1, <1>2, <1>4 DEF Trace
<1> DEFINE new == After(H[k], q, code)
           G == [i \in 0 .. k + 1 |-> IF i \in 0 .. k THEN H[i] ELSE new]
<1> HIDE DEF k, q
<1>6. H[k] \in Heard
  BY <1>4, <1>5
<1>7. new \in Heard
  BY <1>3, <1>6, AfterTyped, WordTyped, SessionAssumption DEF IsWord
<1>8. Holds(new, from', rcpts', excused')
  BY <1>5, <1>6 DEF q
<1>9. q.verb = "RCPT" /\ code = 502 => H[k].txn = 0
  BY <1>5 DEF Agrees, q
<1> HIDE DEF new
<1>10. /\ G \in [0 .. k + 1 -> Heard]
       /\ G[0] = heard /\ G[k + 1] = new
       /\ \A i \in 0 .. k : G[i] = H[i]
  <2>1. \A i \in 0 .. k + 1 : IF i \in 0 .. k THEN H[i] \in Heard ELSE new \in Heard
    BY <1>5, <1>7
  <2>2. 0 \in 0 .. k /\ k + 1 \in 0 .. k + 1 /\ k + 1 \notin 0 .. k
        /\ \A i \in 0 .. k : i \in 0 .. k + 1
    BY <1>4
  <2>3. QED
    BY <1>5, <2>1, <2>2
<1> HIDE DEF G
<1>11. ASSUME NEW i \in 1 .. k + 1
       PROVE  /\ G[i] = After(G[i - 1], asked[i], toClient'[i])
              /\ asked[i].verb = "RCPT" /\ toClient'[i] = 502 => G[i - 1].txn = 0
  <2>1. CASE i = k + 1
    <3>1. G[i] = new /\ G[i - 1] = H[k] /\ asked[i] = q /\ toClient'[i] = code
      <4>1. i - 1 = k /\ k \in 0 .. k
        BY <1>4, <2>1
      <4>2. QED
        BY <1>3, <1>4, <1>10, <2>1, <4>1 DEF k
    <3>2. QED
      BY <1>9, <3>1 DEF new
  <2>2. CASE i # k + 1
    <3>1. i \in 1 .. k /\ i \in 0 .. k /\ i - 1 \in 0 .. k
      BY <1>4, <2>2
    <3>2. QED
      BY <1>4, <1>5, <1>10, <3>1
  <2>3. QED
    BY <2>1, <2>2
<1>12. QED
  BY <1>4, <1>8, <1>10, <1>11

LEMMA CommandTrace ==
    ASSUME TypeOK, ServerSide, Sync, Trace, NEW code, CommandStep(code)
    PROVE  Trace'
<1>1. /\ code \in Codes /\ task = "command" /\ toServer # <<>>
      /\ link = "open" => toClient' = Append(toClient, code)
      /\ UNCHANGED <<link, heard, asked>>
      /\ Head(toServer).verb = "RCPT" /\ code = 502 => from = 0
      /\ \A h \in Heard : Agrees(h)
              => Holds(After(h, Head(toServer), code), from', rcpts', excused')
  BY AnswersTyped DEF CommandStep, clientVars
<1>2. QED
  BY <1>1, TraceGrows

LEMMA CommandTyped ==
    ASSUME TypeOK, Bounded, ServerSide, NEW code, CommandStep(code)
    PROVE  TypeOK' /\ Bounded'
<1>1. /\ IsWord(Head(toServer)) /\ toServer \in Seq(Item) /\ toServer # <<>>
  BY CommandHead DEF CommandStep
<1>2. toServer' \in Seq(Item)
  BY <1>1, TailFacts DEF CommandStep
<1>3. toClient' \in Seq(Codes)
  <2>1. code \in Codes /\ toClient \in Seq(Codes)
    BY AnswersTyped DEF CommandStep, TypeOK, Codes
  <2>2. QED
    BY <2>1, AppendFacts DEF CommandStep
<1>4. from' \in 0 .. MaxTxns
  <2>1. Head(toServer).verb = "MAIL" => Head(toServer).txn \in 0 .. MaxTxns
    BY <1>1, WordTyped, SessionAssumption
  <2>2. 0 \in 0 .. MaxTxns /\ from \in 0 .. MaxTxns
    BY SessionAssumption DEF TypeOK
  <2>3. QED
    BY <2>1, <2>2 DEF CommandStep
<1>5. errors' \in 0 .. ErrorThreshold + 1 /\ errors' <= ErrorThreshold
  BY SmtpAssumption DEF CommandStep
<1>6. /\ task' \in {"banner", "command", "data", "deliver", "handshake", "ended"}
      /\ rcpts' \in Seq(Addresses) /\ greeted' \in BOOLEAN
      /\ excused' \subseteq (1 .. MaxTxns) \X Addresses
      /\ UNCHANGED <<link, secure, got, todo, tls, route, store, activity, now, whole, reroutes, failures>>
      /\ UNCHANGED <<sender, mode, asked, heard, body, step, left, result, mailOf, wanted, inClear,
                     acked, spoken, conns>>
  BY DEF CommandStep, clientVars, script, record, relay, bounds
<1>7. TypeOK'
  <2>1. WireTyped' /\ SessionTyped'
    BY <1>2, <1>3, <1>4, <1>5, <1>6, TypeParts DEF WireTyped, SessionTyped
  <2>2. RelayTyped' /\ ClientTyped' /\ RecordTyped'
    BY <1>6, TypeParts DEF RelayTyped, ClientTyped, RecordTyped
  <2>3. QED
    BY <2>1, <2>2, TypePartsPrime
<1>8. QED
  BY <1>5, <1>7 DEF Bounded

LEMMA CommandIInv ==
    ASSUME IInv, NEW code, CommandStep(code)
    PROVE  IInv'
<1> USE DEF IInv
<1>1. TypeOK' /\ Bounded' /\ ServerSide' /\ Sync' /\ Trace'
  BY CommandTyped, CommandServerSide, CommandSync, CommandTrace
<1>2. /\ task = "command" /\ task' = "command" /\ toServer # <<>> /\ toServer' = Tail(toServer)
      /\ excused \subseteq excused'
      /\ UNCHANGED <<link, secure, got, todo, store, activity, whole, sender, mode, asked, heard, body,
                     step, left, result, mailOf, acked>>
  BY DEF CommandStep, clientVars, script, record, relay
<1>3. Acks'
  <2>1. Txns' = Txns
    BY <1>2 DEF Txns
  <2>2. ASSUME NEW t \in Txns, NEW a \in Addresses, Kept(t, a) PROVE Kept(t, a)'
    BY <1>2, <2>1, <2>2, KeptStaysStill
  <2>3. \A ack \in acked' : ack[1] \in Txns' /\ Kept(ack[1], ack[2])'
    BY <1>2, <2>1, <2>2 DEF Acks, TypeOK
  <2>4. link = "open" /\ asked # <<>> /\ asked[1].verb = "." => toClient # <<>>
    <3>1. SUFFICES ASSUME link = "open", asked # <<>>, asked[1].verb = ".", toClient = <<>>
                   PROVE  FALSE
      OBVIOUS
    <3>2. asked[1] = Head(toServer)
      BY <1>2, <3>1, CommandMatched
    <3>3. IsWord(Head(toServer))
      BY <1>2, CommandHead
    <3>4. QED
      BY <3>1, <3>2, <3>3 DEF IsWord
  <2>5. \A a \in heard.rcpts : a \in Addresses
    BY DEF TypeOK
  <2>6. heard.txn # 0 => heard.txn \in Txns
    BY DEF ServerSide, Numbered
  <2>7. QED
    BY <1>2, <2>2, <2>3, <2>4, <2>5, <2>6 DEF Acks
<1>4. Relay'
  <2>1. Txns' = Txns
    BY <1>2 DEF Txns
  <2>2. QED
    BY <1>2, <2>1 DEF Relay, SentToAll
<1>5. QED
  BY <1>1, <1>3, <1>4

-----------------------------------------------------------------------------
(* The actions of the command loop are such steps.                           *)

\* The envelope a command leaves alone is still what was asked for.
LEMMA EnvelopeStays ==
    ASSUME IInv, task = "command", UNCHANGED <<route, wanted, from, rcpts, greeted>>, excused \subseteq excused'
    PROVE  /\ from' # 0 => greeted'
           /\ from' = 0 => rcpts' = <<>>
           /\ \A i \in DOMAIN rcpts' : Fit(from, rcpts[i])'
  BY DEF IInv, ServerSide, Envelope, Fit

LEMMA AnswerIsCommand ==
    ASSUME IInv, NEW verbs, NEW code, Answer(verbs, code), UNCHANGED clientVars,
           LET verb == Head(toServer).verb
           IN  /\ code \in Answers(verb)
               /\ verb = "DATA" => code # 354
               /\ verb \in {"MAIL", "RCPT", "EHLO", "HELO", "RSET", ".", "STARTTLS"} => ~ Ok(code)
               /\ verb = "STARTTLS" => code # 220
               /\ verb = "RCPT" /\ code = 502 => from = 0
               /\ verb = "MAIL" => ~ greeted
    PROVE  CommandStep(code)
<1>1. /\ task = "command" /\ task' = task /\ toServer # <<>> /\ toServer' = Tail(toServer)
      /\ toClient' = IF link # "open" THEN toClient ELSE Append(toClient, code)
      /\ UNCHANGED <<greeted, from, rcpts, errors, excused, route, wanted>>
      /\ UNCHANGED <<link, secure, got, todo, relay, whole, bounds, clientVars>>
  BY DEF Answer, Reads, Take, Say, session, history, clientVars, record, relay
<1>2. \A h : After(h, Head(toServer), code) = h
  BY DEF After
<1>3. rcpts' \in Seq(Addresses) /\ greeted' \in BOOLEAN /\ errors' \in 0 .. ErrorThreshold
      /\ excused' \subseteq (1 .. MaxTxns) \X Addresses /\ excused \subseteq excused'
  BY <1>1, SmtpAssumption DEF IInv, TypeOK, Bounded
<1>4. /\ from' # 0 => greeted'
      /\ from' = 0 => rcpts' = <<>>
      /\ \A i \in DOMAIN rcpts' : Fit(from, rcpts[i])'
  BY <1>1, EnvelopeStays
<1>5. Head(toServer).verb = "MAIL" => from' \in {0, Head(toServer).txn}
  BY <1>1, <1>4
<1>6. \A h \in Heard : Agrees(h) => Holds(After(h, Head(toServer), code), from', rcpts', excused')
  BY <1>1, <1>2 DEF Agrees, Holds
<1>7. LET q == Head(toServer)
      IN  /\ code \in Answers(q.verb)
          /\ ~ (q.verb = "STARTTLS" /\ code = 220)
          /\ ~ (q.verb = "DATA" /\ code = 354)
          /\ q.verb = "RCPT" /\ code = 502 => from = 0
  OBVIOUS
<1>8. from' \in {0, from} /\ task = "command" /\ task' = "command"
  BY <1>1
<1>9. QED
  BY <1>1, <1>3, <1>4, <1>5, <1>6, <1>7, <1>8 DEF CommandStep

\* Commands that are answered and change nothing.
LEMMA IdleCommands ==
    ASSUME IInv, MailRefused \/ RcptRefused \/ DataRefused \/ Chat, UNCHANGED clientVars
    PROVE  \E code \in Codes : CommandStep(code)
<1> DEFINE verb == Head(toServer).verb
<1>0. {250, 252, 454, 501, 502} \subseteq Codes
  BY DEF Codes
<1>1. CASE ~ greeted /\ Answer({"MAIL", "MAIL?"}, 502)
  <2>1. verb \in {"MAIL", "MAIL?"}
    BY <1>1 DEF Answer, Reads
  <2>2. 502 \in Answers(verb) /\ ~ Ok(502)
    BY <1>0, <2>1, CodeClasses DEF Answers
  <2>3. CommandStep(502)
    BY <1>1, <2>1, <2>2, AnswerIsCommand
  <2>4. QED
    BY <1>0, <2>3
<1>2. CASE greeted /\ Answer({"MAIL?"}, 501)
  <2>1. verb = "MAIL?"
    BY <1>2 DEF Answer, Reads
  <2>2. 501 \in Answers(verb)
    BY <2>1 DEF Answers
  <2>3. CommandStep(501)
    BY <1>2, <2>1, <2>2, AnswerIsCommand
  <2>4. QED
    BY <1>0, <2>3
<1>3. CASE from = 0 /\ Answer({"RCPT", "RCPT?"}, 502)
  <2>1. verb \in {"RCPT", "RCPT?"}
    BY <1>3 DEF Answer, Reads
  <2>2. 502 \in Answers(verb) /\ ~ Ok(502)
    BY <1>0, <2>1, CodeClasses DEF Answers
  <2>3. CommandStep(502)
    BY <1>3, <2>1, <2>2, AnswerIsCommand
  <2>4. QED
    BY <1>0, <2>3
<1>4. CASE from # 0 /\ Answer({"RCPT?"}, 501)
  <2>1. verb = "RCPT?"
    BY <1>4 DEF Answer, Reads
  <2>2. 501 \in Answers(verb)
    BY <2>1 DEF Answers
  <2>3. CommandStep(501)
    BY <1>4, <2>1, <2>2, AnswerIsCommand
  <2>4. QED
    BY <1>0, <2>3
<1>5. CASE from = 0 /\ Answer({"DATA"}, 502)
  <2>1. verb = "DATA"
    BY <1>5 DEF Answer, Reads
  <2>2. 502 \in Answers(verb)
    BY <2>1 DEF Answers
  <2>3. CommandStep(502)
    BY <1>5, <2>1, <2>2, AnswerIsCommand
  <2>4. QED
    BY <1>0, <2>3
<1>6. CASE Answer({"NOOP"}, 250) \/ Answer({"VRFY"}, 252) \/ Answer({"AUTH"}, 502)
  <2>1. PICK pair \in {<<"NOOP", 250>>, <<"VRFY", 252>>, <<"AUTH", 502>>} :
            Answer({pair[1]}, pair[2])
    BY <1>6
  <2>2. verb = pair[1]
    BY <2>1 DEF Answer, Reads
  <2>3. pair[2] \in Answers(verb)
    BY <2>1, <2>2 DEF Answers
  <2>4. CommandStep(pair[2])
    BY <2>1, <2>2, <2>3, AnswerIsCommand
  <2>5. QED
    BY <1>0, <2>1, <2>4
<1>7. CASE ~ secure /\ ~ tls /\ Answer({"STARTTLS"}, 454)
  <2>1. verb = "STARTTLS"
    BY <1>7 DEF Answer, Reads
  <2>2. 454 \in Answers(verb) /\ ~ Ok(454)
    BY <1>0, <2>1, CodeClasses DEF Answers
  <2>3. CommandStep(454)
    BY <1>7, <2>1, <2>2, AnswerIsCommand
  <2>4. QED
    BY <1>0, <2>3
<1>8. QED
  BY <1>1, <1>2, <1>3, <1>4, <1>5, <1>6, <1>7 DEF MailRefused, RcptRefused, DataRefused, Chat

LEMMA HelloIsCommand ==
    ASSUME IInv, Hello \/ Rset, UNCHANGED clientVars
    PROVE  CommandStep(250)
<1> DEFINE q == Head(toServer)
<1>1. /\ task = "command" /\ task' = task /\ toServer # <<>> /\ toServer' = Tail(toServer)
      /\ toClient' = IF link # "open" THEN toClient ELSE Append(toClient, 250)
      /\ q.verb \in {"EHLO", "HELO", "RSET"}
      /\ from' = 0 /\ rcpts' = <<>>
      /\ UNCHANGED <<errors, excused>> /\ greeted' \in {TRUE, greeted}
      /\ UNCHANGED <<link, secure, got, todo, relay, whole, bounds, clientVars>>
  BY DEF Hello, Rset, Reads, Take, Say, Reset, session, history, clientVars, record, relay
<1>2. Ok(250)
  BY CodeClasses DEF Codes
<1>3. \A h : After(h, q, 250) = Nothing
  BY <1>1, <1>2 DEF After
<1>4. /\ rcpts' \in Seq(Addresses) /\ greeted' \in BOOLEAN /\ errors' \in 0 .. ErrorThreshold
      /\ excused' \subseteq (1 .. MaxTxns) \X Addresses /\ excused \subseteq excused'
  <2>1. /\ errors \in 0 .. ErrorThreshold + 1 /\ errors <= ErrorThreshold
        /\ greeted \in BOOLEAN /\ excused \subseteq (1 .. MaxTxns) \X Addresses
    BY <1>1, TypeParts DEF IInv, Bounded, SessionTyped, RelayTyped
  <2>2. rcpts' \in Seq(Addresses)
    BY <1>1
  <2>3. errors' \in 0 .. ErrorThreshold
    BY <1>1, <2>1, SmtpAssumption
  <2>4. QED
    BY <1>1, <2>1, <2>2, <2>3
<1>5. \A h \in Heard : Agrees(h) => Holds(After(h, q, 250), from', rcpts', excused')
  BY <1>1, <1>3 DEF Holds, Nothing
<1>6. 250 \in Answers(q.verb)
  BY <1>1 DEF Answers
<1>7. QED
  BY <1>1, <1>4, <1>5, <1>6 DEF CommandStep

LEMMA MailIsCommand ==
    ASSUME IInv, Mail, UNCHANGED clientVars
    PROVE  CommandStep(250)
<1> DEFINE q == Head(toServer)
<1>1. /\ task = "command" /\ task' = task /\ toServer # <<>> /\ toServer' = Tail(toServer)
      /\ toClient' = IF link # "open" THEN toClient ELSE Append(toClient, 250)
      /\ q.verb = "MAIL" /\ greeted
      /\ from' = q.txn /\ rcpts' = <<>>
      /\ UNCHANGED <<errors, excused, greeted>>
      /\ UNCHANGED <<link, secure, got, todo, relay, whole, bounds, clientVars>>
  BY DEF Mail, Reads, Take, Say, session, history, clientVars, record, relay
<1>2. Ok(250)
  BY CodeClasses DEF Codes
<1>3. \A h : After(h, q, 250) = [txn |-> q.txn, rcpts |-> {}]
  BY <1>1, <1>2 DEF After
<1>4. /\ rcpts' \in Seq(Addresses) /\ greeted' \in BOOLEAN /\ errors' \in 0 .. ErrorThreshold
      /\ excused' \subseteq (1 .. MaxTxns) \X Addresses /\ excused \subseteq excused'
  BY <1>1, SmtpAssumption DEF IInv, TypeOK, Bounded
<1>5. \A h \in Heard : Agrees(h) => Holds(After(h, q, 250), from', rcpts', excused')
  BY <1>1, <1>3 DEF Holds
<1>6. 250 \in Answers(q.verb)
  BY <1>1 DEF Answers
<1>7. QED
  BY <1>1, <1>4, <1>5, <1>6 DEF CommandStep

LEMMA RcptIsCommand ==
    ASSUME IInv, Rcpt, UNCHANGED clientVars
    PROVE  CommandStep(250)
<1> DEFINE q == Head(toServer)
<1>1. /\ task = "command" /\ task' = task /\ toServer # <<>> /\ toServer' = Tail(toServer)
      /\ toClient' = IF link # "open" THEN toClient ELSE Append(toClient, 250)
      /\ q.verb = "RCPT" /\ from # 0
      /\ IF route[q.addr] # None THEN rcpts' = Append(rcpts, q.addr) /\ UNCHANGED excused
         ELSE excused' = excused \cup {<<from, q.addr>>} /\ UNCHANGED rcpts
      /\ UNCHANGED <<errors, greeted, from>>
      /\ UNCHANGED <<link, secure, got, todo, relay, whole, bounds, clientVars>>
  BY DEF Rcpt, Reads, Take, Say, session, history, clientVars, record, relay
<1>2. /\ IsWord(toServer[1]) /\ q = toServer[1] /\ From = from /\ Reading
      /\ toServer \in Seq(Item) /\ 1 \in DOMAIN toServer
  BY <1>1, CommandHead, TailFacts DEF IInv, Reading
<1>3. q.addr \in Addresses /\ <<from, q.addr>> \in wanted
  <2>1. q.addr \in Addresses
    BY <1>1, <1>2 DEF IsWord
  <2>2. \A j \in 1 .. 1 - 1 : ~ IsMail(j)
    OBVIOUS
  <2>3. <<From, toServer[1].addr>> \in wanted
    BY <1>1, <1>2, <2>2 DEF IInv, ServerSide, Wants
  <2>4. QED
    BY <1>2, <2>1, <2>3
<1>4. Ok(250)
  BY CodeClasses DEF Codes
<1>5. \A h \in Heard : After(h, q, 250) = [txn |-> h.txn, rcpts |-> h.rcpts \cup {q.addr}]
  BY <1>1, <1>4 DEF After, Heard
<1> HIDE DEF q
<1>6. /\ rcpts \in Seq(Addresses) /\ from \in 1 .. MaxTxns
      /\ excused \subseteq (1 .. MaxTxns) \X Addresses
  BY <1>1 DEF IInv, TypeOK
<1>7. /\ rcpts' \in Seq(Addresses) /\ DOMAIN rcpts \subseteq DOMAIN rcpts'
      /\ \A i \in DOMAIN rcpts : rcpts'[i] = rcpts[i]
      /\ route[q.addr] # None => \E i \in DOMAIN rcpts' : rcpts'[i] = q.addr
      /\ \A i \in DOMAIN rcpts' : i \in DOMAIN rcpts \/ (route[q.addr] # None /\ rcpts'[i] = q.addr)
      /\ rcpts' = <<>> => rcpts = <<>>
  <2>1. CASE route[q.addr] # None
    <3>1. rcpts' = Append(rcpts, q.addr)
      BY <1>1, <2>1
    <3>2. /\ Len(rcpts) \in Nat /\ DOMAIN rcpts = 1 .. Len(rcpts)
          /\ rcpts' \in Seq(Addresses) /\ DOMAIN rcpts' = 1 .. Len(rcpts) + 1
          /\ \A i \in 1 .. Len(rcpts) : rcpts'[i] = rcpts[i]
          /\ rcpts'[Len(rcpts) + 1] = q.addr
      BY <1>3, <1>6, <3>1, AppendFacts
    <3>3. \A i \in 1 .. Len(rcpts) + 1 : i \in 1 .. Len(rcpts) \/ i = Len(rcpts) + 1
      BY <3>2
    <3>4. Len(rcpts) + 1 \in 1 .. Len(rcpts) + 1 /\ 1 .. Len(rcpts) \subseteq 1 .. Len(rcpts) + 1
      BY <3>2
    <3>5. rcpts' # <<>>
      BY <3>2, <3>4
    <3>6. QED
      BY <2>1, <3>2, <3>3, <3>4, <3>5
  <2>2. CASE route[q.addr] = None
    BY <1>1, <1>6, <2>2
  <2>3. QED
    BY <2>1, <2>2
<1>8. /\ excused \subseteq excused' /\ excused' \subseteq (1 .. MaxTxns) \X Addresses
      /\ route[q.addr] = None => <<from, q.addr>> \in excused'
  BY <1>1, <1>3, <1>6
<1>9. \A i \in DOMAIN rcpts' : Fit(from, rcpts[i])'
  <2>1. \A i \in DOMAIN rcpts : Fit(from, rcpts[i])
    BY <1>1 DEF IInv, ServerSide, Envelope
  <2>2. UNCHANGED <<route, wanted, from>>
    BY <1>1 DEF relay, clientVars, record
  <2>3. QED
    BY <1>3, <1>7, <1>8, <2>1, <2>2 DEF Fit
<1>10. \A h \in Heard : Agrees(h) => Holds(After(h, q, 250), from', rcpts', excused')
  <2>1. TAKE h \in Heard
  <2>2. SUFFICES ASSUME Agrees(h)
                 PROVE  \A a \in h.rcpts \cup {q.addr} :
                            (\E i \in DOMAIN rcpts' : rcpts'[i] = a) \/ <<from, a>> \in excused'
    BY <1>1, <1>5 DEF Holds, Agrees
  <2>3. \A a \in h.rcpts : (\E i \in DOMAIN rcpts : rcpts[i] = a) \/ <<from, a>> \in excused
    BY <2>2 DEF Agrees
  <2>4. QED
    BY <1>7, <1>8, <2>3
<1>11. 250 \in Answers(q.verb) /\ ~ (q.verb = "STARTTLS") /\ q.verb # "DATA" /\ q.verb # "MAIL"
  BY <1>1 DEF Answers
<1>12. greeted' /\ greeted' \in BOOLEAN /\ errors' \in 0 .. ErrorThreshold
  BY <1>1, SmtpAssumption DEF IInv, TypeOK, Bounded, ServerSide, Envelope
<1>13. QED
  BY <1>1, <1>7, <1>8, <1>9, <1>10, <1>11, <1>12 DEF CommandStep, q

LEMMA ErrorAnswers ==
    ASSUME NEW verb \in {"", "XYZZ", "BADSHAPE", "STARTTLS"}
    PROVE  500 \in Answers(verb)
<1>1. CASE verb = ""
  BY <1>1, ZenonT(40) DEF Answers
<1>2. CASE verb = "XYZZ"
  BY <1>2 DEF Answers
<1>3. CASE verb = "BADSHAPE"
  BY <1>3 DEF Answers
<1>4. CASE verb = "STARTTLS"
  BY <1>4 DEF Answers
<1>5. QED
  BY <1>1, <1>2, <1>3, <1>4

LEMMA RefusalStays ==
    ASSUME NEW h, NEW q, NEW code, ~ Ok(code)
    PROVE  After(h, q, code) = h
  BY DEF After

LEMMA ErrorIsCommand ==
    ASSUME IInv, ProtocolError, task' = "command", UNCHANGED clientVars
    PROVE  CommandStep(500)
<1> DEFINE q == Head(toServer)
<1>1. /\ task = "command" /\ task' = task /\ toServer # <<>> /\ toServer' = Tail(toServer)
      /\ errors' = errors + 1 /\ ~ errors' > ErrorThreshold
      /\ toClient' = IF link # "open" THEN toClient ELSE Append(toClient, 500)
      /\ q.verb \in {"", "XYZZ", "BADSHAPE", "line", ".", "STARTTLS"}
      /\ UNCHANGED <<from, rcpts, greeted, excused, route, wanted>>
      /\ UNCHANGED <<link, secure, got, todo, relay, whole, bounds, clientVars>>
  BY DEF ProtocolError, Reads, Unknown, Take, Say, End, session, history, clientVars, record, relay
<1>2. IsWord(toServer[1]) /\ q = toServer[1]
  BY <1>1, CommandHead DEF IInv
<1>3. q.verb \in {"", "XYZZ", "BADSHAPE", "STARTTLS"}
  BY <1>1, <1>2 DEF IsWord
<1>4. 500 \in Answers(q.verb)
  BY <1>3, ErrorAnswers
<1>5. \A h : After(h, q, 500) = h
  <2>1. ~ Ok(500)
    BY CodeClasses DEF Codes
  <2>2. QED
    BY <2>1, RefusalStays
<1>6. errors' \in 0 .. ErrorThreshold
  <2>1. errors \in 0 .. ErrorThreshold + 1 /\ ErrorThreshold \in Nat
    BY TypeParts, SmtpAssumption DEF IInv, SessionTyped
  <2>2. errors' = errors + 1 /\ ~ (errors' > ErrorThreshold)
    BY <1>1
  <2>3. QED
    BY <2>1, <2>2
<1>7. rcpts' \in Seq(Addresses) /\ greeted' \in BOOLEAN
      /\ excused' \subseteq (1 .. MaxTxns) \X Addresses /\ excused \subseteq excused'
  BY <1>1, TypeParts DEF IInv, SessionTyped, RelayTyped
<1>8. /\ from' # 0 => greeted'
      /\ from' = 0 => rcpts' = <<>>
      /\ \A i \in DOMAIN rcpts' : Fit(from, rcpts[i])'
  BY <1>1, EnvelopeStays
<1>9. \A h \in Heard : Agrees(h) => Holds(After(h, q, 500), from', rcpts', excused')
  BY <1>1, <1>5 DEF Agrees, Holds
<1>10. /\ from' \in {0, from} /\ task' = "command"
       /\ q.verb # "MAIL" /\ q.verb # "RCPT" /\ q.verb # "DATA"
  BY <1>1, <1>3
<1>11. /\ ~ (q.verb = "STARTTLS" /\ 500 = 220)
       /\ ~ (q.verb = "DATA" /\ 500 = 354)
       /\ q.verb = "RCPT" /\ 500 = 502 => from = 0
       /\ from' \in {0, from} \/ (q.verb = "MAIL" /\ from' = q.txn)
       /\ q.verb = "MAIL" => from' \in {0, q.txn}
  BY <1>10
<1> HIDE DEF q
<1>12. /\ task = "command" /\ task' = "command" /\ toServer # <<>> /\ toServer' = Tail(toServer)
       /\ toClient' = IF link # "open" THEN toClient ELSE Append(toClient, 500)
       /\ UNCHANGED <<link, secure, got, todo, relay, whole, bounds, clientVars>>
  BY <1>1
<1>13. QED
  BY <1>4, <1>6, <1>7, <1>8, <1>9, <1>11, <1>12 DEF CommandStep, q

\* The commands that leave the session in its loop.
LEMMA CommandsIInv ==
    ASSUME IInv, UNCHANGED clientVars,
           \/ Hello \/ Mail \/ MailRefused \/ Rcpt \/ RcptRefused \/ DataRefused \/ Rset \/ Chat
           \/ ProtocolError /\ task' = "command"
    PROVE  IInv'
<1>1. \E code : CommandStep(code)
  BY IdleCommands, HelloIsCommand, MailIsCommand, RcptIsCommand, ErrorIsCommand
<1>2. QED
  BY <1>1, CommandIInv

-----------------------------------------------------------------------------
(* What the other actions leave alone.                                       *)

\* The message being read or filed.
LEMMA TextTyped ==
    ASSUME TypeOK, Numbered, Envelope, task \in {"data", "deliver"}
    PROVE  /\ from \in Txns /\ from \in 1 .. MaxTxns /\ From = from
           /\ mailOf[from] \in Mails
           /\ Text \in Seq(Line) /\ Len(Text) \in Nat /\ Len(Text) > 0
           /\ DOMAIN Text = 1 .. Len(Text)
           /\ \A i \in 1 .. Len(Text) : Text[i] \in Line /\ Text[i].mail = mailOf[from]
           /\ got \in Seq(Line) /\ Len(got) \in Nat /\ DOMAIN got = 1 .. Len(got)
<1>1. from \in Txns /\ From = from
  BY DEF Envelope, Numbered, From
<1>2. from \in 1 .. MaxTxns /\ mailOf[from] # None
  BY <1>1 DEF Txns
<1>3. mailOf[from] \in Mails
  BY <1>2, TypeParts DEF RecordTyped
<1>4. Text \in Seq(Line) /\ Text # <<>> /\ \A i \in DOMAIN Text : Text[i].mail = mailOf[from]
  BY <1>3, SessionAssumption DEF Text
<1>5. got \in Seq(Line)
  BY TypeParts DEF SessionTyped
<1> HIDE DEF Text
<1>6. /\ Len(Text) \in Nat /\ Len(Text) > 0 /\ DOMAIN Text = 1 .. Len(Text)
      /\ \A i \in 1 .. Len(Text) : Text[i] \in Line
      /\ Len(got) \in Nat /\ DOMAIN got = 1 .. Len(got)
  BY <1>4, <1>5
<1>7. QED
  BY <1>1, <1>2, <1>3, <1>4, <1>5, <1>6

\* Where the commands begin in what is on its way to the server.
LEMMA SkipTyped ==
    ASSUME TypeOK, Numbered, Envelope, Message
    PROVE  /\ toServer \in Seq(Item) /\ Len(toServer) \in Nat /\ DOMAIN toServer = 1 .. Len(toServer)
           /\ \A i \in 1 .. Len(toServer) : toServer[i] \in Item /\ toServer[i].txn \in Nat
           /\ Skip \in Nat /\ (task = "data" => Skip > 0)
           /\ \A i \in DOMAIN toServer : toServer[i].verb \notin {"line", "."} => i > Skip
<1>1. toServer \in Seq(Item)
  BY TypeParts DEF WireTyped
<1>2. /\ Len(toServer) \in Nat /\ DOMAIN toServer = 1 .. Len(toServer)
      /\ \A i \in 1 .. Len(toServer) : toServer[i] \in Item
  BY <1>1, EmptyFacts
<1>3. \A i \in 1 .. Len(toServer) : toServer[i].txn \in Nat
  BY <1>2 DEF Item
<1>4. CASE task = "data"
  <2>1. /\ Len(Text) \in Nat /\ Len(got) \in Nat /\ Len(got) <= Len(Text)
        /\ \A i \in DOMAIN toServer : /\ i < Skip => toServer[i] = LineItem(Stuff(Text[Len(got) + i]))
                                      /\ i = Skip => toServer[i] = DotItem
    BY <1>4, TextTyped DEF Message
  <2>2. Skip = Len(Text) - Len(got) + 1
    BY <1>4 DEF Skip
  <2>3. Skip \in Nat /\ Skip > 0
    BY <2>1, <2>2
  <2>4. DotItem.verb = "." /\ \A l : LineItem(l).verb = "line"
    BY DEF DotItem, LineItem, Cmd
  <2>5. ASSUME NEW i \in DOMAIN toServer, toServer[i].verb \notin {"line", "."} PROVE i > Skip
    <3>1. ~ (i < Skip) /\ i # Skip
      BY <2>1, <2>4, <2>5
    <3>2. QED
      BY <1>2, <2>3, <3>1
  <2>6. QED
    BY <1>1, <1>2, <1>3, <2>3, <2>5
<1>5. CASE task # "data"
  BY <1>1, <1>2, <1>3, <1>5 DEF Skip
<1>6. QED
  BY <1>4, <1>5

\* Nothing is read.
LEMMA QueueStays ==
    ASSUME ServerSide, Reading, toServer' = toServer,
           From' \in {0, From}, From \in Nat, \A i \in DOMAIN toServer : i > Skip' => i > Skip,
           UNCHANGED <<link, secure, mailOf, wanted, inClear>>,
           \A t \in Nat : From < t /\ Fresh(t) => Fresh(t)',
           \A i \in DOMAIN toServer : toServer[i].txn \in Nat
    PROVE  Queue' /\ Wants' /\ Newest'
<1>1. Txns' = Txns /\ Current' = Current /\ \A i : IsMail(i)' <=> IsMail(i)
  BY DEF Txns, Current, IsMail
<1>2. Queue /\ Wants /\ Newest
  BY DEF ServerSide
<1>3. Queue'
  <2>1. ASSUME NEW i \in DOMAIN toServer', i > Skip' PROVE IsWord(toServer[i])'
    BY <1>1, <1>2, <2>1 DEF Queue, IsWord
  <2>2. ASSUME NEW i \in DOMAIN toServer', IsMail(i)'
        PROVE  /\ From' < toServer'[i].txn /\ Fresh(toServer[i].txn)'
               /\ secure' => toServer'[i].txn \notin inClear'
    <3>1. /\ From < toServer[i].txn /\ Fresh(toServer[i].txn)
          /\ secure => toServer[i].txn \notin inClear
      BY <1>1, <1>2, <2>2 DEF Queue
    <3>2. toServer[i].txn \in Nat
      OBVIOUS
    <3>3. Fresh(toServer[i].txn)'
      BY <3>1, <3>2
    <3>4. From' < toServer'[i].txn
      BY <3>1, <3>2
    <3>5. QED
      BY <3>1, <3>3, <3>4
  <2>3. QED
    BY <1>1, <1>2, <2>1, <2>2 DEF Queue
<1>4. Wants'
  BY <1>1, <1>2 DEF Wants
<1>5. Newest'
  BY <1>1, <1>2 DEF Newest
<1>6. QED
  BY <1>3, <1>4, <1>5

\* The item at the head is read, and it is no MAIL.
LEMMA QueueAdvances ==
    ASSUME TypeOK, ServerSide, Reading, toServer # <<>>, toServer' = Tail(toServer),
           Head(toServer).verb # "MAIL",
           From' = From, From \in Nat, Skip \in Nat, Skip' \in Nat, Skip' + 1 >= Skip,
           UNCHANGED <<link, secure, mailOf, wanted, inClear>>,
           \A t \in Nat : From < t /\ Fresh(t) => Fresh(t)'
    PROVE  Queue' /\ Wants' /\ Newest'
<1>1. Txns' = Txns /\ Current' = Current
  BY DEF Txns, Current
<1>2. Queue /\ Wants /\ Newest
  BY DEF ServerSide
<1>3. /\ Len(toServer) \in Nat /\ Len(toServer) > 0 /\ DOMAIN toServer = 1 .. Len(toServer)
      /\ Len(toServer') = Len(toServer) - 1 /\ DOMAIN toServer' = 1 .. Len(toServer) - 1
      /\ \A i \in 1 .. Len(toServer) - 1 : toServer'[i] = toServer[i + 1] /\ i + 1 \in 1 .. Len(toServer)
      /\ ~ IsMail(1) /\ toServer \in Seq(Item)
  <2>1. toServer \in Seq(Item)
    BY TypeParts DEF WireTyped
  <2>2. QED
    BY <2>1, TailFacts DEF IsMail
<1>4. \A i \in 1 .. Len(toServer) - 1 : IsMail(i)' <=> IsMail(i + 1)
  BY <1>3 DEF IsMail
<1>5. \A i \in 1 .. Len(toServer) : toServer[i].txn \in Nat
  <2>1. \A i \in 1 .. Len(toServer) : toServer[i] \in Item
    BY <1>3, EmptyFacts
  <2>2. QED
    BY <2>1 DEF Item
<1>6. Queue'
  <2>1. ASSUME NEW i \in DOMAIN toServer', i > Skip' PROVE IsWord(toServer[i])'
    <3>1. i + 1 \in DOMAIN toServer /\ toServer'[i] = toServer[i + 1] /\ i \in Nat
      BY <1>3
    <3>2. i + 1 > Skip
      <4>1. \A a, b, c \in Nat : a > b /\ b + 1 >= c => a + 1 > c
        OBVIOUS
      <4>2. QED
        BY <2>1, <3>1, <4>1
    <3>3. IsWord(toServer[i + 1])
      BY <1>2, <3>1, <3>2 DEF Queue
    <3>4. QED
      BY <1>1, <3>1, <3>3 DEF IsWord
  <2>2. ASSUME NEW i \in DOMAIN toServer', toServer'[i].verb = "DATA" PROVE i = Len(toServer')
    <3>1. i + 1 \in DOMAIN toServer /\ toServer'[i] = toServer[i + 1]
      BY <1>3
    <3>2. i + 1 = Len(toServer)
      BY <1>2, <2>2, <3>1 DEF Queue
    <3>3. QED
      BY <1>3, <3>2
  <2>3. ASSUME NEW i \in DOMAIN toServer', NEW j \in DOMAIN toServer',
               i < j, IsMail(i)', IsMail(j)'
        PROVE  toServer'[i].txn < toServer'[j].txn
    BY <1>2, <1>3, <1>4, <2>3 DEF Queue
  <2>4. ASSUME NEW i \in DOMAIN toServer', IsMail(i)'
        PROVE  /\ From' < toServer'[i].txn /\ Fresh(toServer[i].txn)'
               /\ secure' => toServer'[i].txn \notin inClear'
    <3>1. i + 1 \in 1 .. Len(toServer) /\ IsMail(i + 1) /\ toServer'[i] = toServer[i + 1]
      BY <1>3, <1>4, <2>4
    <3>2. /\ From < toServer[i + 1].txn /\ Fresh(toServer[i + 1].txn)
          /\ secure => toServer[i + 1].txn \notin inClear
      BY <1>2, <1>3, <3>1 DEF Queue
    <3>3. ASSUME NEW t \in Nat, t = toServer[i + 1].txn PROVE Fresh(t)'
      BY <3>2, <3>3
    <3>4. Fresh(toServer[i].txn)'
      BY <1>5, <3>1, <3>3 DEF Fresh
    <3>5. QED
      BY <3>1, <3>2, <3>4
  <2>5. QED
    BY <2>1, <2>2, <2>3, <2>4 DEF Queue
<1>7. Wants'
  <2>1. SUFFICES ASSUME NEW i \in DOMAIN toServer', toServer'[i].verb = "RCPT"
                 PROVE  /\ \A j \in 1 .. i - 1 : IsMail(j)' /\ (\A l \in j + 1 .. i - 1 : ~ IsMail(l)')
                               => <<toServer'[j].txn, toServer'[i].addr>> \in wanted
                        /\ From # 0 /\ (\A j \in 1 .. i - 1 : ~ IsMail(j)')
                               => <<From, toServer'[i].addr>> \in wanted
    BY DEF Wants
  <2>2. /\ i \in 1 .. Len(toServer) - 1 /\ i + 1 \in DOMAIN toServer
        /\ toServer[i + 1].verb = "RCPT" /\ toServer'[i] = toServer[i + 1]
    BY <1>3, <2>1
  <2>3. ASSUME NEW j \in 1 .. i - 1, IsMail(j)', \A l \in j + 1 .. i - 1 : ~ IsMail(l)'
        PROVE  <<toServer'[j].txn, toServer'[i].addr>> \in wanted
    <3>1. j + 1 \in 1 .. (i + 1) - 1 /\ IsMail(j + 1) /\ toServer'[j] = toServer[j + 1]
      BY <1>3, <1>4, <2>2, <2>3
    <3>2. \A l \in (j + 1) + 1 .. (i + 1) - 1 : ~ IsMail(l)
      <4>1. \A l \in (j + 1) + 1 .. (i + 1) - 1 :
                l - 1 \in j + 1 .. i - 1 /\ l - 1 \in 1 .. Len(toServer) - 1 /\ (l - 1) + 1 = l
        BY <2>2, <2>3
      <4>2. QED
        BY <1>4, <2>3, <4>1
    <3>3. QED
      BY <1>2, <2>2, <3>1, <3>2 DEF Wants
  <2>4. ASSUME From # 0, \A j \in 1 .. i - 1 : ~ IsMail(j)'
        PROVE  <<From, toServer'[i].addr>> \in wanted
    <3>1. \A l \in 2 .. (i + 1) - 1 : ~ IsMail(l)
      <4>1. \A l \in 2 .. (i + 1) - 1 : l - 1 \in 1 .. i - 1 /\ l - 1 \in 1 .. Len(toServer) - 1
                                        /\ (l - 1) + 1 = l
        BY <2>2
      <4>2. QED
        BY <1>4, <2>4, <4>1
    <3>2. \A l \in 1 .. (i + 1) - 1 : ~ IsMail(l)
      BY <1>3, <3>1
    <3>3. QED
      BY <1>2, <2>2, <2>4, <3>2 DEF Wants
  <2>5. QED
    BY <2>3, <2>4
<1>8. Newest'
  <2>1. SUFFICES ASSUME link = "open"
                 PROVE  \/ \E i \in DOMAIN toServer' : IsMail(i)' /\ toServer'[i].txn = Current
                        \/ From \in {0, Current} /\ \A i \in DOMAIN toServer' : ~ IsMail(i)'
    BY <1>1 DEF Newest
  <2>2. CASE \E i \in DOMAIN toServer : IsMail(i) /\ toServer[i].txn = Current
    <3>1. PICK i \in DOMAIN toServer : IsMail(i) /\ toServer[i].txn = Current
      BY <2>2
    <3>2. i # 1
      BY <1>3, <3>1
    <3>3. i - 1 \in DOMAIN toServer' /\ (i - 1) + 1 = i /\ i - 1 \in 1 .. Len(toServer) - 1
      BY <1>3, <3>2
    <3>4. IsMail(i - 1)' /\ toServer'[i - 1].txn = Current
      BY <1>3, <1>4, <3>1, <3>3
    <3>5. QED
      BY <3>3, <3>4
  <2>3. CASE From \in {0, Current} /\ \A i \in DOMAIN toServer : ~ IsMail(i)
    BY <1>3, <1>4, <2>3
  <2>4. QED
    BY <1>2, <2>1, <2>2, <2>3 DEF Newest
<1>9. QED
  BY <1>6, <1>7, <1>8

LEMMA RelayStays ==
    ASSUME Relay, UNCHANGED <<sender, link, result, asked, step, secure, mode, left, heard, acked, mailOf>>,
           sender # None /\ link = "open" /\ result # "sent" =>
               task' # "ended" /\ (task' = "handshake" => toServer' = <<>>)
    PROVE  Relay'
<1>1. Txns' = Txns
  BY DEF Txns
<1>2. SentToAll'
  BY <1>1 DEF Relay, SentToAll
<1>3. QED
  BY <1>2 DEF Relay

LEMMA AcksStay ==
    ASSUME TypeOK, Numbered, Acks, UNCHANGED <<link, asked, heard, acked, mailOf>>,
           \A t \in Txns, a \in Addresses : Kept(t, a) => Kept(t, a)',
           link = "open" /\ asked # <<>> /\ asked[1].verb = "." /\ toClient' # <<>> => toClient # <<>>,
           link = "open" => task' # "deliver"
    PROVE  Acks'
<1>1. Txns' = Txns
  BY DEF Txns
<1>2. acked \subseteq (1 .. MaxTxns) \X Addresses /\ heard.rcpts \subseteq Addresses
      /\ (heard.txn # 0 => heard.txn \in Txns)
  BY TypeParts DEF RecordTyped, WireTyped, Heard, Numbered
<1>3. \A ack \in acked' : ack[1] \in Txns' /\ Kept(ack[1], ack[2])'
  <2>1. ASSUME NEW t \in Txns, NEW a \in Addresses, <<t, a>> \in acked PROVE Kept(t, a)'
    BY <2>1 DEF Acks
  <2>2. ASSUME NEW ack \in acked PROVE ack[1] \in Txns /\ Kept(ack[1], ack[2])'
    <3>1. PICK t \in 1 .. MaxTxns, a \in Addresses : ack = <<t, a>>
      BY <1>2
    <3>2. t \in Txns
      BY <3>1 DEF Acks
    <3>3. Kept(t, a)'
      BY <2>1, <3>1, <3>2
    <3>4. QED
      BY <3>1, <3>2, <3>3
  <2>3. QED
    BY <1>1, <2>2
<1>4. QED
  BY <1>2, <1>3 DEF Acks

\* The same where the store, the log and what is excused stay as they are.
LEMMA KeptSame ==
    ASSUME UNCHANGED <<mailOf, excused, activity, store>>
    PROVE  \A t \in Txns, a \in Addresses : Kept(t, a) => Kept(t, a)'
<1>1. Txns' = Txns
  BY DEF Txns
<1>2. ASSUME NEW t \in Txns, NEW a \in Addresses, Kept(t, a) PROVE Kept(t, a)'
  BY <1>1, <1>2 DEF Kept
<1>3. QED
  BY <1>2

\* What was read to the end and filed stays as it is.
LEMMA FiledStays ==
    ASSUME Filed, UNCHANGED <<mailOf, wanted, whole, store>>
    PROVE  Filed'
<1>1. Txns' = Txns
  BY DEF Txns
<1>2. QED
  BY <1>1 DEF Filed

-----------------------------------------------------------------------------
(* DATA: the message is asked for, read and handed over.                     *)

LEMMA DataIInv ==
    ASSUME IInv, Data, UNCHANGED clientVars
    PROVE  IInv'
<1> USE DEF IInv
<1> DEFINE q == Head(toServer)
<1>1. /\ task = "command" /\ task' = "data" /\ toServer # <<>> /\ toServer' = Tail(toServer)
      /\ toClient' = IF link # "open" THEN toClient ELSE Append(toClient, 354)
      /\ q.verb = "DATA" /\ from # 0 /\ got' = <<>>
  BY DEF Data, Reads, Take, Say
<1>2. /\ UNCHANGED <<link, secure, greeted, from, rcpts, errors, todo, tls, route, store, activity, now>>
      /\ UNCHANGED <<whole, excused, reroutes, failures>>
      /\ UNCHANGED <<sender, mode, asked, heard, body, step, left, result, mailOf, wanted, inClear,
                     acked, spoken, conns>>
  BY DEF Data, session, relay, history, bounds, clientVars, script, record
<1>3. /\ IsWord(toServer[1]) /\ q = toServer[1] /\ toServer \in Seq(Item)
      /\ Skip = 0 /\ From = from
  BY <1>1, CommandHead
<1>4. toServer' = <<>> /\ Len(toServer) = 1
  <2>1. 1 \in DOMAIN toServer
    BY <1>1, <1>3
  <2>2. 1 = Len(toServer)
    BY <1>1, <1>3, <2>1 DEF ServerSide, Queue, Reading
  <2>3. QED
    BY <1>1, <1>3, <2>2
<1>5. TypeOK' /\ Bounded'
  <2>1. toClient' \in Seq(Codes)
    <3>1. 354 \in Codes /\ toClient \in Seq(Codes)
      BY TypeParts DEF Codes, WireTyped
    <3>2. QED
      BY <1>1, <3>1, AppendFacts
  <2>2. WireTyped'
    BY <1>2, <1>4, <2>1, TypeParts DEF WireTyped
  <2>3. SessionTyped'
    BY <1>1, <1>2, TypeParts DEF SessionTyped
  <2>4. RelayTyped' /\ ClientTyped' /\ RecordTyped'
    BY <1>2, TypeParts DEF RelayTyped, ClientTyped, RecordTyped
  <2>5. QED
    BY <1>1, <1>2, <2>2, <2>3, <2>4, TypePartsPrime DEF Bounded
<1>6. Numbered'
  <2>1. Txns' = Txns /\ Current' = Current
    BY <1>2 DEF Txns, Current
  <2>2. QED
    BY <1>1, <1>2, <2>1 DEF ServerSide, Numbered
<1>7. Envelope'
  <2>1. Envelope
    BY DEF ServerSide
  <2>2. Fresh(from)' <=> Fresh(from)
    BY <1>2 DEF Fresh
  <2>3. \A i \in DOMAIN rcpts : Fit(from, rcpts[i])
    BY <1>1, <2>1 DEF Envelope
  <2>4. \A i \in DOMAIN rcpts' : Fit(from, rcpts[i])'
    BY <1>2, <2>3 DEF Fit
  <2>5. QED
    BY <1>1, <1>2, <2>1, <2>2, <2>4 DEF Envelope
<1>8. Queue' /\ Wants' /\ Newest'
  <2>1. from \in Nat
    BY TypeParts DEF SessionTyped
  <2>2. q.verb # "MAIL"
    BY <1>1
  <2>3. Skip' \in Nat /\ Skip' + 1 >= Skip
    <3>1. Len(Text)' \in Nat
      BY <1>1, <1>5, <1>6, <1>7, TextTyped DEF Text
    <3>2. Skip' = Len(Text)' - Len(got') + 1 /\ Len(got') = 0
      BY <1>1 DEF Skip
    <3>3. QED
      BY <1>3, <3>1, <3>2
  <2>4. \A t \in Nat : Fresh(t) => Fresh(t)'
    BY <1>2 DEF Fresh
  <2>5. From' = From
    BY <1>1, <1>2, <1>3 DEF From
  <2>6. QED
    BY <1>1, <1>2, <1>3, <2>1, <2>2, <2>3, <2>4, <2>5, QueueAdvances DEF Reading
<1>9. Message'
  <2>1. Len(Text)' \in Nat
    BY <1>1, <1>5, <1>6, <1>7, TextTyped DEF Text
  <2>2. Len(got') = 0 /\ DOMAIN got' = {} /\ DOMAIN toServer' = {}
    BY <1>1, <1>4
  <2>3. QED
    BY <1>1, <2>1, <2>2 DEF Message
<1>10. Filed'
  BY <1>2, FiledStays DEF ServerSide
<1>11. ServerSide'
  BY <1>6, <1>7, <1>8, <1>9, <1>10 DEF ServerSide
<1>12. Sync'
  <2>1. AskedWords'
    BY <1>2 DEF Sync, AskedWords, IsWord, Txns
  <2>2. ASSUME link = "open" PROVE InData'
    <3>1. /\ mode = "talk" /\ AllPlain /\ toClient \in Seq(Codes) /\ asked \in Seq(Item)
          /\ Len(asked) = Len(toClient) + Len(toServer) /\ asked[Len(toClient) + 1] = q
      BY <1>1, <2>2, CommandMatched
    <3>2. Len(toServer) = 1
      BY <1>4
    <3>3. toClient' = Append(toClient, 354) /\ 354 \in Codes
      BY <1>1, <2>2 DEF Codes
    <3>4. /\ Len(toClient) \in Nat /\ DOMAIN toClient = 1 .. Len(toClient)
          /\ Len(toClient') = Len(toClient) + 1
          /\ \A i \in 1 .. Len(toClient) : toClient'[i] = toClient[i]
          /\ toClient'[Len(toClient) + 1] = 354
      BY <3>1, <3>3, AppendFacts
    <3>5. \A i \in 1 .. Len(toClient) : Plain(i)'
      BY <1>2, <3>1, <3>4 DEF AllPlain, Plain
    <3>6. Len(toClient') - 1 = Len(toClient) /\ 0 < Len(toClient') /\ Len(toClient') = Len(asked)
      BY <3>1, <3>2, <3>4
    <3>7. LastIs("DATA", 354)'
      BY <1>1, <1>2, <3>1, <3>4, <3>5, <3>6 DEF LastIs
    <3>8. QED
      BY <1>1, <1>2, <1>4, <3>1, <3>6, <3>7 DEF InData
  <2>3. link # "open" => toClient' = toClient
    BY <1>1
  <2>4. QED
    BY <1>1, <1>2, <2>1, <2>2, <2>3 DEF Sync, Quiet
<1>13. Trace'
  <2>1. \A h \in Heard : After(h, q, 354) = h
    <3>1. ~ Ok(354)
      BY CodeClasses DEF Codes
    <3>2. QED
      BY <3>1, RefusalStays
  <2>2. \A h \in Heard : Agrees(h) => Holds(After(h, q, 354), from', rcpts', excused')
    BY <1>2, <2>1 DEF Agrees, Holds
  <2>3. link = "open" => toClient' = Append(toClient, 354)
    BY <1>1
  <2>4. 354 \in Codes /\ ~ (q.verb = "RCPT" /\ 354 = 502)
    BY <1>1 DEF Codes
  <2>5. QED
    BY <1>1, <1>2, <2>2, <2>3, <2>4, TraceGrows
<1>14. Acks'
  <2>1. link = "open" /\ asked # <<>> /\ asked[1].verb = "." => toClient # <<>>
    <3>1. SUFFICES ASSUME link = "open", asked # <<>>, asked[1].verb = ".", toClient = <<>>
                   PROVE  FALSE
      OBVIOUS
    <3>2. asked[1] = q
      BY <1>1, <3>1, CommandMatched
    <3>3. QED
      BY <1>1, <3>1, <3>2
  <2>2. \A t \in Txns, a \in Addresses : Kept(t, a) => Kept(t, a)'
    BY <1>2, KeptSame
  <2>3. QED
    BY <1>1, <1>2, <2>1, <2>2, AcksStay DEF ServerSide
<1>15. Relay'
  BY <1>1, <1>2, RelayStays
<1>16. QED
  BY <1>5, <1>11, <1>12, <1>13, <1>14, <1>15

\* Dot-stuffing is undone, and what it leaves is never taken for the end.
LEMMA StuffFacts ==
    ASSUME NEW l \in Line
    PROVE  /\ Unstuff(Stuff(l)) = l /\ ~ IsDot(Stuff(l))
           /\ AsLine(LineItem(Stuff(l))) = Stuff(l) /\ LineItem(Stuff(l)).verb = "line"
<1>1. Stuff(l) = [mail |-> l.mail, dots |-> IF l.dots > 0 THEN l.dots + 1 ELSE l.dots, text |-> l.text]
  BY DEF Stuff, Line
<1>2. l.dots \in Nat
  BY DEF Line
<1>3. Stuff(l).dots # 1 /\ (l.dots > 0 => Stuff(l).dots > 0 /\ Stuff(l).dots - 1 = l.dots)
      /\ (~ (l.dots > 0) => ~ (Stuff(l).dots > 0) /\ Stuff(l).dots = l.dots)
  BY <1>1, <1>2
<1>4. Unstuff(Stuff(l)) =
          [mail |-> l.mail, dots |-> IF Stuff(l).dots > 0 THEN Stuff(l).dots - 1 ELSE Stuff(l).dots,
           text |-> l.text]
  BY <1>1 DEF Unstuff
<1>5. Unstuff(Stuff(l)) = [mail |-> l.mail, dots |-> l.dots, text |-> l.text]
  BY <1>3, <1>4
<1>6. l = [mail |-> l.mail, dots |-> l.dots, text |-> l.text]
  BY DEF Line
<1>7. LineItem(Stuff(l)).verb = "line" /\ LineItem(Stuff(l)).line = Stuff(l)
  BY DEF LineItem, Cmd
<1>8. QED
  BY <1>3, <1>5, <1>6, <1>7 DEF IsDot, AsLine

LEMMA DotFacts == AsLine(DotItem) = Dot /\ IsDot(Dot) /\ DotItem.verb = "."
  BY DEF AsLine, DotItem, Cmd, Dot, Blank, IsDot

\* The next thing read_data reads: a line of the message, or the dot behind the last one.
LEMMA NextLine ==
    ASSUME TypeOK, Numbered, Envelope, Message, task = "data", toServer # <<>>
    PROVE  \/ /\ Skip = 1 /\ Head(toServer) = DotItem /\ IsDot(AsLine(Head(toServer))) /\ got = Text
           \/ /\ Skip > 1 /\ Len(got) < Len(Text) /\ Head(toServer).verb = "line"
              /\ ~ IsDot(AsLine(Head(toServer)))
              /\ Unstuff(AsLine(Head(toServer))) = Text[Len(got) + 1]
<1>1. /\ Text \in Seq(Line) /\ Len(Text) \in Nat /\ Len(got) \in Nat /\ got \in Seq(Line)
      /\ DOMAIN got = 1 .. Len(got) /\ Len(got) <= Len(Text)
      /\ \A i \in 1 .. Len(Text) : Text[i] \in Line
      /\ \A i \in DOMAIN got : got[i] = Text[i]
  BY TextTyped DEF Message
<1>2. Skip = Len(Text) - Len(got) + 1
  BY DEF Skip
<1>3. /\ toServer \in Seq(Item) /\ 1 \in DOMAIN toServer /\ Head(toServer) = toServer[1]
  <2>1. toServer \in Seq(Item)
    BY TypeParts DEF WireTyped
  <2>2. QED
    BY <2>1, TailFacts
<1>4. /\ 1 < Skip => toServer[1] = LineItem(Stuff(Text[Len(got) + 1]))
      /\ 1 = Skip => toServer[1] = DotItem
  BY <1>3 DEF Message
<1> HIDE DEF Text
<1>5. CASE Len(got) = Len(Text)
  <2>1. Skip = 1
    BY <1>1, <1>2, <1>5
  <2>2. got = Text
    BY <1>1, <1>5, SameSeq
  <2>3. QED
    BY <1>3, <1>4, <2>1, <2>2, DotFacts
<1>6. CASE Len(got) # Len(Text)
  <2>1. Len(got) < Len(Text) /\ Len(got) + 1 \in 1 .. Len(Text)
    BY <1>1, <1>6
  <2>2. Skip > 1
    BY <1>1, <1>2, <2>1
  <2>3. Text[Len(got) + 1] \in Line
    BY <1>1, <2>1
  <2>4. Head(toServer) = LineItem(Stuff(Text[Len(got) + 1]))
    BY <1>3, <1>4, <2>2
  <2>5. QED
    BY <2>1, <2>2, <2>3, <2>4, StuffFacts
<1>7. QED
  BY <1>5, <1>6

LEMMA ReadLineIInv ==
    ASSUME IInv, ReadLine, UNCHANGED clientVars
    PROVE  IInv'
<1> USE DEF IInv
<1>1. /\ task = "data" /\ task' = "data" /\ toServer # <<>> /\ toServer' = Tail(toServer)
      /\ ~ IsDot(AsLine(Head(toServer))) /\ got' = Append(got, Unstuff(AsLine(Head(toServer))))
  BY DEF ReadLine, Take
<1>2. /\ UNCHANGED <<link, toClient, secure, greeted, from, rcpts, errors, todo>>
      /\ UNCHANGED <<tls, route, store, activity, now, whole, excused, reroutes, failures>>
      /\ UNCHANGED <<sender, mode, asked, heard, body, step, left, result, mailOf, wanted, inClear,
                     acked, spoken, conns>>
  BY DEF ReadLine, session, relay, history, bounds, clientVars, script, record
<1>3. Numbered /\ Envelope /\ Message /\ Filed
  BY DEF ServerSide
<1>4. /\ from \in Txns /\ from \in 1 .. MaxTxns /\ From = from
      /\ Text \in Seq(Line) /\ Len(Text) \in Nat /\ got \in Seq(Line) /\ Len(got) \in Nat
      /\ \A i \in 1 .. Len(Text) : Text[i] \in Line
  BY <1>1, <1>3, TextTyped
<1>5. /\ Skip > 1 /\ Len(got) < Len(Text) /\ Head(toServer).verb = "line"
      /\ got' = Append(got, Text[Len(got) + 1])
  BY <1>1, <1>3, NextLine
<1>6. Text' = Text
  BY <1>2 DEF Text
<1>7. /\ toServer \in Seq(Item) /\ Len(toServer) \in Nat /\ Len(toServer) > 0
      /\ toServer' \in Seq(Item)
      /\ DOMAIN toServer = 1 .. Len(toServer)
      /\ Len(toServer') = Len(toServer) - 1 /\ DOMAIN toServer' = 1 .. Len(toServer) - 1
      /\ \A i \in 1 .. Len(toServer) - 1 : toServer'[i] = toServer[i + 1] /\ i + 1 \in 1 .. Len(toServer)
  <2>1. toServer \in Seq(Item)
    BY TypeParts DEF WireTyped
  <2>2. QED
    BY <1>1, <2>1, TailFacts
<1>8. Text[Len(got) + 1] \in Line
  BY <1>4, <1>5
<1> HIDE DEF Text
<1>9. /\ got' \in Seq(Line) /\ Len(got') = Len(got) + 1 /\ DOMAIN got' = 1 .. Len(got) + 1
      /\ DOMAIN got = 1 .. Len(got)
      /\ \A i \in 1 .. Len(got) : got'[i] = got[i]
      /\ got'[Len(got) + 1] = Text[Len(got) + 1]
  BY <1>4, <1>5, <1>8, AppendFacts
<1>10. Skip = Len(Text) - Len(got) + 1 /\ Skip' = Len(Text) - Len(got') + 1
  BY <1>1, <1>6 DEF Skip
<1>11. Skip \in Nat /\ Skip' \in Nat /\ Skip' = Skip - 1 /\ Skip' > 0
  BY <1>4, <1>5, <1>9, <1>10
<1>12. TypeOK' /\ Bounded'
  <2>1. WireTyped'
    BY <1>2, <1>7, TypeParts DEF WireTyped
  <2>2. SessionTyped'
    BY <1>1, <1>2, <1>9, TypeParts DEF SessionTyped
  <2>3. RelayTyped' /\ ClientTyped' /\ RecordTyped'
    BY <1>2, TypeParts DEF RelayTyped, ClientTyped, RecordTyped
  <2>4. QED
    BY <1>1, <1>2, <2>1, <2>2, <2>3, TypePartsPrime DEF Bounded
<1>13. Numbered'
  <2>1. Txns' = Txns /\ Current' = Current
    BY <1>2 DEF Txns, Current
  <2>2. QED
    BY <1>1, <1>2, <1>3, <2>1 DEF Numbered
<1>14. Envelope'
  <2>1. Fresh(from)' <=> Fresh(from)
    BY <1>2 DEF Fresh
  <2>2. \A i \in DOMAIN rcpts : Fit(from, rcpts[i])
    BY <1>1, <1>3 DEF Envelope
  <2>3. \A i \in DOMAIN rcpts' : Fit(from, rcpts[i])'
    BY <1>2, <2>2 DEF Fit
  <2>4. QED
    BY <1>1, <1>2, <1>3, <2>1, <2>3 DEF Envelope
<1>15. Queue' /\ Wants' /\ Newest'
  <2>1. Head(toServer).verb # "MAIL" /\ From \in Nat /\ From' = From
    BY <1>1, <1>2, <1>4, <1>5 DEF From
  <2>2. Skip' + 1 >= Skip
    BY <1>11
  <2>3. \A t \in Nat : Fresh(t) => Fresh(t)'
    BY <1>2 DEF Fresh
  <2>4. QED
    BY <1>1, <1>2, <1>11, <2>1, <2>2, <2>3, QueueAdvances DEF Reading
<1>16. Message'
  <2>1. Len(got') <= Len(Text)
    BY <1>4, <1>5, <1>9
  <2>2. \A i \in DOMAIN got' : got'[i] = Text[i]
    <3>1. \A i \in 1 .. Len(got) + 1 : i \in 1 .. Len(got) \/ i = Len(got) + 1
      BY <1>4
    <3>2. \A i \in 1 .. Len(got) : got[i] = Text[i]
      BY <1>1, <1>3, <1>9 DEF Message
    <3>3. QED
      BY <1>9, <3>1, <3>2
  <2>3. ASSUME NEW i \in DOMAIN toServer'
        PROVE  /\ i < Skip' => toServer'[i] = LineItem(Stuff(Text[Len(got') + i]))
               /\ i = Skip' => toServer'[i] = DotItem
    <3>1. i + 1 \in DOMAIN toServer /\ toServer'[i] = toServer[i + 1] /\ i \in Nat
      BY <1>7
    <3>2. /\ i + 1 < Skip => toServer[i + 1] = LineItem(Stuff(Text[Len(got) + (i + 1)]))
          /\ i + 1 = Skip => toServer[i + 1] = DotItem
      BY <1>1, <1>3, <3>1 DEF Message
    <3>3. Len(got') + i = Len(got) + (i + 1)
      BY <1>4, <1>9, <3>1
    <3>4. (i < Skip' => i + 1 < Skip) /\ (i = Skip' => i + 1 = Skip)
      BY <1>11, <3>1
    <3>5. QED
      BY <3>1, <3>2, <3>3, <3>4
  <2>4. QED
    BY <1>1, <1>6, <2>1, <2>2, <2>3 DEF Message
<1>17. Filed'
  BY <1>2, <1>3, FiledStays
<1>18. ServerSide'
  BY <1>13, <1>14, <1>15, <1>16, <1>17 DEF ServerSide
<1>19. Sync'
  <2>1. AskedWords'
    BY <1>2 DEF Sync, AskedWords, IsWord, Txns
  <2>2. ASSUME link = "open" PROVE InData'
    <3>1. InData
      BY <1>1, <2>2 DEF Sync
    <3>2. mode = "talk" /\ Silent /\ Skip <= Len(toServer) /\ Matched(Skip - 1)
      BY <1>1, <3>1 DEF InData
    <3>3. asked \in Seq(Item) /\ toClient = <<>> /\ Len(toClient) = 0
      BY <3>2, TypeParts DEF WireTyped, Silent
    <3>4. /\ Len(asked) = Len(toServer) - (Skip - 1)
          /\ \A i \in 1 .. Len(toServer) - (Skip - 1) : asked[i] = toServer[(Skip - 1) + i]
      <4>1. \A i \in Nat : 0 + i = i
        OBVIOUS
      <4>2. Len(toServer) - (Skip - 1) = 0 + Len(toServer) - (Skip - 1)
        BY <1>7, <1>11
      <4>3. 1 .. Len(toServer) - (Skip - 1) \subseteq Nat
        BY <1>7, <1>11
      <4>4. QED
        BY <3>2, <3>3, <4>1, <4>2, <4>3 DEF Matched
    <3>5. Len(asked) = 0 + Len(toServer') - (Skip' - 1)
      BY <1>7, <1>11, <3>4
    <3>6. ASSUME NEW i \in 1 .. Len(toServer') - (Skip' - 1)
          PROVE  asked[0 + i] = toServer'[(Skip' - 1) + i]
      <4>1. /\ i \in 1 .. Len(toServer) - (Skip - 1) /\ 0 + i = i
            /\ (Skip' - 1) + i \in 1 .. Len(toServer) - 1 /\ ((Skip' - 1) + i) + 1 = (Skip - 1) + i
        BY <1>7, <1>11
      <4>2. QED
        BY <1>7, <3>4, <4>1
    <3>7. Matched(Skip - 1)'
      BY <1>2, <3>3, <3>5, <3>6 DEF Matched
    <3>8. Skip' <= Len(toServer')
      BY <1>7, <1>11, <3>2
    <3>9. QED
      BY <1>2, <3>2, <3>7, <3>8 DEF InData, Silent
  <2>3. QED
    BY <1>1, <1>2, <2>1, <2>2 DEF Sync, Quiet
<1>20. Trace'
  BY <1>1, <1>2 DEF Trace, Agrees
<1>21. Acks'
  <2>1. \A t \in Txns, a \in Addresses : Kept(t, a) => Kept(t, a)'
    BY <1>2, KeptSame
  <2>2. QED
    BY <1>1, <1>2, <1>3, <2>1, AcksStay
<1>22. Relay'
  BY <1>1, <1>2, RelayStays
<1>23. QED
  BY <1>12, <1>18, <1>19, <1>20, <1>21, <1>22

LEMMA EndOfDataIInv ==
    ASSUME IInv, EndOfData, UNCHANGED clientVars
    PROVE  IInv'
<1> USE DEF IInv
<1>1. /\ task = "data" /\ task' = "deliver" /\ todo' = rcpts
      /\ \/ /\ toServer # <<>> /\ IsDot(AsLine(Head(toServer)))
            /\ toServer' = Tail(toServer) /\ whole' = whole \cup {from}
         \/ toServer = <<>> /\ link = "fin" /\ UNCHANGED <<toServer, whole>>
  BY DEF EndOfData, Take
<1>2. /\ UNCHANGED <<link, toClient, secure, greeted, from, rcpts, errors, got>>
      /\ UNCHANGED <<tls, route, store, activity, now, excused, reroutes, failures>>
      /\ UNCHANGED <<sender, mode, asked, heard, body, step, left, result, mailOf, wanted, inClear,
                     acked, spoken, conns>>
  BY DEF EndOfData, session, relay, bounds, clientVars, script, record
<1>3. Numbered /\ Envelope /\ Message /\ Filed
  BY DEF ServerSide
<1>4. from \in Txns /\ from \in 1 .. MaxTxns /\ From = from /\ From' = from
  BY <1>1, <1>2, <1>3, TextTyped DEF From
<1>5. toServer # <<>> => /\ Skip = 1 /\ Head(toServer) = DotItem /\ got = Text
  BY <1>1, <1>3, NextLine
<1>6. Text' = Text /\ Skip' = 0
  BY <1>1, <1>2 DEF Text, Skip
<1>7. toServer \in Seq(Item) /\ toServer' \in Seq(Item)
  <2>1. toServer \in Seq(Item)
    BY TypeParts DEF WireTyped
  <2>2. QED
    BY <1>1, <2>1, TailFacts
<1>8. Fresh(from) /\ from # 0
  BY <1>1, <1>3 DEF Envelope
<1>9. whole \subseteq whole' /\ whole' \subseteq whole \cup {from}
  BY <1>1
<1>10. Txns' = Txns /\ Current' = Current
  BY <1>2 DEF Txns, Current
<1>11. TypeOK' /\ Bounded'
  <2>1. WireTyped'
    BY <1>2, <1>7, TypeParts DEF WireTyped
  <2>2. SessionTyped'
    BY <1>1, <1>2, TypeParts DEF SessionTyped
  <2>3. whole' \subseteq 1 .. MaxTxns
    BY <1>4, <1>9, TypeParts DEF RelayTyped
  <2>4. RelayTyped' /\ ClientTyped' /\ RecordTyped'
    BY <1>2, <2>3, TypeParts DEF RelayTyped, ClientTyped, RecordTyped
  <2>5. QED
    BY <1>1, <1>2, <2>1, <2>2, <2>4, TypePartsPrime DEF Bounded
<1>12. Numbered'
  BY <1>1, <1>2, <1>3, <1>4, <1>9, <1>10 DEF Numbered
<1>13. Envelope'
  <2>1. \A i \in DOMAIN rcpts : Fit(from, rcpts[i])
    BY <1>1, <1>3 DEF Envelope
  <2>2. \A i \in DOMAIN todo' : Fit(from, todo[i])'
    BY <1>1, <1>2, <2>1 DEF Fit
  <2>3. QED
    BY <1>1, <1>2, <1>3, <1>8, <2>2 DEF Envelope
<1>14. Queue' /\ Wants' /\ Newest'
  <2>1. \A t \in Nat : from < t /\ Fresh(t) => Fresh(t)'
    <3>1. SUFFICES ASSUME NEW t \in Nat, from < t, Fresh(t) PROVE t \notin whole'
      BY <1>2 DEF Fresh
    <3>2. t # from
      BY <1>4, <3>1
    <3>3. QED
      BY <1>9, <3>1, <3>2 DEF Fresh
  <2>2. CASE toServer # <<>>
    <3>1. Head(toServer).verb # "MAIL" /\ Skip = 1 /\ toServer' = Tail(toServer)
      BY <1>1, <1>5, <2>2, DotFacts
    <3>2. Skip \in Nat /\ Skip' \in Nat /\ Skip' + 1 >= Skip /\ From \in Nat /\ From' = From
      BY <1>4, <1>6, <3>1
    <3>3. QED
      BY <1>1, <1>2, <1>4, <2>1, <2>2, <3>1, <3>2, QueueAdvances DEF Reading
  <2>3. CASE toServer = <<>>
    <3>1. toServer' = <<>> /\ link' # "open" /\ DOMAIN toServer' = {}
      BY <1>1, <1>2, <2>3
    <3>2. QED
      BY <3>1 DEF Queue, Wants, Newest
  <2>4. QED
    BY <2>2, <2>3
<1>15. Message'
  <2>1. from \in whole' => toServer # <<>>
    BY <1>1, <1>8 DEF Fresh
  <2>2. QED
    BY <1>1, <1>2, <1>3, <1>5, <1>6, <2>1 DEF Message
<1>16. Filed'
  <2>1. ASSUME NEW a \in Accounts, NEW c \in store[a], c.txn \in whole' PROVE c.txn \in whole
    BY <1>8, <1>9, <2>1 DEF Fresh
  <2>2. QED
    BY <1>2, <1>3, <1>10, <2>1 DEF Filed
<1>17. ServerSide'
  BY <1>12, <1>13, <1>14, <1>15, <1>16 DEF ServerSide
<1>18. ASSUME link = "open"
       PROVE  /\ toServer # <<>> /\ toServer' = Tail(toServer) /\ whole' = whole \cup {from}
              /\ mode = "talk" /\ toClient = <<>> /\ Len(toClient) = 0 /\ asked \in Seq(Item)
              /\ Len(asked) = Len(toServer)
              /\ \A i \in 1 .. Len(toServer) : asked[i] = toServer[i]
  <2>1. toServer # <<>> /\ toServer' = Tail(toServer) /\ whole' = whole \cup {from}
    BY <1>1, <1>18
  <2>2. mode = "talk" /\ Silent /\ Matched(Skip - 1)
    BY <1>1, <1>18, <2>1 DEF Sync, InData
  <2>3. asked \in Seq(Item) /\ toClient = <<>> /\ Len(toClient) = 0 /\ Len(toServer) \in Nat
    BY <1>7, <2>2, TypeParts DEF WireTyped, Silent
  <2>4. Matched(0)
    BY <1>5, <2>1, <2>2
  <2>5. /\ Len(asked) = 0 + Len(toServer) - 0
        /\ \A i \in 1 .. Len(toServer) - 0 : asked[0 + i] = toServer[0 + i]
    BY <2>3, <2>4 DEF Matched
  <2>6. Len(asked) = Len(toServer) /\ \A i \in 1 .. Len(toServer) : 0 + i = i
        /\ 1 .. Len(toServer) - 0 = 1 .. Len(toServer)
    BY <2>3, <2>5
  <2>7. \A i \in 1 .. Len(toServer) : asked[i] = toServer[i]
    <3>1. TAKE i \in 1 .. Len(toServer)
    <3>2. i \in 1 .. Len(toServer) - 0 /\ 0 + i = i
      BY <2>6
    <3>3. QED
      BY <2>5, <3>2
  <2>8. QED
    BY <2>1, <2>2, <2>3, <2>6, <2>7
<1>19. Sync'
  <2>1. AskedWords'
    BY <1>2 DEF Sync, AskedWords, IsWord, Txns
  <2>2. ASSUME link = "open" PROVE InDeliver'
    <3>1. /\ Len(toServer) \in Nat /\ Len(toServer) > 0 /\ Head(toServer) = toServer[1]
          /\ Len(toServer') = Len(toServer) - 1 /\ DOMAIN toServer' = 1 .. Len(toServer) - 1
          /\ \A i \in 1 .. Len(toServer) - 1 : toServer'[i] = toServer[i + 1]
      BY <1>7, <1>18, <2>2, TailFacts
    <3>2. asked[1] = DotItem /\ asked # <<>>
      BY <1>5, <1>18, <2>2, <3>1
    <3>3. Len(asked) = Len(toServer') + 1
      BY <1>18, <2>2, <3>1
    <3>4. \A i \in DOMAIN toServer' : asked[i + 1] = toServer'[i]
      BY <1>18, <2>2, <3>1
    <3>5. QED
      BY <1>2, <1>18, <2>2, <3>2, <3>3, <3>4 DEF InDeliver, AtDot, Silent
  <2>3. QED
    BY <1>1, <1>2, <2>1, <2>2 DEF Sync, Quiet
<1>20. Trace'
  BY <1>1 DEF Trace
<1>21. Acks'
  <2>1. \A t \in Txns, a \in Addresses : Kept(t, a) => Kept(t, a)'
    BY <1>2, KeptSame
  <2>2. acked \subseteq (1 .. MaxTxns) \X Addresses /\ heard \in Heard
    BY TypeParts DEF RecordTyped, WireTyped
  <2>3. \A ack \in acked' : ack[1] \in Txns' /\ Kept(ack[1], ack[2])'
    <3>1. ASSUME NEW ack \in acked PROVE ack[1] \in Txns /\ Kept(ack[1], ack[2])'
      <4>1. PICK t \in 1 .. MaxTxns, a \in Addresses : ack = <<t, a>>
        BY <2>2
      <4>2. t \in Txns /\ Kept(t, a)
        BY <4>1 DEF Acks
      <4>3. Kept(t, a)'
        BY <2>1, <4>2
      <4>4. QED
        BY <4>1, <4>2, <4>3
    <3>2. QED
      BY <1>2, <1>10, <3>1
  <2>4. ASSUME link = "open"
        PROVE  /\ toClient' = <<>> /\ from \in whole' /\ heard.txn = from
               /\ \A a \in heard.rcpts : (\E i \in DOMAIN todo' : todo'[i] = a) \/ Kept(from, a)'
    <3>1. PICK H \in [0 .. Len(toClient) -> Heard] : H[0] = heard /\ Agrees(H[Len(toClient)])
      BY <1>1, <2>4 DEF Trace
    <3>2. Agrees(heard)
      BY <1>18, <2>4, <3>1
    <3>3. \A a \in heard.rcpts : (\E i \in DOMAIN todo' : todo'[i] = a) \/ <<from, a>> \in excused'
      BY <1>1, <1>2, <3>2 DEF Agrees
    <3>4. \A a : <<from, a>> \in excused' => Kept(from, a)'
      BY <1>2, <1>4, <1>10 DEF Kept
    <3>5. QED
      BY <1>2, <1>18, <2>4, <3>2, <3>3, <3>4 DEF Agrees
  <2>5. QED
    BY <1>1, <1>2, <2>3, <2>4 DEF Acks
<1>22. Relay'
  BY <1>1, <1>2, RelayStays
<1>23. QED
  BY <1>11, <1>17, <1>19, <1>20, <1>21, <1>22

LEMMA AckedStays ==
    ASSUME TypeOK, Acks, UNCHANGED <<acked, mailOf>>,
           \A t \in Txns, a \in Addresses : Kept(t, a) => Kept(t, a)'
    PROVE  \A ack \in acked' : ack[1] \in Txns' /\ Kept(ack[1], ack[2])'
<1>1. Txns' = Txns
  BY DEF Txns
<1>2. ASSUME NEW ack \in acked PROVE ack[1] \in Txns /\ Kept(ack[1], ack[2])'
  <2>1. acked \subseteq (1 .. MaxTxns) \X Addresses
    BY TypeParts DEF RecordTyped
  <2>2. PICK t \in 1 .. MaxTxns, a \in Addresses : ack = <<t, a>>
    BY <2>1
  <2>3. t \in Txns /\ Kept(t, a)
    BY <2>2 DEF Acks
  <2>4. Kept(t, a)'
    BY <2>3
  <2>5. QED
    BY <2>2, <2>3, <2>4
<1>3. QED
  BY <1>1, <1>2

\* What InDeliver and the plaintext banner have in common.
LEMMA OneAhead ==
    ASSUME TypeOK, asked # <<>>, Len(asked) = Len(toServer) + 1,
           \A i \in DOMAIN toServer : asked[i + 1] = toServer[i],
           UNCHANGED <<toServer, asked>>, Len(toClient') = 1
    PROVE  Matched(0)'
<1>1. toServer \in Seq(Item) /\ asked \in Seq(Item)
  BY TypeParts DEF WireTyped
<1>2. Len(toServer) \in Nat /\ DOMAIN toServer = 1 .. Len(toServer)
  BY <1>1
<1>3. Len(asked) = 1 + Len(toServer) - 0
  BY <1>2
<1>4. ASSUME NEW i \in 1 .. Len(toServer) - 0 PROVE asked[1 + i] = toServer[0 + i]
  <2>1. i \in DOMAIN toServer /\ 1 + i = i + 1 /\ 0 + i = i
    BY <1>2
  <2>2. QED
    BY <2>1
<1>5. QED
  BY <1>3, <1>4 DEF Matched

LEMMA DeliveredIInv ==
    ASSUME IInv, Delivered, UNCHANGED clientVars
    PROVE  IInv'
<1> USE DEF IInv
<1>1. /\ task = "deliver" /\ task' = "command" /\ todo = <<>> /\ from' = 0 /\ rcpts' = <<>>
      /\ toClient' = IF link # "open" THEN toClient ELSE Append(toClient, 250)
  BY DEF Delivered, Reset, Say
<1>2. /\ UNCHANGED <<link, toServer, secure, greeted, errors, got, todo>>
      /\ UNCHANGED <<tls, route, store, activity, now, whole, excused, reroutes, failures>>
      /\ UNCHANGED <<sender, mode, asked, heard, body, step, left, result, mailOf, wanted, inClear,
                     acked, spoken, conns>>
  BY DEF Delivered, relay, history, bounds, clientVars, script, record
<1>3. Numbered /\ Envelope /\ Message /\ Filed
  BY DEF ServerSide
<1>4. from \in Txns /\ from \in 1 .. MaxTxns /\ From = from /\ From' = 0
  BY <1>1, <1>3, TextTyped DEF From
<1>5. Txns' = Txns /\ Current' = Current
  BY <1>2 DEF Txns, Current
<1>6. link = "open" => toClient' = <<250>> /\ Silent /\ InDeliver
  <2>1. link = "open" => InDeliver /\ Silent
    BY <1>1 DEF Sync, InDeliver, AtDot
  <2>2. QED
    BY <1>1, <2>1 DEF Silent
<1>7. TypeOK' /\ Bounded'
  <2>1. toClient' \in Seq(Codes)
    <3>1. 250 \in Codes /\ toClient \in Seq(Codes)
      BY TypeParts DEF Codes, WireTyped
    <3>2. QED
      BY <1>1, <3>1, AppendFacts
  <2>2. WireTyped'
    BY <1>2, <2>1, TypeParts DEF WireTyped
  <2>3. SessionTyped'
    <3>1. 0 \in 0 .. MaxTxns /\ <<>> \in Seq(Addresses)
      BY SessionAssumption
    <3>2. QED
      BY <1>1, <1>2, <3>1, TypeParts DEF SessionTyped
  <2>4. RelayTyped' /\ ClientTyped' /\ RecordTyped'
    BY <1>2, TypeParts DEF RelayTyped, ClientTyped, RecordTyped
  <2>5. QED
    BY <1>1, <1>2, <2>2, <2>3, <2>4, TypePartsPrime DEF Bounded
<1>8. Numbered'
  BY <1>1, <1>2, <1>3, <1>5 DEF Numbered
<1>9. Envelope'
  <2>1. 0 \notin inClear
    BY <1>3 DEF Numbered, Txns
  <2>2. QED
    BY <1>1, <1>2, <2>1 DEF Envelope
<1>10. Queue' /\ Wants' /\ Newest'
  <2>1. /\ \A i \in DOMAIN toServer : i > Skip' => i > Skip
        /\ \A i \in DOMAIN toServer : toServer[i].txn \in Nat
    <3>1. Skip' = Skip
      BY <1>1 DEF Skip
    <3>2. QED
      BY <1>3, <3>1, SkipTyped
  <2>2. From' \in {0, From} /\ From \in Nat
    BY <1>4
  <2>3. \A t \in Nat : Fresh(t) => Fresh(t)'
    BY <1>2 DEF Fresh
  <2>4. QED
    BY <1>1, <1>2, <2>1, <2>2, <2>3, QueueStays DEF Reading
<1>11. Message' /\ Filed'
  BY <1>1, <1>2, <1>3, FiledStays DEF Message
<1>12. ServerSide'
  BY <1>8, <1>9, <1>10, <1>11 DEF ServerSide
<1>13. Sync'
  <2>1. AskedWords'
    BY <1>2 DEF Sync, AskedWords, IsWord, Txns
  <2>2. ASSUME link = "open" PROVE InCommand'
    <3>1. /\ mode = "talk" /\ asked # <<>> /\ asked[1] = DotItem /\ Len(asked) = Len(toServer) + 1
          /\ \A i \in DOMAIN toServer : asked[i + 1] = toServer[i]
      BY <1>6, <2>2 DEF InDeliver, AtDot
    <3>2. Len(toClient') = 1 /\ DOMAIN toClient' = {1} /\ toClient'[1] = 250
      BY <1>6, <2>2
    <3>3. Matched(0)'
      BY <1>2, <3>1, <3>2, OneAhead
    <3>4. 1 <= Len(asked)
      <4>1. Len(toServer) \in Nat
        BY TypeParts DEF WireTyped
      <4>2. QED
        BY <3>1, <4>1
    <3>5. 250 \in Answers(".") /\ DotItem.verb = "."
      BY DotFacts DEF Answers
    <3>6. ASSUME NEW i, i = 1 PROVE Plain(i)'
      BY <1>2, <3>1, <3>2, <3>4, <3>5, <3>6 DEF Plain
    <3>7. AllPlain'
      BY <3>2, <3>6 DEF AllPlain
    <3>8. QED
      BY <1>2, <3>1, <3>3, <3>7 DEF InCommand
  <2>3. link # "open" => toClient' = toClient
    BY <1>1
  <2>4. QED
    BY <1>1, <1>2, <2>2, <2>1, <2>3 DEF Sync, Quiet
<1>14. Trace'
  <2>1. SUFFICES ASSUME link = "open"
                 PROVE  \E H \in [0 .. Len(toClient') -> Heard] :
                            /\ H[0] = heard
                            /\ \A i \in DOMAIN toClient' :
                                   /\ H[i] = After(H[i - 1], asked[i], toClient'[i])
                                   /\ asked[i].verb = "RCPT" /\ toClient'[i] = 502
                                      => H[i - 1].txn = 0
                            /\ Holds(H[Len(toClient')], from', rcpts', excused')
    BY <1>2 DEF Trace, Agrees, Holds
  <2> DEFINE G == [i \in 0 .. 1 |-> IF i = 0 THEN heard ELSE Nothing]
  <2>2. Len(toClient') = 1 /\ DOMAIN toClient' = {1} /\ toClient'[1] = 250
    BY <1>6, <2>1
  <2>3. G \in [0 .. 1 -> Heard]
    <3>1. heard \in Heard /\ Nothing \in Heard
      BY TypeParts, SessionAssumption DEF WireTyped, Heard, Nothing
    <3>2. QED
      BY <3>1
  <2>4. G[0] = heard /\ G[1] = Nothing /\ 1 - 1 = 0
    OBVIOUS
  <2>5. asked[1].verb = "."
    BY <1>6, <2>1, DotFacts DEF InDeliver, AtDot
  <2>6. After(heard, asked[1], 250) = Nothing
    <3>1. Ok(250)
      BY CodeClasses DEF Codes
    <3>2. QED
      BY <2>5, <3>1 DEF After
  <2>7. Holds(Nothing, from', rcpts', excused')
    BY <1>1 DEF Holds, Nothing
  <2> HIDE DEF G
  <2>8. QED
    BY <2>2, <2>3, <2>4, <2>5, <2>6, <2>7
<1>15. Acks'
  <2>1. \A t \in Txns, a \in Addresses : Kept(t, a) => Kept(t, a)'
    BY <1>2, KeptSame
  <2>2. \A ack \in acked' : ack[1] \in Txns' /\ Kept(ack[1], ack[2])'
    BY <1>2, <2>1, AckedStays
  <2>3. ASSUME link = "open" PROVE \A a \in heard.rcpts : heard.txn # 0 /\ Kept(heard.txn, a)'
    <3>1. /\ heard.txn = from
          /\ \A a \in heard.rcpts : Kept(from, a)
      BY <1>1, <2>3 DEF Acks
    <3>2. heard.rcpts \subseteq Addresses
      BY TypeParts DEF WireTyped, Heard
    <3>3. ASSUME NEW t, t = from, NEW a \in heard.rcpts PROVE Kept(t, a)'
      BY <1>4, <2>1, <3>1, <3>2, <3>3
    <3>4. ASSUME NEW a \in heard.rcpts PROVE Kept(heard.txn, a)'
      BY <1>2, <3>1, <3>3, <1>5 DEF Kept
    <3>5. QED
      BY <1>4, <3>1, <3>4
  <2>4. QED
    BY <1>1, <1>2, <2>2, <2>3 DEF Acks
<1>16. Relay'
  BY <1>1, <1>2, RelayStays
<1>17. QED
  BY <1>7, <1>12, <1>13, <1>14, <1>15, <1>16

-----------------------------------------------------------------------------
(* The session's beginning and its ends.                                     *)

LEMMA OpenIInv ==
    ASSUME IInv, Open, UNCHANGED clientVars
    PROVE  IInv'
<1> USE DEF IInv
<1>1. /\ task = "banner" /\ task' = "command" /\ from' = 0 /\ rcpts' = <<>> /\ greeted' = FALSE
      /\ errors' = 0
      /\ toClient' = IF secure \/ link # "open" THEN toClient ELSE Append(toClient, 220)
  BY DEF Open, Reset, Say
<1>2. /\ UNCHANGED <<link, toServer, secure, got, todo>>
      /\ UNCHANGED <<tls, route, store, activity, now, whole, excused, reroutes, failures>>
      /\ UNCHANGED <<sender, mode, asked, heard, body, step, left, result, mailOf, wanted, inClear,
                     acked, spoken, conns>>
  BY DEF Open, relay, history, bounds, clientVars, script, record
<1>3. Numbered /\ Envelope /\ Message /\ Filed
  BY DEF ServerSide
<1>4. From = 0 /\ From' = 0
  BY <1>1 DEF From
<1>5. Txns' = Txns /\ Current' = Current
  BY <1>2 DEF Txns, Current
<1>6. link = "open" => InBanner /\ toClient = <<>>
  BY <1>1 DEF Sync, InBanner, Silent
<1>7. TypeOK' /\ Bounded'
  <2>1. toClient' \in Seq(Codes)
    <3>1. 220 \in Codes /\ toClient \in Seq(Codes)
      BY TypeParts DEF Codes, WireTyped
    <3>2. QED
      BY <1>1, <3>1, AppendFacts
  <2>2. WireTyped'
    BY <1>2, <2>1, TypeParts DEF WireTyped
  <2>3. SessionTyped' /\ errors' <= ErrorThreshold
    <3>1. 0 \in 0 .. MaxTxns /\ <<>> \in Seq(Addresses) /\ 0 \in 0 .. ErrorThreshold + 1
          /\ 0 <= ErrorThreshold
      BY SessionAssumption, SmtpAssumption
    <3>2. QED
      BY <1>1, <1>2, <3>1, TypeParts DEF SessionTyped
  <2>4. RelayTyped' /\ ClientTyped' /\ RecordTyped'
    BY <1>2, TypeParts DEF RelayTyped, ClientTyped, RecordTyped
  <2>5. QED
    BY <1>1, <2>2, <2>3, <2>4, TypePartsPrime DEF Bounded
<1>8. Numbered'
  BY <1>1, <1>2, <1>3, <1>5 DEF Numbered
<1>9. Envelope'
  <2>1. 0 \notin inClear
    BY <1>3 DEF Numbered, Txns
  <2>2. QED
    BY <1>1, <1>2, <2>1 DEF Envelope
<1>10. Queue' /\ Wants' /\ Newest'
  <2>1. /\ \A i \in DOMAIN toServer : i > Skip' => i > Skip
        /\ \A i \in DOMAIN toServer : toServer[i].txn \in Nat
    <3>1. Skip' = Skip
      BY <1>1 DEF Skip
    <3>2. QED
      BY <1>3, <3>1, SkipTyped
  <2>2. From' \in {0, From} /\ From \in Nat
    BY <1>4
  <2>3. \A t \in Nat : Fresh(t) => Fresh(t)'
    BY <1>2 DEF Fresh
  <2>4. QED
    BY <1>1, <1>2, <2>1, <2>2, <2>3, QueueStays DEF Reading
<1>11. Message' /\ Filed'
  BY <1>1, <1>2, <1>3, FiledStays DEF Message
<1>12. ServerSide'
  BY <1>8, <1>9, <1>10, <1>11 DEF ServerSide
<1>13. ASSUME link = "open", ~ secure
       PROVE  /\ toClient' = <<220>> /\ Len(toClient') = 1 /\ DOMAIN toClient' = {1}
              /\ toClient'[1] = 220 /\ asked # <<>> /\ asked[1].verb = "connect"
  <2>1. toClient' = <<220>>
    BY <1>1, <1>6, <1>13
  <2>2. asked # <<>> /\ asked[1].verb = "connect"
    BY <1>6, <1>13 DEF InBanner, Cmd
  <2>3. QED
    BY <2>1, <2>2
<1>14. Sync'
  <2>1. AskedWords'
    BY <1>2 DEF Sync, AskedWords, IsWord, Txns
  <2>2. ASSUME link = "open", secure PROVE InCommand'
    <3>1. toClient' = <<>> /\ toClient = <<>> /\ mode = "talk" /\ Matched(0)
      BY <1>1, <1>6, <2>2 DEF InBanner
    <3>2. Matched(0)'
      BY <1>2, <3>1 DEF Matched
    <3>3. QED
      BY <1>2, <3>1, <3>2 DEF InCommand, AllPlain
  <2>3. ASSUME link = "open", ~ secure PROVE InCommand'
    <3>1. /\ mode = "talk" /\ asked # <<>> /\ Len(asked) = Len(toServer) + 1
          /\ \A i \in DOMAIN toServer : asked[i + 1] = toServer[i]
      BY <1>6, <2>3 DEF InBanner
    <3>2. Matched(0)'
      BY <1>2, <1>13, <2>3, <3>1, OneAhead
    <3>3. 1 <= Len(asked)
      <4>1. Len(toServer) \in Nat
        BY TypeParts DEF WireTyped
      <4>2. QED
        BY <3>1, <4>1
    <3>4. 220 \in Answers("connect")
      BY DEF Answers
    <3>5. ASSUME NEW i, i = 1 PROVE Plain(i)'
      BY <1>2, <1>13, <2>3, <3>3, <3>4, <3>5 DEF Plain
    <3>6. QED
      BY <1>2, <1>13, <2>3, <3>1, <3>2, <3>5 DEF InCommand, AllPlain
  <2>4. link # "open" => toClient' = toClient
    BY <1>1
  <2>5. QED
    BY <1>1, <1>2, <2>1, <2>2, <2>3, <2>4 DEF Sync, Quiet
<1>15. Trace'
  <2>1. SUFFICES ASSUME link = "open"
                 PROVE  \E H \in [0 .. Len(toClient') -> Heard] :
                            /\ H[0] = heard
                            /\ \A i \in DOMAIN toClient' :
                                   /\ H[i] = After(H[i - 1], asked[i], toClient'[i])
                                   /\ asked[i].verb = "RCPT" /\ toClient'[i] = 502
                                      => H[i - 1].txn = 0
                            /\ Holds(H[Len(toClient')], from', rcpts', excused')
    BY <1>2 DEF Trace, Agrees, Holds
  <2>2. heard = Nothing /\ Nothing \in Heard
    BY <1>6, <2>1, TypeParts DEF InBanner, WireTyped
  <2>3. Holds(Nothing, from', rcpts', excused')
    BY <1>1 DEF Holds, Nothing
  <2>4. CASE secure
    <3> DEFINE G == [i \in 0 .. 0 |-> Nothing]
    <3>1. toClient' = <<>> /\ Len(toClient') = 0 /\ DOMAIN toClient' = {}
      BY <1>1, <1>6, <2>1, <2>4
    <3>2. G \in [0 .. 0 -> Heard] /\ G[0] = Nothing
      BY <2>2
    <3> HIDE DEF G
    <3>3. /\ G \in [0 .. Len(toClient') -> Heard] /\ G[0] = heard
          /\ Holds(G[Len(toClient')], from', rcpts', excused')
      BY <2>2, <2>3, <3>1, <3>2
    <3>4. QED
      BY <3>1, <3>3
  <2>5. CASE ~ secure
    <3> DEFINE G == [i \in 0 .. 1 |-> Nothing]
    <3>1. G \in [0 .. 1 -> Heard] /\ G[0] = Nothing /\ G[1] = Nothing /\ 1 - 1 = 0
      BY <2>2
    <3>2. After(Nothing, asked[1], 220) = Nothing
      BY <1>13, <2>1, <2>5 DEF After
    <3> HIDE DEF G
    <3>3. /\ Len(toClient') = 1 /\ DOMAIN toClient' = {1} /\ toClient'[1] = 220
          /\ asked[1].verb = "connect"
      BY <1>13, <2>1, <2>5
    <3>4. /\ G \in [0 .. Len(toClient') -> Heard] /\ G[0] = heard
          /\ Holds(G[Len(toClient')], from', rcpts', excused')
      BY <2>2, <2>3, <3>1, <3>3
    <3>5. \A i \in DOMAIN toClient' :
              /\ G[i] = After(G[i - 1], asked[i], toClient'[i])
              /\ asked[i].verb = "RCPT" /\ toClient'[i] = 502 => G[i - 1].txn = 0
      BY <3>1, <3>2, <3>3
    <3>6. QED
      BY <3>4, <3>5
  <2>6. QED
    BY <2>4, <2>5, TypeParts DEF SessionTyped
<1>16. Acks'
  <2>1. link = "open" /\ asked # <<>> /\ asked[1].verb = "." /\ toClient' # <<>> => toClient # <<>>
    <3>1. link = "open" /\ ~ secure => asked[1].verb = "connect"
      BY <1>13
    <3>2. QED
      BY <1>1, <3>1
  <2>2. \A t \in Txns, a \in Addresses : Kept(t, a) => Kept(t, a)'
    BY <1>2, KeptSame
  <2>3. QED
    BY <1>1, <1>2, <1>3, <2>1, <2>2, AcksStay
<1>17. Relay'
  BY <1>1, <1>2, RelayStays
<1>18. QED
  BY <1>7, <1>12, <1>14, <1>15, <1>16, <1>17

\* The server side of a session that is over, or waits for a handshake.
LEMMA NotReadingServerSide ==
    ASSUME ServerSide, task' \in {"ended", "handshake"},
           UNCHANGED <<secure, from, mailOf, wanted, inClear, heard, whole, store>>,
           secure => from \notin inClear
    PROVE  ServerSide'
<1>1. Txns' = Txns /\ Current' = Current
  BY DEF Txns, Current
<1>2. Numbered /\ Filed
  BY DEF ServerSide
<1>3. Numbered' /\ Filed'
  BY <1>1, <1>2, FiledStays DEF Numbered
<1>4. Envelope' /\ Message' /\ ~ Reading'
  BY DEF Envelope, Message, Reading
<1>5. QED
  BY <1>3, <1>4 DEF ServerSide

\* The task returns with nothing more to say.
LEMMA EndsIInv ==
    ASSUME IInv, HangUp \/ HandshakeFails, UNCHANGED clientVars
    PROVE  IInv'
<1> USE DEF IInv
<1>1. /\ task' = "ended" /\ task # "banner"
      /\ \/ task \in {"command", "data"} /\ link # "open"
         \/ task = "handshake" /\ (toServer # <<>> \/ link # "open")
  BY DEF HangUp, HandshakeFails, End
<1>2. /\ UNCHANGED <<link, toServer, toClient, secure, greeted, from, rcpts, errors, got, todo>>
      /\ UNCHANGED <<tls, route, store, activity, now, whole, excused, reroutes, failures>>
      /\ UNCHANGED <<sender, mode, asked, heard, body, step, left, result, mailOf, wanted, inClear,
                     acked, spoken, conns>>
  BY DEF HangUp, HandshakeFails, wire, session, relay, history, bounds, clientVars, script, record
<1>3. TypeOK' /\ Bounded'
  <2>1. WireTyped' /\ SessionTyped'
    BY <1>1, <1>2, TypeParts DEF WireTyped, SessionTyped
  <2>2. RelayTyped' /\ ClientTyped' /\ RecordTyped'
    BY <1>2, TypeParts DEF RelayTyped, ClientTyped, RecordTyped
  <2>3. QED
    BY <1>1, <2>1, <2>2, TypePartsPrime DEF Bounded
<1>4. ServerSide'
  <2>1. secure => from \notin inClear
    BY <1>1 DEF ServerSide, Envelope
  <2>2. QED
    BY <1>1, <1>2, <2>1, NotReadingServerSide
<1>5. Sync'
  <2>1. AskedWords'
    BY <1>2 DEF Sync, AskedWords, IsWord, Txns
  <2>2. ASSUME link = "open" PROVE InEnd'
    <3>1. InHandshake /\ toClient \in Seq(Codes)
      BY <1>1, <2>2, TypeParts DEF Sync, WireTyped
    <3>2. CASE mode = "talk" /\ LastIs("STARTTLS", 220)
      <4>1. /\ 0 < Len(toClient) /\ Len(toClient) <= Len(asked)
            /\ \A i \in 1 .. Len(toClient) - 1 : Plain(i)
            /\ asked[Len(toClient)].verb = "STARTTLS" /\ toClient[Len(toClient)] = 220
        BY <3>2 DEF LastIs
      <4>2. \A i \in DOMAIN toClient : i \in 1 .. Len(toClient) - 1 \/ i = Len(toClient)
        BY <3>1
      <4>3. InEnd
        BY <3>2, <4>1, <4>2 DEF InEnd
      <4>4. QED
        BY <1>2, <4>3 DEF InEnd, Plain, Quiet
    <3>3. CASE mode = "tls" /\ Quiet
      BY <1>2, <3>3 DEF InEnd, Quiet
    <3>4. QED
      BY <3>1, <3>2, <3>3 DEF InHandshake
  <2>3. QED
    BY <1>1, <1>2, <2>1, <2>2 DEF Sync, Quiet
<1>6. Trace'
  BY <1>1 DEF Trace
<1>7. Acks'
  <2>1. \A t \in Txns, a \in Addresses : Kept(t, a) => Kept(t, a)'
    BY <1>2, KeptSame
  <2>2. QED
    BY <1>1, <1>2, <2>1, AcksStay DEF ServerSide
<1>8. Relay'
  <2>1. ~ (sender # None /\ link = "open" /\ result # "sent")
    BY <1>1 DEF Relay
  <2>2. QED
    BY <1>2, <2>1, RelayStays
<1>9. QED
  BY <1>3, <1>4, <1>5, <1>6, <1>7, <1>8

\* A relay has one command under way, the one it takes its next step from.
LEMMA RelayWord ==
    ASSUME TypeOK, ServerSide, Sync, Relay, task = "command", toServer # <<>>,
           sender # None, link = "open", result # "sent"
    PROVE  Head(toServer).verb = step /\ Len(toServer) = 1
<1>1. /\ toServer \in Seq(Item) /\ toClient \in Seq(Codes) /\ asked \in Seq(Item)
      /\ Len(asked) = Len(toClient) + Len(toServer)
      /\ asked[Len(toClient) + 1] = Head(toServer)
  BY CommandMatched
<1>2. Len(asked) <= 1
  BY DEF Relay
<1>3. Len(toServer) \in Nat /\ Len(toServer) > 0 /\ Len(toClient) \in Nat
  BY <1>1, TailFacts
<1>4. Len(toServer) = 1 /\ Len(toClient) = 0 /\ Len(asked) = 1
  <2>1. \A i, j \in Nat : i > 0 /\ j + i <= 1 => i = 1 /\ j = 0 /\ j + i = 1
    OBVIOUS
  <2>2. Len(toClient) + Len(toServer) <= 1 /\ Len(asked) = Len(toClient) + Len(toServer)
    BY <1>1, <1>2
  <2>3. QED
    BY <1>3, <2>1, <2>2
<1>5. asked[1] = Head(toServer) /\ asked # <<>>
  BY <1>1, <1>4
<1>6. Head(toServer).verb # "connect"
  BY CommandHead DEF IsWord
<1>7. QED
  BY <1>4, <1>5, <1>6 DEF Relay

LEMMA GoodbyeIInv ==
    ASSUME IInv, Quit \/ (ProtocolError /\ task' # "command"), UNCHANGED clientVars
    PROVE  IInv'
<1> USE DEF IInv
<1> DEFINE q == Head(toServer)
<1>1. /\ task = "command" /\ task' = "ended" /\ toServer # <<>> /\ toServer' = Tail(toServer)
      /\ \/ /\ q.verb = "QUIT" /\ errors' = errors
            /\ toClient' = IF link # "open" THEN toClient ELSE Append(toClient, 221)
         \/ /\ q.verb \in Unknown /\ errors' = errors + 1
            /\ toClient' = IF link # "open" THEN toClient ELSE toClient \o <<500, 500>>
  BY DEF Quit, ProtocolError, Reads, Take, Say, End
<1>2. /\ UNCHANGED <<link, secure, greeted, from, rcpts, got, todo>>
      /\ UNCHANGED <<tls, route, store, activity, now, whole, excused, reroutes, failures>>
      /\ UNCHANGED <<sender, mode, asked, heard, body, step, left, result, mailOf, wanted, inClear,
                     acked, spoken, conns>>
  BY DEF Quit, ProtocolError, session, relay, history, bounds, clientVars, script, record
<1>3. /\ IsWord(q) /\ toServer \in Seq(Item) /\ toClient \in Seq(Codes)
  BY <1>1, CommandHead, TypeParts DEF WireTyped
<1>4. link = "open" =>
          /\ mode = "talk" /\ AllPlain /\ asked \in Seq(Item)
          /\ Len(toClient) + 1 <= Len(asked) /\ asked[Len(toClient) + 1] = q
  BY <1>1, CommandMatched
<1>5. q.verb = "QUIT" => 221 \in Answers(q.verb)
  BY DEF Answers
<1>6. q.verb \in Unknown => q.verb \in {"", "XYZZ", "BADSHAPE", "STARTTLS"} /\ 500 \in Answers(q.verb)
  <2>1. q.verb \in Unknown => q.verb \in {"", "XYZZ", "BADSHAPE", "STARTTLS"}
    BY <1>3 DEF Unknown, IsWord
  <2>2. QED
    BY <2>1, ErrorAnswers, ZenonT(40)
<1>7. /\ Append(toClient, 221) \in Seq(Codes) /\ toClient \o <<500, 500>> \in Seq(Codes)
      /\ Len(toClient) \in Nat /\ DOMAIN toClient = 1 .. Len(toClient)
  <2>1. 221 \in Codes /\ 500 \in Codes
    BY DEF Codes
  <2>2. QED
    BY <1>3, <2>1
<1>8. TypeOK' /\ Bounded'
  <2>1. toClient' \in Seq(Codes) /\ toServer' \in Seq(Item)
    BY <1>1, <1>3, <1>7, TailFacts, ZenonT(40)
  <2>2. WireTyped'
    BY <1>2, <2>1, TypeParts DEF WireTyped
  <2>3. errors' \in 0 .. ErrorThreshold + 1
    <3>1. errors \in 0 .. ErrorThreshold + 1 /\ errors <= ErrorThreshold /\ ErrorThreshold \in Nat
      BY <1>1, TypeParts, SmtpAssumption DEF SessionTyped, Bounded
    <3>2. errors' = errors \/ errors' = errors + 1
      BY <1>1
    <3>3. QED
      BY <3>1, <3>2
  <2>4. SessionTyped'
    BY <1>1, <1>2, <2>3, TypeParts DEF SessionTyped
  <2>5. RelayTyped' /\ ClientTyped' /\ RecordTyped'
    BY <1>2, TypeParts DEF RelayTyped, ClientTyped, RecordTyped
  <2>6. QED
    BY <1>1, <2>2, <2>4, <2>5, TypePartsPrime DEF Bounded
<1>9. ServerSide'
  <2>1. secure => from \notin inClear
    BY <1>1 DEF ServerSide, Envelope
  <2>2. QED
    BY <1>1, <1>2, <2>1, NotReadingServerSide
<1>10. Sync'
  <2>1. AskedWords'
    BY <1>2 DEF Sync, AskedWords, IsWord, Txns
  <2>2. ASSUME link = "open" PROVE InEnd'
    <3>1. CASE q.verb = "QUIT" /\ toClient' = Append(toClient, 221)
      <4>1. /\ DOMAIN toClient' = 1 .. Len(toClient) + 1
            /\ \A i \in 1 .. Len(toClient) : toClient'[i] = toClient[i]
            /\ toClient'[Len(toClient) + 1] = 221
        BY <1>3, <3>1, AppendFacts
      <4>2. ASSUME NEW i \in 1 .. Len(toClient) PROVE Plain(i)'
        BY <1>2, <1>4, <1>7, <2>2, <4>1 DEF AllPlain, Plain
      <4>3. ASSUME NEW i, i = Len(toClient) + 1 PROVE Plain(i)'
        BY <1>2, <1>4, <1>5, <2>2, <3>1, <4>1, <4>3 DEF Plain
      <4>4. \A i \in 1 .. Len(toClient) + 1 : i \in 1 .. Len(toClient) \/ i = Len(toClient) + 1
        BY <1>7
      <4>5. QED
        BY <1>2, <1>4, <2>2, <4>1, <4>2, <4>3, <4>4 DEF InEnd
    <3>2. CASE q.verb \in Unknown /\ toClient' = toClient \o <<500, 500>>
      <4>1. /\ DOMAIN toClient' = 1 .. Len(toClient) + 2 /\ Len(toClient') = Len(toClient) + 2
            /\ \A i \in 1 .. Len(toClient) : toClient'[i] = toClient[i]
            /\ toClient'[Len(toClient) + 1] = 500 /\ toClient'[Len(toClient) + 2] = 500
        <5>1. <<500, 500>> \in Seq(Codes) /\ Len(<<500, 500>>) = 2
          BY DEF Codes
        <5>2. QED
          BY <1>3, <1>7, <3>2, <5>1
      <4>2. ASSUME NEW i \in 1 .. Len(toClient) PROVE Plain(i)'
        BY <1>2, <1>4, <1>7, <2>2, <4>1 DEF AllPlain, Plain
      <4>3. ASSUME NEW i, i = Len(toClient) + 1 PROVE Plain(i)'
        <5>1. i <= Len(asked) /\ asked[i] = q /\ toClient'[i] = 500
          BY <1>4, <2>2, <4>1, <4>3
        <5>2. 500 \in Answers(asked[i].verb) /\ asked' = asked
          BY <1>2, <1>6, <3>2, <5>1
        <5>3. QED
          BY <5>1, <5>2 DEF Plain
      <4>4. \A i \in 1 .. Len(toClient) + 2 :
                i \in 1 .. Len(toClient) \/ i = Len(toClient) + 1 \/ i = Len(toClient) + 2
        BY <1>7
      <4>5. QED
        BY <1>2, <1>4, <2>2, <4>1, <4>2, <4>3, <4>4 DEF InEnd
    <3>3. QED
      BY <1>1, <2>2, <3>1, <3>2
  <2>3. link # "open" => toClient' = toClient
    BY <1>1
  <2>4. QED
    BY <1>1, <1>2, <2>1, <2>2, <2>3 DEF Sync, Quiet
<1>11. Trace'
  BY <1>1 DEF Trace
<1>12. Acks'
  <2>1. \A t \in Txns, a \in Addresses : Kept(t, a) => Kept(t, a)'
    BY <1>2, KeptSame
  <2>2. link = "open" /\ asked # <<>> /\ asked[1].verb = "." => toClient # <<>>
    <3>1. SUFFICES ASSUME link = "open", asked[1].verb = ".", toClient = <<>> PROVE FALSE
      OBVIOUS
    <3>2. asked[1] = q
      BY <1>1, <3>1, CommandMatched
    <3>3. QED
      BY <1>3, <3>1, <3>2 DEF IsWord
  <2>3. QED
    BY <1>1, <1>2, <2>1, <2>2, AcksStay DEF ServerSide
<1>13. Relay'
  <2>1. ASSUME sender # None, link = "open", result # "sent" PROVE FALSE
    <3>1. q.verb = step
      BY <1>1, <2>1, RelayWord
    <3>2. step \in {"EHLO", "HELO", "STARTTLS", "MAIL", "RCPT", "DATA", ".", "QUIT"}
          /\ step # "QUIT" /\ (step = "STARTTLS" => ~ secure)
      BY <2>1, TypeParts DEF ClientTyped, Relay
    <3>3. q.verb \in Unknown
      BY <1>1, <3>1, <3>2
    <3>4. step = "STARTTLS"
      BY <1>6, <3>1, <3>2, <3>3
    <3>5. "STARTTLS" \notin Unknown
      BY <3>2, <3>4 DEF Unknown
    <3>6. QED
      BY <3>1, <3>3, <3>4, <3>5
  <2>2. QED
    BY <1>2, <2>1, RelayStays
<1>14. QED
  BY <1>8, <1>9, <1>10, <1>11, <1>12, <1>13

LEMMA StartTlsIInv ==
    ASSUME IInv, StartTls, UNCHANGED clientVars
    PROVE  IInv'
<1> USE DEF IInv
<1> DEFINE q == Head(toServer)
<1>1. /\ task = "command" /\ task' = "handshake" /\ toServer # <<>> /\ ~ secure
      /\ q.verb = "STARTTLS"
      /\ toClient' = IF link # "open" THEN toClient ELSE Append(toClient, 220)
      /\ \E read \in 1 .. Len(toServer) : toServer' = SubSeq(toServer, read + 1, Len(toServer))
  BY DEF StartTls, Reads, Say
<1>2. /\ UNCHANGED <<link, secure, greeted, from, rcpts, errors, got, todo>>
      /\ UNCHANGED <<tls, route, store, activity, now, whole, excused, reroutes, failures>>
      /\ UNCHANGED <<sender, mode, asked, heard, body, step, left, result, mailOf, wanted, inClear,
                     acked, spoken, conns>>
  BY DEF StartTls, session, relay, history, bounds, clientVars, script, record
<1>3. toServer \in Seq(Item) /\ toClient \in Seq(Codes)
  BY TypeParts DEF WireTyped
<1>4. link = "open" =>
          /\ mode = "talk" /\ AllPlain /\ asked \in Seq(Item)
          /\ Len(toClient) + 1 <= Len(asked) /\ asked[Len(toClient) + 1] = q
  BY <1>1, CommandMatched
<1>5. toServer' \in Seq(Item) /\ (Len(toServer) = 1 => toServer' = <<>>)
  <2>1. PICK read \in 1 .. Len(toServer) : toServer' = SubSeq(toServer, read + 1, Len(toServer))
    BY <1>1
  <2>2. Len(toServer) \in Nat /\ read \in Nat
    BY <1>3
  <2>3. SubSeq(toServer, read + 1, Len(toServer)) \in Seq(Item)
    BY <1>3, <2>2
  <2>4. Len(toServer) = 1 => Len(SubSeq(toServer, read + 1, Len(toServer))) = 0
    BY <1>3, <2>2
  <2>5. QED
    BY <2>1, <2>3, <2>4
<1>6. /\ 220 \in Codes /\ Len(toClient) \in Nat /\ DOMAIN toClient = 1 .. Len(toClient)
      /\ Append(toClient, 220) \in Seq(Codes)
  <2>1. 220 \in Codes
    BY DEF Codes
  <2>2. QED
    BY <1>3, <2>1, AppendFacts
<1>7. TypeOK' /\ Bounded'
  <2>1. WireTyped'
    BY <1>1, <1>2, <1>3, <1>5, <1>6, TypeParts DEF WireTyped
  <2>2. SessionTyped'
    BY <1>1, <1>2, TypeParts DEF SessionTyped
  <2>3. RelayTyped' /\ ClientTyped' /\ RecordTyped'
    BY <1>2, TypeParts DEF RelayTyped, ClientTyped, RecordTyped
  <2>4. QED
    BY <1>1, <2>1, <2>2, <2>3, TypePartsPrime DEF Bounded
<1>8. ServerSide'
  BY <1>1, <1>2, NotReadingServerSide
<1>9. Sync'
  <2>1. AskedWords'
    BY <1>2 DEF Sync, AskedWords, IsWord, Txns
  <2>2. ASSUME link = "open" PROVE InHandshake'
    <3>1. /\ Len(toClient') = Len(toClient) + 1
          /\ \A i \in 1 .. Len(toClient) : toClient'[i] = toClient[i]
          /\ toClient'[Len(toClient) + 1] = 220
      BY <1>1, <1>3, <1>6, <2>2, AppendFacts
    <3>2. ASSUME NEW i \in 1 .. Len(toClient) PROVE Plain(i)'
      BY <1>2, <1>4, <1>6, <2>2, <3>1 DEF AllPlain, Plain
    <3>3. Len(toClient') - 1 = Len(toClient) /\ 0 < Len(toClient') /\ Len(toClient') <= Len(asked)
      BY <1>4, <1>6, <2>2, <3>1
    <3>4. LastIs("STARTTLS", 220)'
      BY <1>1, <1>2, <1>4, <2>2, <3>1, <3>2, <3>3 DEF LastIs
    <3>5. QED
      BY <1>2, <1>4, <2>2, <3>4 DEF InHandshake
  <2>3. link # "open" => toClient' = toClient
    BY <1>1
  <2>4. QED
    BY <1>1, <1>2, <2>1, <2>2, <2>3 DEF Sync, Quiet
<1>10. Trace'
  BY <1>1 DEF Trace
<1>11. Acks'
  <2>1. \A t \in Txns, a \in Addresses : Kept(t, a) => Kept(t, a)'
    BY <1>2, KeptSame
  <2>2. link = "open" /\ asked # <<>> /\ asked[1].verb = "." => toClient # <<>>
    <3>1. SUFFICES ASSUME link = "open", asked[1].verb = ".", toClient = <<>> PROVE FALSE
      OBVIOUS
    <3>2. asked[1] = q
      BY <1>1, <3>1, CommandMatched
    <3>3. QED
      BY <1>1, <3>1, <3>2
  <2>3. QED
    BY <1>1, <1>2, <2>1, <2>2, AcksStay DEF ServerSide
<1>12. Relay'
  <2>1. ASSUME sender # None, link = "open", result # "sent" PROVE toServer' = <<>>
    BY <1>1, <1>5, <2>1, RelayWord
  <2>2. QED
    BY <1>1, <1>2, <2>1, RelayStays
<1>13. QED
  BY <1>7, <1>8, <1>9, <1>10, <1>11, <1>12

-----------------------------------------------------------------------------
(* Deliveries, and what happens to the store meanwhile.                      *)

\* What filing the message in the account a changes, for the recipient addr.
Files(a, addr) ==
    LET mail == got[1].mail
    IN  /\ Put(a, [id |-> IdOf(mail), mail |-> mail, txn |-> from, addr |-> addr, lines |-> got])
        /\ excused' = excused \cup {<<c.txn, d>> : c \in Spoilt(a, mail), d \in Addresses}

\* A message is filed: it replaces the one of the same name.
LEMMA PutFacts ==
    ASSUME TypeOK, ServerSide, task = "deliver", got # <<>>,
           NEW a \in Accounts, NEW addr \in Addresses, <<from, addr>> \in wanted,
           UNCHANGED <<mailOf, wanted, whole>>, now' \in 0 .. MaxNow,
           Files(a, addr)
    PROVE  /\ store' \in [Accounts -> SUBSET Copy] /\ Filed'
           /\ excused \subseteq excused' /\ excused' \subseteq (1 .. MaxTxns) \X Addresses
           /\ \A t : from < t /\ Fresh(t) => Fresh(t)'
           /\ \A t \in Txns, x \in Addresses : Kept(t, x)
                => \/ \E u \in Txns : mailOf[u] = mailOf[t] /\ <<u, x>> \in excused'
                   \/ \E b \in Accounts : \E c \in store'[b] : c.mail = mailOf[t] /\ c.lines = Body[c.mail]
                   \/ \E b \in Accounts : <<b, t, "failed">> \in activity
           /\ from \in whole => \E b \in Accounts : \E c \in store'[b] :
                                    c.mail = mailOf[from] /\ c.lines = Body[c.mail]
<1> DEFINE mail == got[1].mail
           copy == [id |-> IdOf(mail), mail |-> mail, txn |-> from, addr |-> addr, lines |-> got]
<1>1. Numbered /\ Envelope /\ Message /\ Filed
  BY DEF ServerSide
<1>2. /\ from \in Txns /\ from \in 1 .. MaxTxns /\ mailOf[from] \in Mails
      /\ Text \in Seq(Line) /\ Len(Text) \in Nat /\ DOMAIN Text = 1 .. Len(Text)
      /\ \A i \in 1 .. Len(Text) : Text[i] \in Line /\ Text[i].mail = mailOf[from]
      /\ got \in Seq(Line) /\ Len(got) \in Nat /\ DOMAIN got = 1 .. Len(got)
  BY <1>1, TextTyped
<1>3. /\ Len(got) <= Len(Text) /\ \A i \in DOMAIN got : got[i] = Text[i]
      /\ from \in whole => got = Text
  BY <1>1 DEF Message
<1>4. Text = Body[mailOf[from]]
  BY DEF Text
<1> HIDE DEF Text
<1>5. mail = mailOf[from]
  <2>1. 1 \in DOMAIN got /\ 1 \in 1 .. Len(Text)
    BY <1>2, <1>3
  <2>2. QED
    BY <1>2, <1>3, <2>1
<1>6. /\ copy.mail = mailOf[from] /\ copy.txn = from /\ copy.addr = addr /\ copy.lines = got
      /\ copy.id = IF mail \in WithId THEN <<mail, 0>> ELSE <<None, now'>>
  BY <1>5 DEF IdOf
<1>7. copy \in Copy
  <2>1. IdOf(mail) \in (WithId \X {0}) \cup ({None} \X (0 .. MaxNow))
    BY DEF IdOf
  <2>2. QED
    BY <1>2, <1>5, <2>1 DEF Copy
<1>8. store' = [store EXCEPT ![a] = {c \in @ : c.id # copy.id} \cup {copy}]
  BY DEF Files, Put
<1>9. excused' = excused \cup {<<c.txn, d>> : c \in Spoilt(a, mailOf[from]), d \in Addresses}
  BY <1>5 DEF Files
<1>10. copy.id = IF copy.mail \in WithId THEN <<copy.mail, 0>> ELSE <<None, copy.id[2]>>
  BY <1>5, <1>6
<1> HIDE DEF copy, mail
<1>11. store \in [Accounts -> SUBSET Copy] /\ excused \subseteq (1 .. MaxTxns) \X Addresses
  BY TypeParts DEF RelayTyped
<1>12. /\ store'[a] = {c \in store[a] : c.id # copy.id} \cup {copy}
       /\ \A b \in Accounts : b # a => store'[b] = store[b]
       /\ store' \in [Accounts -> SUBSET Copy]
  BY <1>7, <1>8, <1>11
<1>13. Txns' = Txns
  BY DEF Txns
<1>14. Filed'
  <2>1. SUFFICES ASSUME NEW b \in Accounts
                 PROVE  /\ \A c \in store'[b] :
                               /\ c.txn \in Txns /\ <<c.txn, c.addr>> \in wanted /\ c.mail = mailOf[c.txn]
                               /\ Len(c.lines) <= Len(Body[c.mail])
                               /\ \A i \in DOMAIN c.lines : c.lines[i] = Body[c.mail][i]
                               /\ c.txn \in whole => c.lines = Body[c.mail]
                               /\ c.id = IF c.mail \in WithId THEN <<c.mail, 0>> ELSE <<None, c.id[2]>>
                        /\ \A c, d \in store'[b] : c.id = d.id => c = d
    BY <1>13 DEF Filed
  <2>2. CASE b # a
    BY <1>1, <1>12, <2>2 DEF Filed
  <2>3. CASE b = a
    <3>1. ASSUME NEW c \in store'[a]
          PROVE  /\ c.txn \in Txns /\ <<c.txn, c.addr>> \in wanted /\ c.mail = mailOf[c.txn]
                 /\ Len(c.lines) <= Len(Body[c.mail])
                 /\ \A i \in DOMAIN c.lines : c.lines[i] = Body[c.mail][i]
                 /\ c.txn \in whole => c.lines = Body[c.mail]
                 /\ c.id = IF c.mail \in WithId THEN <<c.mail, 0>> ELSE <<None, c.id[2]>>
      <4>1. CASE c \in store[a]
        BY <1>1, <4>1 DEF Filed
      <4>2. CASE c = copy
        BY <1>2, <1>3, <1>4, <1>6, <1>10, <4>2
      <4>3. QED
        BY <1>12, <4>1, <4>2
    <3>2. ASSUME NEW c \in store'[a], NEW d \in store'[a], c.id = d.id PROVE c = d
      <4>1. CASE c \in store[a] /\ d \in store[a]
        BY <1>1, <3>2, <4>1 DEF Filed
      <4>2. CASE ~ (c \in store[a] /\ d \in store[a])
        BY <1>12, <3>2, <4>2
      <4>3. QED
        BY <4>1, <4>2
    <3>3. QED
      BY <2>3, <3>1, <3>2
  <2>4. QED
    BY <2>2, <2>3
<1>15. \A c \in store[a] : c.txn \in Txns /\ c.mail = mailOf[c.txn] /\ Txns \subseteq 1 .. MaxTxns
  BY <1>1 DEF Filed, Txns
<1>16. excused \subseteq excused' /\ excused' \subseteq (1 .. MaxTxns) \X Addresses
  <2>1. ASSUME NEW c \in Spoilt(a, mailOf[from]), NEW d \in Addresses
        PROVE  <<c.txn, d>> \in (1 .. MaxTxns) \X Addresses
    BY <1>15 DEF Spoilt
  <2>2. QED
    BY <1>9, <1>11, <2>1
<1>17. ASSUME NEW t, from < t, Fresh(t) PROVE Fresh(t)'
  <2>1. t # from
    BY <1>2, <1>17
  <2>2. ASSUME NEW b \in Accounts, NEW c \in store'[b] PROVE c.txn # t
    <3>1. CASE c \in store[b]
      BY <1>17, <3>1 DEF Fresh
    <3>2. CASE c = copy
      BY <1>6, <2>1, <3>2
    <3>3. QED
      BY <1>12, <2>2, <3>1, <3>2
  <2>3. QED
    BY <1>17, <2>2 DEF Fresh
<1>18. from \in whole => copy \in store'[a] /\ copy.mail = mailOf[from] /\ copy.lines = Body[copy.mail]
  BY <1>3, <1>4, <1>6, <1>12
<1>19. ASSUME NEW t \in Txns, NEW x \in Addresses, Kept(t, x)
       PROVE  \/ \E u \in Txns : mailOf[u] = mailOf[t] /\ <<u, x>> \in excused'
              \/ \E b \in Accounts : \E c \in store'[b] : c.mail = mailOf[t] /\ c.lines = Body[c.mail]
              \/ \E b \in Accounts : <<b, t, "failed">> \in activity
  <2>1. CASE \E b \in Accounts : \E c \in store[b] : c.mail = mailOf[t] /\ c.lines = Body[c.mail]
    <3>1. PICK b \in Accounts : \E c \in store[b] : c.mail = mailOf[t] /\ c.lines = Body[c.mail]
      BY <2>1
    <3>2. PICK c \in store[b] : c.mail = mailOf[t] /\ c.lines = Body[c.mail]
      BY <3>1
    <3>3. CASE c \in store'[b]
      BY <3>2, <3>3
    <3>4. CASE c \notin store'[b]
      <4>1. b = a
        BY <1>12, <3>4
      <4>2. CASE c.mail # mailOf[from] \/ from \notin whole
        <5>1. c \in Spoilt(a, mailOf[from])
          BY <3>4, <4>1, <4>2 DEF Spoilt
        <5>2. <<c.txn, x>> \in excused'
          BY <1>9, <5>1
        <5>3. c.txn \in Txns /\ mailOf[c.txn] = mailOf[t]
          BY <1>15, <3>2, <4>1
        <5>4. QED
          BY <5>2, <5>3
      <4>3. CASE c.mail = mailOf[from] /\ from \in whole
        BY <1>18, <3>2, <4>3
      <4>4. QED
        BY <4>2, <4>3
    <3>5. QED
      BY <3>3, <3>4
  <2>2. QED
    BY <1>16, <1>19, <2>1 DEF Kept
<1>20. QED
  BY <1>12, <1>14, <1>16, <1>17, <1>18, <1>19

\* However the delivery to one recipient goes.
LEMMA DeliverFacts ==
    ASSUME IInv, Deliver, UNCHANGED clientVars
    PROVE  /\ store' \in [Accounts -> SUBSET Copy] /\ Filed'
           /\ activity' \subseteq Accounts \X (1 .. MaxTxns) \X {"ok", "failed"}
           /\ failures' \in Nat /\ now' \in 0 .. MaxNow
           /\ excused \subseteq excused' /\ excused' \subseteq (1 .. MaxTxns) \X Addresses
           /\ \A t \in Nat : from < t /\ Fresh(t) => Fresh(t)'
           /\ \A t \in Txns, x \in Addresses : Kept(t, x) => Kept(t, x)'
           /\ \A x : x = Head(todo) /\ from \in whole => Kept(from, x)'
<1> USE DEF IInv
<1> DEFINE addr == Head(todo)
           a == route[addr]
           mail == got[1].mail
<1>1. /\ task = "deliver" /\ todo # <<>>
      /\ UNCHANGED <<mailOf, wanted, whole, from, got>>
  BY DEF Deliver, session, clientVars, record
<1>2. Numbered /\ Envelope /\ Message /\ Filed
  BY DEF ServerSide
<1>3. from \in Txns /\ from \in 1 .. MaxTxns
  BY <1>1, <1>2, TextTyped
<1>4. addr \in Addresses /\ Fit(from, addr)
  <2>1. todo \in Seq(Addresses)
    BY TypeParts DEF SessionTyped
  <2>2. 1 \in DOMAIN todo /\ addr = todo[1] /\ addr \in Addresses
    BY <1>1, <2>1, TailFacts
  <2>3. QED
    BY <1>1, <1>2, <2>2 DEF Envelope
<1>5. a \in Accounts \cup {None}
  BY <1>4, TypeParts DEF RelayTyped
<1>6. /\ store \in [Accounts -> SUBSET Copy] /\ now \in 0 .. MaxNow /\ failures \in Nat /\ MaxNow \in Nat
      /\ activity \subseteq Accounts \X (1 .. MaxTxns) \X {"ok", "failed"}
      /\ excused \subseteq (1 .. MaxTxns) \X Addresses
  BY TypeParts, SmtpAssumption DEF RelayTyped
<1>7. now' \in 0 .. MaxNow
  <2>1. now' \in {now} \/ now' \in now .. MaxNow
    BY DEF Deliver
  <2>2. QED
    BY <1>6, <2>1
<1>8. Txns' = Txns
  BY <1>1 DEF Txns
<1>9. ASSUME UNCHANGED store, excused \subseteq excused', activity \subseteq activity'
      PROVE  /\ Filed' /\ \A t : Fresh(t) => Fresh(t)'
             /\ \A t \in Txns, x \in Addresses : Kept(t, x) => Kept(t, x)'
  <2>1. ASSUME NEW t \in Txns, NEW x \in Addresses, Kept(t, x) PROVE Kept(t, x)'
    BY <1>1, <1>8, <1>9, <2>1, KeptStaysStill
  <2>2. QED
    BY <1>1, <1>2, <1>9, <2>1, FiledStays DEF Fresh
<1>10. CASE a = None /\ UNCHANGED <<store, activity, excused, failures>>
  <2>1. <<from, addr>> \in excused'
    BY <1>4, <1>10 DEF Fit
  <2>2. ASSUME NEW x, x = addr PROVE Kept(from, x)'
    BY <1>1, <1>3, <1>8, <2>1, <2>2 DEF Kept
  <2>3. QED
    BY <1>6, <1>7, <1>9, <1>10, <2>2
<1>11. ASSUME a # None, NEW lost \in BOOLEAN, Refuse(a, addr, lost), failures' \in Nat
       PROVE  /\ store' \in [Accounts -> SUBSET Copy] /\ Filed'
              /\ activity' \subseteq Accounts \X (1 .. MaxTxns) \X {"ok", "failed"}
              /\ excused \subseteq excused' /\ excused' \subseteq (1 .. MaxTxns) \X Addresses
              /\ \A t : Fresh(t) => Fresh(t)'
              /\ \A t \in Txns, x \in Addresses : Kept(t, x) => Kept(t, x)'
              /\ \A x : x = addr => Kept(from, x)'
  <2>1. /\ activity \subseteq activity' /\ a \in Accounts
        /\ activity' \subseteq Accounts \X (1 .. MaxTxns) \X {"ok", "failed"}
    BY <1>3, <1>5, <1>6, <1>11 DEF Refuse, Log
  <2>2. UNCHANGED store /\ excused \subseteq excused' /\ excused' \subseteq (1 .. MaxTxns) \X Addresses
    BY <1>3, <1>4, <1>6, <1>11 DEF Refuse
  <2>3. <<a, from, "failed">> \in activity' \/ <<from, addr>> \in excused'
    BY <1>11 DEF Refuse, Log
  <2>4. ASSUME NEW x, x = addr PROVE Kept(from, x)'
    <3>1. CASE <<a, from, "failed">> \in activity'
      BY <1>1, <2>1, <3>1 DEF Kept
    <3>2. CASE <<from, addr>> \in excused'
      BY <1>1, <1>3, <1>8, <2>4, <3>2 DEF Kept
    <3>3. QED
      BY <2>3, <3>1, <3>2
  <2>5. QED
    BY <1>6, <1>9, <2>1, <2>2, <2>4
<1>12. CASE /\ a # None /\ got # <<>>
            /\ Put(a, [id |-> IdOf(mail), mail |-> mail, txn |-> from, addr |-> addr, lines |-> got])
            /\ \E lost \in BOOLEAN : Log(a, "ok", lost)
            /\ excused' = excused \cup {<<c.txn, d>> : c \in Spoilt(a, mail), d \in Addresses}
            /\ failures' \in Nat
  <2>1. /\ activity \subseteq activity' /\ a \in Accounts
        /\ activity' \subseteq Accounts \X (1 .. MaxTxns) \X {"ok", "failed"}
    BY <1>3, <1>5, <1>6, <1>12 DEF Log
  <2>2. <<from, addr>> \in wanted
    BY <1>4 DEF Fit
  <2>3. /\ store' \in [Accounts -> SUBSET Copy] /\ Filed'
        /\ excused \subseteq excused' /\ excused' \subseteq (1 .. MaxTxns) \X Addresses
        /\ \A t : from < t /\ Fresh(t) => Fresh(t)'
        /\ \A t \in Txns, x \in Addresses : Kept(t, x)
             => \/ \E u \in Txns : mailOf[u] = mailOf[t] /\ <<u, x>> \in excused'
                \/ \E b \in Accounts : \E c \in store'[b] : c.mail = mailOf[t] /\ c.lines = Body[c.mail]
                \/ \E b \in Accounts : <<b, t, "failed">> \in activity
        /\ from \in whole => \E b \in Accounts : \E c \in store'[b] :
                                 c.mail = mailOf[from] /\ c.lines = Body[c.mail]
    <3>1. /\ task = "deliver" /\ got # <<>> /\ a \in Accounts /\ addr \in Addresses
          /\ TypeOK /\ ServerSide /\ now' \in 0 .. MaxNow
      BY <1>1, <1>4, <1>7, <1>12, <2>1
    <3>2. UNCHANGED <<mailOf, wanted, whole>>
      BY <1>1
    <3>3. Files(a, addr)
      BY <1>12 DEF Files
    <3> HIDE DEF a, addr
    <3>4. PICK b, x : b = a /\ x = addr
      OBVIOUS
    <3>5. b \in Accounts /\ x \in Addresses /\ <<from, x>> \in wanted
      BY <2>2, <3>1, <3>4
    <3>6. Files(b, x)
      BY <3>3, <3>4 DEF Files
    <3>7. QED
      BY <3>1, <3>2, <3>5, <3>6, PutFacts
  <2>4. ASSUME NEW t \in Txns, NEW x \in Addresses, Kept(t, x) PROVE Kept(t, x)'
    <3>1. \/ \E u \in Txns : mailOf[u] = mailOf[t] /\ <<u, x>> \in excused'
          \/ \E b \in Accounts : \E c \in store'[b] : c.mail = mailOf[t] /\ c.lines = Body[c.mail]
          \/ \E b \in Accounts : <<b, t, "failed">> \in activity
      BY <2>3, <2>4
    <3>2. QED
      BY <1>1, <1>8, <2>1, <3>1 DEF Kept
  <2>5. ASSUME NEW x, from \in whole PROVE Kept(from, x)'
    BY <1>1, <2>3, <2>5 DEF Kept
  <2>6. QED
    BY <1>6, <1>7, <1>12, <2>1, <2>3, <2>4, <2>5
<1>13. QED
  <2>1. ASSUME NEW fault \in BOOLEAN, Counts(fault) PROVE failures' \in Nat
    BY <1>6, <2>1 DEF Counts
  <2>2. \/ a = None /\ UNCHANGED <<store, activity, excused, failures>>
        \/ \E lost \in BOOLEAN :
           a # None /\ Counts(lost \/ got # <<>>) /\ Refuse(a, addr, lost)
        \/ \E lost \in BOOLEAN :
           /\ a # None /\ got # <<>>
           /\ Put(a, [id |-> IdOf(mail), mail |-> mail, txn |-> from, addr |-> addr, lines |-> got])
           /\ Log(a, "ok", lost)
           /\ excused' = excused \cup {<<c.txn, d>> : c \in Spoilt(a, mail), d \in Addresses}
           /\ Counts(lost)
    BY DEF Deliver
  <2>3. ASSUME NEW lost \in BOOLEAN, a # None, Counts(lost \/ got # <<>>), Refuse(a, addr, lost)
        PROVE  /\ store' \in [Accounts -> SUBSET Copy] /\ Filed'
               /\ activity' \subseteq Accounts \X (1 .. MaxTxns) \X {"ok", "failed"}
               /\ failures' \in Nat
               /\ excused \subseteq excused' /\ excused' \subseteq (1 .. MaxTxns) \X Addresses
               /\ \A t : Fresh(t) => Fresh(t)'
               /\ \A t \in Txns, x \in Addresses : Kept(t, x) => Kept(t, x)'
               /\ \A x : x = addr => Kept(from, x)'
    <3>1. (lost \/ got # <<>>) \in BOOLEAN
      OBVIOUS
    <3>2. failures' \in Nat
      BY <2>1, <2>3, <3>1
    <3>3. QED
      BY <1>11, <2>3, <3>2
  <2>4. CASE \E lost \in BOOLEAN : a # None /\ Counts(lost \/ got # <<>>) /\ Refuse(a, addr, lost)
    <3>1. PICK lost \in BOOLEAN : a # None /\ Counts(lost \/ got # <<>>) /\ Refuse(a, addr, lost)
      BY <2>4
    <3>2. /\ store' \in [Accounts -> SUBSET Copy] /\ Filed'
          /\ activity' \subseteq Accounts \X (1 .. MaxTxns) \X {"ok", "failed"}
          /\ failures' \in Nat
          /\ excused \subseteq excused' /\ excused' \subseteq (1 .. MaxTxns) \X Addresses
          /\ \A t : Fresh(t) => Fresh(t)'
          /\ \A t \in Txns, x \in Addresses : Kept(t, x) => Kept(t, x)'
          /\ \A x : x = addr => Kept(from, x)'
      BY <2>3, <3>1
    <3>3. QED
      BY <1>7, <3>2
  <2>5. QED
    BY <1>10, <1>12, <2>1, <2>2, <2>4

LEMMA DeliverIInv ==
    ASSUME IInv, Deliver, UNCHANGED clientVars
    PROVE  IInv'
<1> USE DEF IInv
<1>1. task = "deliver" /\ task' = "deliver" /\ todo # <<>> /\ todo' = Tail(todo)
  BY DEF Deliver
<1>2. /\ UNCHANGED <<link, toServer, toClient, secure, greeted, from, rcpts, errors, got>>
      /\ UNCHANGED <<tls, route, whole, reroutes>>
      /\ UNCHANGED <<sender, mode, asked, heard, body, step, left, result, mailOf, wanted, inClear,
                     acked, spoken, conns>>
  BY DEF Deliver, wire, session, clientVars, script, record
<1>3. Numbered /\ Envelope /\ Message /\ Filed
  BY DEF ServerSide
<1>4. from \in Txns /\ from \in 1 .. MaxTxns /\ From = from /\ From' = from
  BY <1>1, <1>2, <1>3, TextTyped DEF From
<1>5. /\ store' \in [Accounts -> SUBSET Copy] /\ Filed'
      /\ activity' \subseteq Accounts \X (1 .. MaxTxns) \X {"ok", "failed"}
      /\ failures' \in Nat /\ now' \in 0 .. MaxNow
      /\ excused \subseteq excused' /\ excused' \subseteq (1 .. MaxTxns) \X Addresses
      /\ \A t \in Nat : from < t /\ Fresh(t) => Fresh(t)'
      /\ \A t \in Txns, x \in Addresses : Kept(t, x) => Kept(t, x)'
      /\ \A x : x = Head(todo) /\ from \in whole => Kept(from, x)'
  BY DeliverFacts
<1>6. /\ todo \in Seq(Addresses) /\ todo' \in Seq(Addresses) /\ Len(todo) \in Nat
      /\ DOMAIN todo = 1 .. Len(todo) /\ DOMAIN todo' = 1 .. Len(todo) - 1 /\ Head(todo) = todo[1]
      /\ \A i \in 1 .. Len(todo) - 1 : todo'[i] = todo[i + 1]
  <2>1. todo \in Seq(Addresses)
    BY TypeParts DEF SessionTyped
  <2>2. QED
    BY <1>1, <2>1, TailFacts
<1>7. Txns' = Txns /\ Current' = Current
  BY <1>2 DEF Txns, Current
<1>8. TypeOK' /\ Bounded'
  <2>1. WireTyped'
    BY <1>2, TypeParts DEF WireTyped
  <2>2. SessionTyped'
    BY <1>1, <1>2, <1>6, TypeParts DEF SessionTyped
  <2>3. RelayTyped'
    BY <1>2, <1>5, TypeParts DEF RelayTyped
  <2>4. ClientTyped' /\ RecordTyped'
    BY <1>2, TypeParts DEF ClientTyped, RecordTyped
  <2>5. QED
    BY <1>1, <1>2, <2>1, <2>2, <2>3, <2>4, TypePartsPrime DEF Bounded
<1>9. Numbered'
  BY <1>1, <1>2, <1>3, <1>7 DEF Numbered
<1>10. Envelope'
  <2>1. \A i \in DOMAIN todo : Fit(from, todo[i])
    BY <1>1, <1>3 DEF Envelope
  <2>2. ASSUME NEW i \in DOMAIN todo' PROVE Fit(from, todo[i])'
    <3>1. i + 1 \in DOMAIN todo /\ todo'[i] = todo[i + 1]
      BY <1>6
    <3>2. Fit(from, todo[i + 1])
      BY <2>1, <3>1
    <3>3. QED
      BY <1>2, <1>5, <3>1, <3>2 DEF Fit
  <2>3. QED
    BY <1>1, <1>2, <1>3, <2>2 DEF Envelope
<1>11. Queue' /\ Wants' /\ Newest'
  <2>1. /\ \A i \in DOMAIN toServer : i > Skip' => i > Skip
        /\ \A i \in DOMAIN toServer : toServer[i].txn \in Nat
    <3>1. Skip' = Skip
      BY <1>1 DEF Skip
    <3>2. QED
      BY <1>3, <3>1, SkipTyped
  <2>2. From' \in {0, From} /\ From \in Nat
    BY <1>4
  <2>3. QED
    BY <1>1, <1>2, <1>4, <1>5, <2>1, <2>2, QueueStays DEF Reading
<1>12. Message'
  BY <1>1, <1>2, <1>3 DEF Message, Text
<1>13. ServerSide'
  BY <1>5, <1>9, <1>10, <1>11, <1>12 DEF ServerSide
<1>14. Sync'
  <2>1. AskedWords'
    BY <1>2 DEF Sync, AskedWords, IsWord, Txns
  <2>2. link = "open" => InDeliver'
    BY <1>1, <1>2 DEF Sync, InDeliver, AtDot, Silent
  <2>3. QED
    BY <1>1, <1>2, <2>1, <2>2 DEF Sync, Quiet
<1>15. Trace'
  BY <1>1 DEF Trace
<1>16. Acks'
  <2>1. \A ack \in acked' : ack[1] \in Txns' /\ Kept(ack[1], ack[2])'
    BY <1>2, <1>5, AckedStays
  <2>2. link = "open" => toClient = <<>>
    BY <1>1 DEF Sync, InDeliver, AtDot, Silent
  <2>3. ASSUME link = "open", NEW b \in heard.rcpts
        PROVE  (\E i \in DOMAIN todo' : todo'[i] = b) \/ Kept(from, b)'
    <3>1. from \in whole /\ ((\E i \in DOMAIN todo : todo[i] = b) \/ Kept(from, b))
      BY <1>1, <2>3 DEF Acks
    <3>2. CASE Kept(from, b)
      <4>1. b \in Addresses
        BY <2>3, TypeParts DEF WireTyped, Heard
      <4>2. ASSUME NEW t, t = from PROVE Kept(t, b)'
        BY <1>4, <1>5, <3>2, <4>1, <4>2
      <4>3. QED
        BY <1>2, <4>2
    <3>3. CASE \E i \in DOMAIN todo : todo[i] = b
      <4>1. PICK i \in DOMAIN todo : todo[i] = b
        BY <3>3
      <4>2. CASE i = 1
        BY <1>5, <1>6, <3>1, <4>1, <4>2
      <4>3. CASE i # 1
        <5>1. i - 1 \in 1 .. Len(todo) - 1 /\ (i - 1) + 1 = i
          BY <1>6, <4>3
        <5>2. i - 1 \in DOMAIN todo' /\ todo'[i - 1] = b
          BY <1>6, <4>1, <5>1
        <5>3. QED
          BY <5>2
      <4>4. QED
        BY <4>2, <4>3
    <3>4. QED
      BY <3>1, <3>2, <3>3
  <2>4. link = "open" => from \in whole /\ heard.txn = from
    BY <1>1 DEF Acks
  <2>5. QED
    BY <1>1, <1>2, <2>1, <2>2, <2>3, <2>4 DEF Acks
<1>17. Relay'
  BY <1>1, <1>2, RelayStays
<1>18. QED
  BY <1>8, <1>13, <1>14, <1>15, <1>16, <1>17

LEMMA RerouteIInv ==
    ASSUME IInv, NEW addr \in Addresses, NEW a \in Accounts \cup {None}, Reroute(addr, a),
           UNCHANGED clientVars
    PROVE  IInv'
<1> USE DEF IInv
<1>1. /\ UNCHANGED <<link, toServer, toClient, task, secure, greeted, from, rcpts, errors, got, todo>>
      /\ UNCHANGED <<tls, activity, now, whole, failures>>
      /\ UNCHANGED <<sender, mode, asked, heard, body, step, left, result, mailOf, wanted, inClear,
                     acked, spoken, conns>>
  BY DEF Reroute, wire, session, clientVars, script, record
<1>2. /\ from # 0 /\ route' = [route EXCEPT ![addr] = a] /\ reroutes' = reroutes + 1
      /\ store' = [b \in Accounts |->
                      IF \E d \in Addresses : route'[d] = b THEN store[b] ELSE {}]
  BY DEF Reroute
<1> DEFINE Gone == UNION {store[b] \ store'[b] : b \in Accounts}
<1>3. excused' = excused \cup {<<c.txn, d>> : c \in Gone, d \in Addresses} \cup {<<from, addr>>}
  BY <1>2 DEF Reroute
<1>4. Numbered /\ Envelope /\ Message /\ Filed
  BY DEF ServerSide
<1>5. Txns' = Txns /\ Current' = Current /\ Txns \subseteq 1 .. MaxTxns
  BY <1>1 DEF Txns, Current
<1>6. /\ store \in [Accounts -> SUBSET Copy] /\ excused \subseteq (1 .. MaxTxns) \X Addresses
      /\ route \in [Addresses -> Accounts \cup {None}] /\ reroutes \in Nat
      /\ from \in 0 .. MaxTxns /\ MaxTxns \in Nat
  BY TypeParts, SessionAssumption DEF RelayTyped, SessionTyped
<1>7. /\ store' \in [Accounts -> SUBSET Copy]
      /\ \A b \in Accounts : store'[b] \subseteq store[b] /\ store'[b] \in {store[b], {}}
  BY <1>2, <1>6
<1>8. \A b \in Accounts : \A c \in store[b] : c.txn \in Txns /\ c.mail = mailOf[c.txn]
  BY <1>4 DEF Filed
<1>9. \A b \in Accounts : \A c \in store[b] : c \notin store'[b] => c \in Gone
  OBVIOUS
<1>10. \A c \in Gone : c.txn \in Txns
  BY <1>8
<1> HIDE DEF Gone
<1>11. /\ excused \subseteq excused' /\ excused' \subseteq (1 .. MaxTxns) \X Addresses
       /\ <<from, addr>> \in excused'
       /\ \A c \in Gone, d \in Addresses : <<c.txn, d>> \in excused'
  <2>1. from \in 1 .. MaxTxns
    BY <1>2, <1>6
  <2>2. \A c \in Gone, d \in Addresses : <<c.txn, d>> \in (1 .. MaxTxns) \X Addresses
    BY <1>5, <1>10
  <2>3. QED
    BY <1>3, <1>6, <2>1, <2>2
<1>12. \A t : Fresh(t) => Fresh(t)'
  BY <1>1, <1>7 DEF Fresh
<1>13. \A r \in Addresses : r # addr => route'[r] = route[r]
  BY <1>2, <1>6
<1>14. TypeOK' /\ Bounded'
  <2>1. WireTyped' /\ SessionTyped'
    BY <1>1, TypeParts DEF WireTyped, SessionTyped
  <2>2. route' \in [Addresses -> Accounts \cup {None}] /\ reroutes' \in Nat
    BY <1>2, <1>6
  <2>3. RelayTyped'
    BY <1>1, <1>7, <1>11, <2>2, TypeParts DEF RelayTyped
  <2>4. ClientTyped' /\ RecordTyped'
    BY <1>1, TypeParts DEF ClientTyped, RecordTyped
  <2>5. QED
    BY <1>1, <2>1, <2>3, <2>4, TypePartsPrime DEF Bounded
<1>15. Numbered'
  BY <1>1, <1>4, <1>5 DEF Numbered
<1>16. Envelope'
  <2>1. ASSUME NEW r \in Addresses, Fit(from, r) PROVE Fit(from, r)'
    <3>1. CASE r = addr
      BY <1>1, <1>11, <2>1, <3>1 DEF Fit
    <3>2. CASE r # addr
      BY <1>1, <1>11, <1>13, <2>1, <3>2 DEF Fit
    <3>3. QED
      BY <3>1, <3>2
  <2>2. rcpts \in Seq(Addresses) /\ todo \in Seq(Addresses)
    BY TypeParts DEF SessionTyped
  <2>3. (\A i \in DOMAIN rcpts : rcpts[i] \in Addresses) /\ (\A i \in DOMAIN todo : todo[i] \in Addresses)
    BY <2>2
  <2>4. task \in {"command", "data"} => \A i \in DOMAIN rcpts' : Fit(from, rcpts[i])'
    <3>1. ASSUME task \in {"command", "data"}, NEW i \in DOMAIN rcpts, NEW r \in Addresses, r = rcpts[i]
          PROVE  Fit(from, r)'
      BY <1>4, <2>1, <3>1 DEF Envelope
    <3>2. QED
      BY <1>1, <2>3, <3>1 DEF Fit
  <2>5. task = "deliver" => \A i \in DOMAIN todo' : Fit(from, todo[i])'
    <3>1. ASSUME task = "deliver", NEW i \in DOMAIN todo, NEW r \in Addresses, r = todo[i]
          PROVE  Fit(from, r)'
      BY <1>4, <2>1, <3>1 DEF Envelope
    <3>2. QED
      BY <1>1, <2>3, <3>1 DEF Fit
  <2>6. Fresh(from) => Fresh(from)'
    BY <1>1, <1>7 DEF Fresh
  <2>7. QED
    BY <1>1, <1>4, <2>4, <2>5, <2>6 DEF Envelope
<1>17. ASSUME Reading PROVE Queue' /\ Wants' /\ Newest'
  <2>1. /\ \A i \in DOMAIN toServer : i > Skip' => i > Skip
        /\ \A i \in DOMAIN toServer : toServer[i].txn \in Nat
    <3>1. Skip' = Skip
      BY <1>1 DEF Skip, Text
    <3>2. QED
      BY <1>4, <3>1, SkipTyped
  <2>2. From' = From /\ From \in Nat
    BY <1>1, <1>6 DEF From
  <2>3. QED
    BY <1>1, <1>12, <1>17, <2>1, <2>2, QueueStays DEF Reading
<1>18. Message'
  BY <1>1, <1>4 DEF Message, Text, Skip
<1>19. Filed'
  BY <1>1, <1>4, <1>5, <1>7 DEF Filed
<1>20. ServerSide'
  BY <1>1, <1>15, <1>16, <1>17, <1>18, <1>19 DEF ServerSide, Reading
<1>21. Sync'
  <2>1. AskedWords'
    BY <1>1 DEF Sync, AskedWords, IsWord, Txns
  <2>2. /\ InBanner' <=> InBanner
        /\ InCommand' <=> InCommand
        /\ InDeliver' <=> InDeliver
    BY <1>1 DEF InBanner, InCommand, InDeliver, AtDot, AllPlain, Plain, Silent, Matched
  <2>3. /\ InHandshake' <=> InHandshake
        /\ InEnd' <=> InEnd
    BY <1>1 DEF InHandshake, InEnd, LastIs, Plain, Quiet
  <2>4. InData' <=> InData
    BY <1>1 DEF InData, LastIs, Plain, Quiet, Silent, Matched, Skip, Text
  <2>5. QED
    BY <1>1, <2>1, <2>2, <2>3, <2>4 DEF Sync, Quiet
<1>22. Trace'
  <2>1. \A h : Agrees(h) => Agrees(h)'
    BY <1>1, <1>11 DEF Agrees
  <2>2. SUFFICES ASSUME link = "open" /\ task \in {"command", "data"}
                 PROVE  \E H \in [0 .. Len(toClient) -> Heard] :
                            /\ H[0] = heard
                            /\ \A i \in DOMAIN toClient :
                                   /\ H[i] = After(H[i - 1], asked[i], toClient[i])
                                   /\ asked[i].verb = "RCPT" /\ toClient[i] = 502 => H[i - 1].txn = 0
                            /\ Holds(H[Len(toClient)], from, rcpts, excused')
    BY <1>1 DEF Trace, Agrees, Holds
  <2>3. PICK H \in [0 .. Len(toClient) -> Heard] :
            /\ H[0] = heard
            /\ \A i \in DOMAIN toClient :
                   /\ H[i] = After(H[i - 1], asked[i], toClient[i])
                   /\ asked[i].verb = "RCPT" /\ toClient[i] = 502 => H[i - 1].txn = 0
            /\ Agrees(H[Len(toClient)])
    BY <2>2 DEF Trace
  <2>4. Holds(H[Len(toClient)], from, rcpts, excused')
    BY <1>11, <2>3 DEF Agrees, Holds
  <2>5. QED
    BY <2>3, <2>4
<1>23. \A t \in Txns, x \in Addresses : Kept(t, x) => Kept(t, x)'
  <2>1. ASSUME NEW b \in Accounts, NEW c \in store[b], c.lines = Body[c.mail]
        PROVE  \/ \E e \in Accounts : \E d \in store'[e] : d.mail = c.mail /\ d.lines = Body[d.mail]
               \/ c.txn \in Txns /\ mailOf[c.txn] = c.mail /\ \A x \in Addresses : <<c.txn, x>> \in excused'
    <3>1. CASE c \in store'[b]
      BY <2>1, <3>1
    <3>2. CASE c \notin store'[b]
      BY <1>8, <1>9, <1>11, <3>2
    <3>3. QED
      BY <3>1, <3>2
  <2>2. ASSUME NEW t \in Txns, NEW x \in Addresses, Kept(t, x) PROVE Kept(t, x)'
    <3>1. \A u \in Txns : u \in Txns' /\ mailOf'[u] = mailOf[u]
      BY <1>1, <1>5
    <3>2. activity \subseteq activity'
      BY <1>1
    <3>3. QED
      BY <1>11, <2>1, <2>2, <3>1, <3>2, KeptStays
  <2>3. QED
    BY <2>2
<1>24. Acks'
  <2>1. \A ack \in acked' : ack[1] \in Txns' /\ Kept(ack[1], ack[2])'
    BY <1>1, <1>23, AckedStays
  <2>2. heard.rcpts \subseteq Addresses /\ (heard.txn # 0 => heard.txn \in Txns)
    BY <1>4, TypeParts DEF WireTyped, Heard, Numbered
  <2>3. \A x \in heard.rcpts : heard.txn # 0 /\ Kept(heard.txn, x) => Kept(heard.txn, x)'
    <3>1. ASSUME NEW x \in heard.rcpts, NEW t, t = heard.txn, t # 0, Kept(t, x) PROVE Kept(t, x)'
      BY <1>23, <2>2, <3>1
    <3>2. QED
      BY <1>1, <3>1 DEF Kept
  <2>4. task = "deliver" /\ link = "open" => from = heard.txn /\ from # 0
    BY <1>2 DEF Acks
  <2>5. QED
    BY <1>1, <2>1, <2>3, <2>4 DEF Acks
<1>25. Relay'
  <2>1. SentToAll' <=> SentToAll
    BY <1>1, <1>5 DEF SentToAll
  <2>2. QED
    BY <1>1, <2>1 DEF Relay
<1>26. QED
  BY <1>14, <1>20, <1>21, <1>22, <1>24, <1>25

\* Nothing happens.
LEMMA StutterIInv ==
    ASSUME IInv, UNCHANGED vars
    PROVE  IInv'
<1>1. /\ UNCHANGED <<link, toServer, toClient, task, secure, greeted, from, rcpts, errors, got, todo>>
      /\ UNCHANGED <<tls, route, store, activity, now, whole, excused, reroutes, failures>>
      /\ UNCHANGED <<sender, mode, asked, heard, body, step, left, result, mailOf, wanted, inClear,
                     acked, spoken, conns>>
  BY DEF vars, serverVars, wire, session, relay, history, bounds, clientVars, script, record
<1>2. TypeOK'
  <2>1. WireTyped' /\ SessionTyped'
    BY <1>1, TypeParts DEF IInv, WireTyped, SessionTyped
  <2>2. RelayTyped' /\ ClientTyped' /\ RecordTyped'
    BY <1>1, TypeParts DEF IInv, RelayTyped, ClientTyped, RecordTyped
  <2>3. QED
    BY <2>1, <2>2, TypePartsPrime
<1>3. ServerSide'
  <2>1. Numbered' /\ Envelope' /\ Message' /\ Filed' /\ (Reading' <=> Reading)
    BY <1>1 DEF IInv, ServerSide, Numbered, Envelope, Fit, Fresh, Message, Filed, Txns, Current, Text,
                Skip, Reading
  <2>2. Reading => Queue' /\ Wants' /\ Newest'
    BY <1>1 DEF IInv, ServerSide, Queue, Wants, Newest, IsMail, IsWord, Fresh, From, Skip, Text,
                Txns, Current
  <2>3. QED
    BY <2>1, <2>2 DEF ServerSide
<1>4. Sync'
  <2>1. AskedWords' /\ (InBanner' <=> InBanner) /\ (InCommand' <=> InCommand) /\ (InDeliver' <=> InDeliver)
    BY <1>1 DEF IInv, Sync, AskedWords, IsWord, Txns, InBanner, InCommand, InDeliver, AtDot,
                AllPlain, Plain, Silent, Matched
  <2>2. /\ InHandshake' <=> InHandshake
        /\ InEnd' <=> InEnd
        /\ InData' <=> InData
    BY <1>1 DEF InHandshake, InEnd, InData, LastIs, Plain, Quiet, Silent, Matched, Skip, Text
  <2>3. QED
    BY <1>1, <2>1, <2>2 DEF IInv, Sync, Quiet
<1>5. Trace' /\ Bounded'
  BY <1>1 DEF IInv, Trace, Agrees, Bounded
<1>6. Acks' /\ Relay'
  BY <1>1 DEF IInv, Acks, Kept, Relay, SentToAll, Txns
<1>7. QED
  BY <1>2, <1>3, <1>4, <1>5, <1>6 DEF IInv

\* Every step of the server.
LEMMA ServerIInv ==
    ASSUME IInv, ServerNext, UNCHANGED clientVars
    PROVE  IInv'
<1>1. CASE SessionTask
  <2>1. CASE Hello \/ Mail \/ MailRefused \/ Rcpt \/ RcptRefused \/ DataRefused \/ Rset \/ Chat
    BY <2>1, CommandsIInv
  <2>2. CASE Quit \/ ProtocolError
    BY <2>2, CommandsIInv, GoodbyeIInv
  <2>3. CASE Open \/ StartTls \/ HandshakeFails \/ HangUp
    BY <2>3, OpenIInv, StartTlsIInv, EndsIInv
  <2>4. CASE Data \/ ReadLine \/ EndOfData \/ Deliver \/ Delivered
    BY <2>4, DataIInv, ReadLineIInv, EndOfDataIInv, DeliverIInv, DeliveredIInv
  <2>5. QED
    BY <1>1, <2>1, <2>2, <2>3, <2>4 DEF SessionTask
<1>2. ASSUME NEW addr \in Addresses, NEW a \in Accounts \cup {None}, Reroute(addr, a)
      PROVE  IInv'
  BY <1>2, RerouteIInv
<1>3. QED
  BY <1>1, <1>2 DEF ServerNext

-----------------------------------------------------------------------------
(* The connection comes and goes.                                            *)

LEMMA ConnectIInv ==
    ASSUME IInv, Connect
    PROVE  IInv'
<1> USE DEF IInv
<1>1. /\ link = "closed" /\ link' = "open" /\ task' = "banner" /\ secure' = FALSE
      /\ mode' = "talk" /\ asked' = <<Cmd("connect")>> /\ heard' = Nothing /\ body' = <<>>
      /\ step' = "EHLO" /\ left' = Addresses /\ result' = "none" /\ conns' = conns + 1
  BY DEF Connect
<1>2. /\ UNCHANGED <<toServer, toClient, greeted, from, rcpts, errors, got, todo>>
      /\ UNCHANGED <<tls, route, store, activity, now, whole, excused, reroutes, failures>>
      /\ UNCHANGED <<sender, mailOf, wanted, inClear, acked, spoken>>
  BY DEF Connect, serverOwn, session, relay, history, bounds, record
<1>3. toServer = <<>> /\ toClient = <<>>
  BY <1>1 DEF Sync, Quiet
<1>4. Cmd("connect") \in Item /\ Cmd("connect").verb = "connect" /\ Nothing \in Heard
  <2>1. Blank \in Line
    BY DEF Blank, Line
  <2>2. Cmd("connect") \in Item
    BY <2>1 DEF Cmd, Item, Verbs
  <2>3. QED
    BY <2>2, SessionAssumption DEF Cmd, Nothing, Heard
<1>5. Txns' = Txns /\ Current' = Current
  BY <1>2 DEF Txns, Current
<1>6. Numbered /\ Filed
  BY DEF ServerSide
<1>7. TypeOK' /\ Bounded'
  <2>1. asked' \in Seq(Item) /\ body' \in Seq(Line)
    BY <1>1, <1>4
  <2>2. WireTyped'
    BY <1>1, <1>2, <1>4, <2>1, TypeParts DEF WireTyped
  <2>3. SessionTyped'
    BY <1>1, <1>2, TypeParts DEF SessionTyped
  <2>4. conns' \in Nat
    <3>1. conns \in Nat
      BY TypeParts DEF ClientTyped
    <3>2. QED
      BY <1>1, <3>1
  <2>5. RelayTyped' /\ ClientTyped' /\ RecordTyped'
    BY <1>1, <1>2, <2>4, TypeParts DEF RelayTyped, ClientTyped, RecordTyped
  <2>6. QED
    BY <1>1, <2>2, <2>3, <2>5, TypePartsPrime DEF Bounded
<1>8. Numbered' /\ Filed' /\ Message' /\ Envelope'
  BY <1>1, <1>2, <1>5, <1>6, FiledStays DEF Numbered, Message, Envelope, Nothing
<1>9. Queue' /\ Wants' /\ Newest'
  <2>1. DOMAIN toServer' = {} /\ From' = 0
    BY <1>1, <1>2, <1>3 DEF From
  <2>2. QED
    BY <2>1 DEF Queue, Wants, Newest
<1>10. ServerSide'
  BY <1>8, <1>9 DEF ServerSide
<1>11. Sync'
  <2>1. Len(asked') = 1 /\ DOMAIN asked' = {1} /\ asked'[1] = Cmd("connect") /\ asked' # <<>>
    BY <1>1
  <2>2. AskedWords'
    BY <1>4, <2>1 DEF AskedWords
  <2>3. InBanner'
    <3>1. Len(toServer') = 0 /\ DOMAIN toServer' = {}
      BY <1>2, <1>3
    <3>2. QED
      BY <1>1, <1>2, <1>3, <2>1, <3>1 DEF InBanner, Silent
  <2>4. QED
    BY <1>1, <2>2, <2>3 DEF Sync
<1>12. Trace'
  BY <1>1 DEF Trace
<1>13. Acks'
  <2>1. \A t \in Txns, a \in Addresses : Kept(t, a) => Kept(t, a)'
    BY <1>2, KeptSame
  <2>2. \A ack \in acked' : ack[1] \in Txns' /\ Kept(ack[1], ack[2])'
    BY <1>2, <2>1, AckedStays
  <2>3. QED
    BY <1>1, <1>2, <1>3, <2>2 DEF Acks
<1>14. Relay'
  <2>1. Len(asked') = 1 /\ asked'[1].verb = "connect"
    BY <1>1, <1>4
  <2>2. SentToAll'
    BY <1>1 DEF SentToAll
  <2>3. QED
    BY <1>1, <2>1, <2>2 DEF Relay
<1>15. QED
  BY <1>7, <1>10, <1>11, <1>12, <1>13, <1>14

\* Only a beginning of what the client had sent arrives.
LEMMA QueueShortens ==
    ASSUME TypeOK, ServerSide, NEW n \in 0 .. Len(toServer), toServer' = SubSeq(toServer, 1, n),
           link' # "open", UNCHANGED <<task, secure, from, got, mailOf, wanted, inClear, whole, store>>
    PROVE  (Reading => Queue' /\ Wants' /\ Newest') /\ Message' /\ toServer' \in Seq(Item)
<1>1. /\ Len(toServer) \in Nat /\ DOMAIN toServer = 1 .. Len(toServer)
      /\ n \in Nat /\ n <= Len(toServer)
      /\ Len(toServer') = n /\ DOMAIN toServer' = 1 .. n /\ toServer' \in Seq(Item)
      /\ \A i \in 1 .. n : toServer'[i] = toServer[i] /\ i \in DOMAIN toServer
  <2>1. toServer \in Seq(Item)
    BY TypeParts DEF WireTyped
  <2>2. Len(toServer) \in Nat /\ n \in Nat /\ n <= Len(toServer)
    BY <2>1
  <2>3. SubSeq(toServer, 1, n) \in Seq(Item) /\ Len(SubSeq(toServer, 1, n)) = n
        /\ \A i \in 1 .. n : SubSeq(toServer, 1, n)[i] = toServer[i]
    BY <2>1, <2>2
  <2>4. QED
    BY <2>1, <2>2, <2>3
<1>2. /\ Txns' = Txns /\ Current' = Current /\ From' = From /\ Skip' = Skip /\ Text' = Text
      /\ \A t : Fresh(t)' <=> Fresh(t)
  BY DEF Txns, Current, From, Skip, Text, Fresh
<1>3. \A i \in 1 .. n : IsMail(i)' <=> IsMail(i)
  BY <1>1 DEF IsMail
<1>4. ASSUME Reading PROVE Queue' /\ Wants' /\ Newest'
  <2>1. Queue /\ Wants
    BY <1>4 DEF ServerSide
  <2>2. Queue'
    <3>1. \A i \in DOMAIN toServer' : i > Skip' => IsWord(toServer[i])'
      BY <1>1, <1>2, <2>1 DEF Queue, IsWord
    <3>2. \A i \in DOMAIN toServer' : toServer'[i].verb = "DATA" => i = Len(toServer')
      BY <1>1, <2>1 DEF Queue
    <3>3. \A i, j \in DOMAIN toServer' :
              i < j /\ IsMail(i)' /\ IsMail(j)' => toServer'[i].txn < toServer'[j].txn
      BY <1>1, <1>3, <2>1 DEF Queue
    <3>4. ASSUME NEW i \in DOMAIN toServer', IsMail(i)'
          PROVE  /\ From' < toServer'[i].txn /\ Fresh(toServer[i].txn)'
                 /\ secure' => toServer'[i].txn \notin inClear'
      <4>1. /\ From < toServer[i].txn /\ Fresh(toServer[i].txn)
            /\ secure => toServer[i].txn \notin inClear /\ toServer'[i] = toServer[i]
        BY <1>1, <1>3, <2>1, <3>4 DEF Queue
      <4>2. toServer'[i] = toServer[i]
        BY <1>1
      <4>3. Fresh(toServer[i].txn)'
        BY <4>1, <4>2 DEF Fresh
      <4>4. QED
        BY <1>2, <4>1, <4>2, <4>3
    <3>5. QED
      BY <3>1, <3>2, <3>3, <3>4 DEF Queue
  <2>3. Wants'
    BY <1>1, <1>2, <1>3, <2>1 DEF Wants
  <2>4. QED
    BY <2>2, <2>3 DEF Newest
<1>5. Message'
  BY <1>1, <1>2 DEF ServerSide, Message
<1>6. QED
  BY <1>1, <1>4, <1>5

\* The invariant where the connection is no longer open.
LEMMA OverIInv ==
    ASSUME IInv, link' \in {"closed", "fin", "broken"}, mode' = "gone", body' = <<>>,
           asked' = <<>>, toClient' = <<>>, toServer' \in Seq(Item),
           link' = "closed" => task = "ended" /\ toServer' = <<>>,
           (Reading => Queue' /\ Wants' /\ Newest') /\ Message',
           result' \in {result, "io", "rejected"},
           UNCHANGED <<task, secure, serverOwn, sender, heard, step, left, record, acked, spoken, conns>>
    PROVE  IInv'
<1> USE DEF IInv
<1>1. /\ UNCHANGED <<task, secure, greeted, from, rcpts, errors, got, todo>>
      /\ UNCHANGED <<tls, route, store, activity, now, whole, excused, reroutes, failures>>
      /\ UNCHANGED <<sender, heard, step, left, mailOf, wanted, inClear, acked, spoken, conns>>
  BY DEF serverOwn, session, relay, history, bounds, record
<1>2. Txns' = Txns /\ Current' = Current
  BY <1>1 DEF Txns, Current
<1>3. TypeOK' /\ Bounded'
  <2>1. asked' \in Seq(Item) /\ toClient' \in Seq(Codes) /\ body' \in Seq(Line)
    OBVIOUS
  <2>2. WireTyped'
    BY <1>1, <2>1, TypeParts DEF WireTyped
  <2>3. SessionTyped' /\ RelayTyped'
    BY <1>1, TypeParts DEF SessionTyped, RelayTyped
  <2>4. ClientTyped' /\ RecordTyped'
    BY <1>1, TypeParts DEF ClientTyped, RecordTyped
  <2>5. QED
    BY <1>1, <2>2, <2>3, <2>4, TypePartsPrime DEF Bounded
<1>4. ServerSide'
  <2>1. Numbered' /\ Filed'
    BY <1>1, <1>2, FiledStays DEF ServerSide, Numbered
  <2>2. Envelope'
    <3>1. Envelope
      BY DEF ServerSide
    <3>2. \A t : Fresh(t)' <=> Fresh(t)
      BY <1>1 DEF Fresh
    <3>3. Fresh(from)' <=> Fresh(from)
      BY <1>1 DEF Fresh
    <3>4. QED
      BY <1>1, <3>1, <3>3 DEF Envelope, Fit
  <2>3. QED
    BY <1>1, <2>1, <2>2 DEF ServerSide, Reading
<1>5. Sync'
  <2>1. AskedWords'
    <3>1. DOMAIN asked' = {}
      OBVIOUS
    <3>2. QED
      BY <3>1 DEF AskedWords
  <2>2. QED
    BY <1>1, <2>1 DEF Sync, Quiet
<1>6. Trace'
  BY DEF Trace
<1>7. Acks'
  <2>1. \A t \in Txns, a \in Addresses : Kept(t, a) => Kept(t, a)'
    BY <1>1, KeptSame
  <2>2. \A ack \in acked' : ack[1] \in Txns' /\ Kept(ack[1], ack[2])'
    BY <1>1, <2>1, AckedStays
  <2>3. QED
    BY <2>2 DEF Acks
<1>8. Relay'
  BY <1>1, <1>2 DEF Relay, SentToAll
<1>9. QED
  BY <1>3, <1>4, <1>5, <1>6, <1>7, <1>8

\* The client leaves.
LEMMA LeaveIInv ==
    ASSUME IInv, NEW how \in {"fin", "broken"}, Leave(how), result' \in {result, "rejected"}
    PROVE  IInv'
<1>1. /\ link' = how /\ mode' = "gone" /\ asked' = <<>> /\ body' = <<>> /\ toClient' = <<>>
      /\ UNCHANGED <<task, secure, serverOwn, sender, heard, step, left, record, acked, spoken, conns>>
  BY DEF Leave
<1>2. \E n \in 0 .. Len(toServer) : toServer' = SubSeq(toServer, 1, n)
  <2>1. PICK n \in 0 .. Len(toServer) : toServer' = IF how = "fin" THEN SubSeq(toServer, 1, n) ELSE <<>>
    BY DEF Leave
  <2>2. toServer \in Seq(Item)
    BY TypeParts DEF IInv, WireTyped
  <2>3. Len(toServer) \in Nat /\ 0 \in 0 .. Len(toServer)
    BY <2>2
  <2>4. SubSeq(toServer, 1, 0) = <<>>
    BY <2>2
  <2>5. QED
    BY <2>1, <2>3, <2>4
<1>3. UNCHANGED <<task, secure, from, got, mailOf, wanted, inClear, whole, store>>
  BY <1>1 DEF serverOwn, session, relay, history, record
<1>4. (Reading => Queue' /\ Wants' /\ Newest') /\ Message' /\ toServer' \in Seq(Item)
  BY <1>1, <1>2, <1>3, QueueShortens DEF IInv
<1>5. QED
  BY <1>1, <1>4, OverIInv

LEMMA CloseIInv ==
    ASSUME IInv, Close
    PROVE  IInv'
<1>1. /\ task = "ended" /\ link' = "closed" /\ toServer' = <<>> /\ toClient' = <<>>
      /\ mode' = "gone" /\ asked' = <<>> /\ body' = <<>> /\ result' \in {result, "io"}
      /\ UNCHANGED <<task, secure, serverOwn, sender, heard, step, left, record, acked, spoken, conns>>
  BY DEF Close
<1>2. ~ Reading /\ Message' /\ toServer' \in Seq(Item)
  BY <1>1 DEF Reading, Message
<1>3. QED
  BY <1>1, <1>2, OverIInv

\* The handshake: the session starts again over TLS.
LEMMA HandshakeIInv ==
    ASSUME IInv, Handshake
    PROVE  IInv'
<1> USE DEF IInv
<1>1. /\ task = "handshake" /\ mode = "tls" /\ link = "open" /\ toServer = <<>> /\ toClient = <<>>
      /\ secure' = TRUE /\ task' = "banner" /\ mode' = "talk"
  BY DEF Handshake
<1>2. /\ UNCHANGED <<link, toServer, toClient, greeted, from, rcpts, errors, got, todo>>
      /\ UNCHANGED <<tls, route, store, activity, now, whole, excused, reroutes, failures>>
      /\ UNCHANGED <<sender, asked, heard, body, step, left, result, mailOf, wanted, inClear,
                     acked, spoken, conns>>
  BY DEF Handshake, wire, serverOwn, session, relay, history, bounds, script, record
<1>3. Quiet /\ heard = Nothing /\ asked = <<>>
  BY <1>1 DEF Sync, InHandshake, Quiet
<1>4. Txns' = Txns /\ Current' = Current
  BY <1>2 DEF Txns, Current
<1>5. TypeOK' /\ Bounded'
  <2>1. WireTyped' /\ SessionTyped'
    BY <1>1, <1>2, TypeParts DEF WireTyped, SessionTyped
  <2>2. RelayTyped' /\ ClientTyped' /\ RecordTyped'
    BY <1>2, TypeParts DEF RelayTyped, ClientTyped, RecordTyped
  <2>3. QED
    BY <1>1, <2>1, <2>2, TypePartsPrime DEF Bounded
<1>6. ServerSide'
  <2>1. Numbered' /\ Filed' /\ Message' /\ Envelope'
    BY <1>1, <1>2, <1>4, FiledStays DEF ServerSide, Numbered, Message, Envelope
  <2>2. DOMAIN toServer' = {} /\ From' = 0
    BY <1>1, <1>2 DEF From
  <2>3. QED
    BY <2>1, <2>2 DEF ServerSide, Queue, Wants, Newest
<1>7. Sync'
  <2>1. DOMAIN asked' = {} /\ Len(asked') = 0 /\ Len(toServer') = 0 /\ Len(toClient') = 0
    BY <1>1, <1>2, <1>3
  <2>2. AskedWords'
    BY <2>1 DEF AskedWords
  <2>3. Matched(0)'
    BY <2>1 DEF Matched
  <2>4. InBanner'
    BY <1>1, <1>2, <1>3, <2>3 DEF InBanner, Silent
  <2>5. QED
    BY <1>1, <1>2, <2>2, <2>4 DEF Sync
<1>8. Trace'
  BY <1>1 DEF Trace
<1>9. Acks'
  <2>1. \A t \in Txns, a \in Addresses : Kept(t, a) => Kept(t, a)'
    BY <1>2, KeptSame
  <2>2. QED
    BY <1>1, <1>2, <2>1, AcksStay DEF ServerSide
<1>10. Relay'
  <2>1. SentToAll' <=> SentToAll
    BY <1>2, <1>4 DEF SentToAll
  <2>2. QED
    BY <1>1, <1>2, <2>1 DEF Relay
<1>11. QED
  BY <1>5, <1>6, <1>7, <1>8, <1>9, <1>10

-----------------------------------------------------------------------------
(* What the client says.                                                     *)

\* Item is said: what that does to the record, and that the item is a command.
Says(item) ==
    /\ Send(item)
    /\ item \in Item /\ item.verb \notin {"line", ".", "connect"}
    /\ item.verb = "MAIL" => item.txn \in Txns'
    /\ item.verb = "RCPT" => item.addr \in Addresses
    /\ RecordTyped' /\ Numbered'
    /\ Txns \subseteq Txns' /\ (\A t \in Txns : mailOf'[t] = mailOf[t])
    /\ wanted \subseteq wanted'
    /\ secure => inClear' = inClear
    /\ item.verb = "MAIL" =>
           item.txn = Current + 1 /\ Current' = Current + 1 /\ Fresh(item.txn)
    /\ item.verb # "MAIL" => UNCHANGED mailOf
    /\ item.verb = "RCPT" => <<Current, item.addr>> \in wanted'

LEMMA BlankItems ==
    /\ \A verb \in Verbs : Cmd(verb) \in Item /\ Cmd(verb).verb = verb
    /\ \A t \in Nat : MailItem(t) \in Item /\ MailItem(t).verb = "MAIL" /\ MailItem(t).txn = t
    /\ \A a \in Addresses : RcptItem(a) \in Item /\ RcptItem(a).verb = "RCPT" /\ RcptItem(a).addr = a
<1>1. Blank \in Line
  BY DEF Blank, Line
<1>2. \A verb \in Verbs : Cmd(verb) \in Item /\ Cmd(verb).verb = verb
  BY <1>1 DEF Cmd, Item
<1>3. ASSUME NEW t \in Nat PROVE MailItem(t) \in Item /\ MailItem(t).verb = "MAIL" /\ MailItem(t).txn = t
  BY <1>1 DEF MailItem, Cmd, Item, Verbs
<1>4. ASSUME NEW a \in Addresses
      PROVE  RcptItem(a) \in Item /\ RcptItem(a).verb = "RCPT" /\ RcptItem(a).addr = a
  BY <1>1 DEF RcptItem, Cmd, Item, Verbs
<1>5. QED
  BY <1>2, <1>3, <1>4

LEMMA SendFacts ==
    ASSUME NEW item, Send(item)
    PROVE  /\ mode = "talk" /\ link = "open"
           /\ toServer' = Append(toServer, item) /\ asked' = Append(asked, item)
           /\ UNCHANGED <<link, toClient, task, secure, greeted, from, rcpts, errors, got, todo>>
           /\ UNCHANGED <<tls, route, store, activity, now, whole, excused, reroutes, failures>>
           /\ UNCHANGED <<sender, mode, heard, body, result, acked, conns>>
  BY DEF Send, serverOwn, session, relay, history, bounds

\* The numbers of the transactions asked for are 1, 2, ...
LEMMA NextTransaction ==
    ASSUME TypeOK, Numbered, Filed, NEW mail \in Mails, SayMail(mail)
    PROVE  Says(MailItem(Current + 1))
<1> DEFINE t == Current + 1
<1>1. /\ t \in 1 .. MaxTxns /\ Send(MailItem(t)) /\ wanted' = wanted
      /\ mailOf' = [mailOf EXCEPT ![t] = mail]
      /\ inClear' = IF secure THEN inClear ELSE inClear \cup {t}
      /\ Current \in 0 .. MaxTxns /\ MaxTxns \in Nat
  <2>1. Current \in 0 .. MaxTxns /\ MaxTxns \in Nat
    BY SessionAssumption DEF Numbered
  <2>2. t <= MaxTxns
    BY DEF SayMail
  <2>3. t \in 1 .. MaxTxns
    BY <2>1, <2>2
  <2>4. QED
    BY <2>1, <2>3 DEF SayMail
<1>2. UNCHANGED <<whole, store, task, heard, from>>
  BY <1>1, SendFacts
<1>3. MailItem(t) \in Item /\ MailItem(t).verb = "MAIL" /\ MailItem(t).txn = t
  BY <1>1, BlankItems
<1>4. mail # None /\ mailOf \in [1 .. MaxTxns -> Mails \cup {None}]
  BY TypeParts, SmtpAssumption DEF RecordTyped
<1>5. Txns = 1 .. Current
  BY <1>1 DEF Txns, Numbered
<1>6. Txns' = 1 .. t
  <2>1. \A u \in 1 .. MaxTxns : mailOf'[u] # None <=> u = t \/ mailOf[u] # None
    BY <1>1, <1>4
  <2>2. \A u \in 1 .. MaxTxns : mailOf'[u] # None <=> u <= t
    BY <1>1, <2>1 DEF Numbered
  <2>3. Txns' = {u \in 1 .. MaxTxns : u <= t}
    BY <2>2 DEF Txns
  <2>4. QED
    BY <1>1, <2>3
<1>7. Current' = t
  <2>1. Cardinality(1 .. t) = t
    BY <1>1, FS_Interval
  <2>2. QED
    BY <1>6, <2>1 DEF Current
<1>8. Txns \subseteq Txns' /\ t \in Txns' /\ t \notin Txns
  BY <1>1, <1>5, <1>6
<1>9. \A u \in Txns : mailOf'[u] = mailOf[u]
  BY <1>1, <1>4, <1>8 DEF Txns
<1>10. Fresh(t)
  BY <1>8 DEF Fresh, Numbered, Filed
<1>11. RecordTyped'
  <2>1. mailOf' \in [1 .. MaxTxns -> Mails \cup {None}]
    BY <1>1, <1>4
  <2>2. inClear' \subseteq 1 .. MaxTxns
    BY <1>1, TypeParts DEF RecordTyped
  <2>3. QED
    BY <1>1, <2>1, <2>2, TypeParts, SendFacts DEF RecordTyped
<1>12. Numbered'
  <2>1. \A u \in 1 .. MaxTxns : mailOf'[u] # None <=> u <= Current'
    BY <1>1, <1>6, <1>7 DEF Txns
  <2>2. whole' \subseteq Txns' /\ inClear' \subseteq Txns' /\ heard'.txn \in {0} \cup Txns'
    BY <1>1, <1>2, <1>8 DEF Numbered
  <2>3. task' \in {"command", "data", "deliver"} => from' \in {0} \cup Txns'
    BY <1>2, <1>8 DEF Numbered
  <2>4. Current' \in 0 .. MaxTxns
    BY <1>1, <1>7
  <2>5. QED
    BY <2>1, <2>2, <2>3, <2>4 DEF Numbered
<1>13. QED
  BY <1>1, <1>3, <1>7, <1>8, <1>9, <1>10, <1>11, <1>12 DEF Says

LEMMA OtherWords ==
    ASSUME TypeOK, Numbered
    PROVE  /\ \A a \in Addresses : SayRcpt(a) => Says(RcptItem(a))
           /\ \A verb \in Verbs \ {"connect", "MAIL", "RCPT", "line", "."} :
                  SayWord(verb) => Says(Cmd(verb))
<1>1. ASSUME NEW item \in Item, Send(item), item.verb \notin {"line", ".", "connect", "MAIL"},
             item.verb = "RCPT" => item.addr \in Addresses /\ <<Current, item.addr>> \in wanted',
             UNCHANGED <<mailOf, inClear>>, wanted \subseteq wanted',
             wanted' \subseteq (0 .. MaxTxns) \X Addresses
      PROVE  Says(item)
  <2>1. UNCHANGED <<whole, store, task, heard, from, acked>>
    BY <1>1, SendFacts
  <2>2. Txns' = Txns /\ Current' = Current
    BY <1>1 DEF Txns, Current
  <2>3. Numbered'
    BY <1>1, <2>1, <2>2 DEF Numbered
  <2>4. RecordTyped'
    BY <1>1, <2>1, TypeParts DEF RecordTyped
  <2>5. QED
    BY <1>1, <2>2, <2>3, <2>4 DEF Says
<1>2. wanted \subseteq (0 .. MaxTxns) \X Addresses /\ Current \in 0 .. MaxTxns
  BY TypeParts DEF RecordTyped, Numbered
<1>3. ASSUME NEW a \in Addresses, SayRcpt(a) PROVE Says(RcptItem(a))
  <2>1. /\ Send(RcptItem(a)) /\ UNCHANGED <<mailOf, inClear>>
        /\ wanted' = wanted \cup {<<Current, a>>}
    BY <1>3 DEF SayRcpt
  <2>2. RcptItem(a) \in Item /\ RcptItem(a).verb = "RCPT" /\ RcptItem(a).addr = a
    BY BlankItems
  <2>3. wanted' \subseteq (0 .. MaxTxns) \X Addresses
    BY <1>2, <2>1
  <2>4. QED
    BY <1>1, <2>1, <2>2, <2>3
<1>4. ASSUME NEW verb \in Verbs \ {"connect", "MAIL", "RCPT", "line", "."}, SayWord(verb)
      PROVE  Says(Cmd(verb))
  <2>1. Send(Cmd(verb)) /\ UNCHANGED <<mailOf, wanted, inClear>>
    BY <1>4 DEF SayWord, record
  <2>2. Cmd(verb) \in Item /\ Cmd(verb).verb = verb
    BY BlankItems
  <2>3. QED
    BY <1>1, <1>2, <2>1, <2>2
<1>5. QED
  BY <1>3, <1>4

\* The last command the server has not come to is the last one the client waits for.
LEMMA LastWaits ==
    ASSUME TypeOK, Numbered, Envelope, Message, Sync, link = "open", mode = "talk", Reading,
           asked # <<>> => asked[Len(asked)].verb # "DATA"
    PROVE  /\ task = "data" => Silent /\ Skip <= Len(toServer) /\ Matched(Skip - 1)
           /\ toServer # <<>> /\ Len(toServer) > Skip => asked # <<>> /\ asked[Len(asked)] = toServer[Len(toServer)]
           /\ toServer # <<>> => toServer[Len(toServer)].verb # "DATA"
<1>1. /\ toServer \in Seq(Item) /\ asked \in Seq(Item) /\ toClient \in Seq(Codes)
      /\ Len(toServer) \in Nat /\ Len(asked) \in Nat /\ Len(toClient) \in Nat
      /\ DOMAIN toServer = 1 .. Len(toServer) /\ (toServer # <<>> => Len(toServer) > 0)
      /\ (asked = <<>> => Len(asked) = 0)
      /\ Skip \in Nat /\ (task = "data" => Skip > 0) /\ (task # "data" => Skip = 0)
  <2>1. toServer \in Seq(Item) /\ asked \in Seq(Item) /\ toClient \in Seq(Codes)
    BY TypeParts DEF WireTyped
  <2>2. Skip \in Nat /\ (task = "data" => Skip > 0) /\ (task # "data" => Skip = 0)
    BY SkipTyped DEF Skip
  <2>3. QED
    BY <2>1, <2>2, EmptyFacts
<1>2. ASSUME task = "data" PROVE Silent /\ Skip <= Len(toServer) /\ Matched(Skip - 1)
  <2>1. ~ (LastIs("DATA", 354) /\ Len(asked) = Len(toClient))
    BY <1>1 DEF LastIs
  <2>2. QED
    BY <1>2, <2>1 DEF Sync, InData
<1>3. ASSUME toServer # <<>>, Len(toServer) > Skip
      PROVE  asked # <<>> /\ asked[Len(asked)] = toServer[Len(toServer)]
  <2>1. CASE task = "banner"
    <3>1. CASE secure
      <4>1. Len(toClient) = 0 /\ Matched(0)
        BY <1>1, <2>1, <3>1 DEF Sync, InBanner, Silent
      <4>2. Len(asked) = Len(toServer) /\ asked[Len(toServer)] = toServer[Len(toServer)]
        BY <1>1, <1>3, <4>1 DEF Matched
      <4>3. QED
        BY <1>1, <1>3, <4>2
    <3>2. CASE ~ secure
      <4>1. /\ asked # <<>> /\ Len(asked) = Len(toServer) + 1
            /\ \A i \in DOMAIN toServer : asked[i + 1] = toServer[i]
        BY <1>1, <2>1, <3>2 DEF Sync, InBanner
      <4>2. QED
        BY <1>1, <1>3, <4>1
    <3>3. QED
      BY <3>1, <3>2
  <2>2. CASE task = "command"
    <3>1. Matched(0)
      BY <2>2 DEF Sync, InCommand
    <3>2. Len(asked) = Len(toClient) + Len(toServer)
          /\ asked[Len(toClient) + Len(toServer)] = toServer[Len(toServer)]
      BY <1>1, <1>3, <3>1 DEF Matched
    <3>3. QED
      BY <1>1, <1>3, <3>2
  <2>3. CASE task = "data"
    <3>1. Len(toClient) = 0 /\ Matched(Skip - 1)
      BY <1>2, <2>3 DEF Silent
    <3>2. /\ Len(asked) = Len(toServer) - (Skip - 1) /\ Len(asked) \in 1 .. Len(toServer) - (Skip - 1)
          /\ Skip - 1 + Len(asked) = Len(toServer)
      BY <1>1, <1>3, <3>1 DEF Matched
    <3>3. asked[Len(toClient) + Len(asked)] = toServer[Skip - 1 + Len(asked)]
      BY <3>1, <3>2 DEF Matched
    <3>4. QED
      BY <1>1, <3>1, <3>2, <3>3
  <2>4. CASE task = "deliver"
    <3>1. /\ asked # <<>> /\ Len(asked) = Len(toServer) + 1
          /\ \A i \in DOMAIN toServer : asked[i + 1] = toServer[i]
      BY <1>1, <2>4 DEF Sync, InDeliver, AtDot
    <3>2. QED
      BY <1>1, <1>3, <3>1
  <2>5. QED
    BY <2>1, <2>2, <2>3, <2>4 DEF Reading
<1>4. ASSUME toServer # <<>> PROVE toServer[Len(toServer)].verb # "DATA"
  <2>1. CASE Len(toServer) > Skip
    BY <1>3, <1>4, <2>1
  <2>2. CASE Len(toServer) = Skip
    <3>1. task = "data"
      BY <1>1, <1>4, <2>2
    <3>2. toServer[Len(toServer)] = DotItem
      BY <1>1, <1>4, <2>2, <3>1 DEF Message
    <3>3. QED
      BY <3>2, DotFacts
  <2>3. Skip <= Len(toServer)
    <3>1. CASE task = "data"
      BY <1>2, <3>1
    <3>2. CASE task # "data"
      BY <1>1, <3>2
    <3>3. QED
      BY <3>1, <3>2
  <2>4. Len(toServer) > Skip \/ Len(toServer) = Skip
    <3>1. \A i, j \in Nat : i <= j => j > i \/ j = i
      OBVIOUS
    <3>2. Skip \in Nat /\ Len(toServer) \in Nat
      BY <1>1
    <3>3. QED
      BY <2>3, <3>1, <3>2
  <2>5. QED
    BY <2>1, <2>2, <2>4
<1>5. QED
  BY <1>2, <1>3, <1>4

LEMMA SaysServerSide ==
    ASSUME TypeOK, ServerSide, Sync, NEW item, Says(item),
           asked # <<>> => asked[Len(asked)].verb # "DATA"
    PROVE  ServerSide'
<1>a. PICK n : n = Len(toServer) + 1
  OBVIOUS
<1>0. Numbered /\ Envelope /\ Message /\ Filed
  BY DEF ServerSide
<1>1. /\ mode = "talk" /\ link = "open" /\ toServer' = Append(toServer, item)
      /\ UNCHANGED <<link, toClient, task, secure, greeted, from, rcpts, errors, got, todo>>
      /\ UNCHANGED <<tls, route, store, activity, now, whole, excused, reroutes, failures>>
      /\ UNCHANGED <<sender, mode, heard, body, result, acked, conns>>
  BY SendFacts DEF Says
<1>2. /\ item \in Item /\ item.verb \notin {"line", ".", "connect"}
      /\ item.verb = "MAIL" => item.txn \in Txns'
      /\ item.verb = "RCPT" => item.addr \in Addresses
      /\ Numbered'
      /\ Txns \subseteq Txns' /\ (\A t \in Txns : mailOf'[t] = mailOf[t])
      /\ wanted \subseteq wanted'
      /\ secure => inClear' = inClear
      /\ item.verb = "MAIL" => item.txn = Current + 1 /\ Current' = Current + 1 /\ Fresh(item.txn)
      /\ item.verb # "MAIL" => UNCHANGED mailOf
      /\ item.verb = "RCPT" => <<Current, item.addr>> \in wanted'
  BY DEF Says
<1>3. /\ n = Len(toServer) + 1 /\ toServer \in Seq(Item) /\ Len(toServer) \in Nat /\ DOMAIN toServer = 1 .. Len(toServer)
      /\ Len(toServer') = n /\ DOMAIN toServer' = 1 .. n
      /\ \A i \in 1 .. Len(toServer) : toServer'[i] = toServer[i]
      /\ toServer'[n] = item /\ n \in DOMAIN toServer'
      /\ \A i \in 1 .. n : i \in 1 .. Len(toServer) \/ i = n
      /\ toServer = <<>> => Len(toServer) = 0
  <2>1. toServer \in Seq(Item)
    BY TypeParts DEF WireTyped
  <2>2. QED
    BY <1>a, <1>1, <1>2, <2>1, AppendFacts, EmptyFacts
<1>4. task \in {"data", "deliver"} => from \in Txns
  BY <1>0, TextTyped
<1>5. (task \in {"data", "deliver"} => Text' = Text) /\ Skip' = Skip /\ From' = From
  BY <1>1, <1>2, <1>4 DEF Text, Skip, From
<1>6. /\ Skip \in Nat /\ \A i \in 1 .. Len(toServer) : toServer[i] \in Item /\ toServer[i].txn \in Nat
      /\ \A i \in DOMAIN toServer : toServer[i].verb \notin {"line", "."} => i > Skip
      /\ From \in Nat /\ From <= Current /\ Current \in Nat
  <2>1. \A t \in Txns : t <= Current /\ t \in Nat
    BY <1>0 DEF Numbered, Txns
  <2>2. Current \in Nat /\ 0 <= Current /\ From \in {0} \cup Txns
    BY <1>0, SessionAssumption DEF Numbered, From
  <2>3. QED
    BY <1>0, <2>1, <2>2, SkipTyped
<1>7. ASSUME Reading PROVE Queue' /\ Wants' /\ Newest'
  <2>0. Queue /\ Wants /\ Newest
    BY <1>7 DEF ServerSide
  <2>1. /\ task = "data" => Skip <= Len(toServer)
        /\ toServer # <<>> => toServer[Len(toServer)].verb # "DATA"
    BY <1>0, <1>1, <1>7, LastWaits
  <2>2. Skip < n
    BY <1>3, <1>6, <2>1 DEF Skip
  <2>3. \A i \in 1 .. Len(toServer) : (IsMail(i)' <=> IsMail(i))
    BY <1>3 DEF IsMail
  <2>4. IsMail(n)' <=> item.verb = "MAIL"
    BY <1>3 DEF IsMail
  <2>5. \A i \in 1 .. Len(toServer) : IsMail(i) => toServer[i].txn \in Txns /\ toServer[i].txn <= Current
    <3>1. ASSUME NEW i \in 1 .. Len(toServer), IsMail(i) PROVE toServer[i].txn \in Txns
      BY <1>3, <1>6, <2>0, <3>1 DEF IsMail, Queue, IsWord
    <3>2. QED
      BY <1>0, <3>1 DEF Numbered, Txns
  <2>6. Queue'
    <3>1. ASSUME NEW i \in DOMAIN toServer', i > Skip' PROVE IsWord(toServer[i])'
      <4>1. CASE i = n
        BY <1>2, <1>3, <4>1 DEF IsWord
      <4>2. CASE i \in 1 .. Len(toServer)
        <5>1. IsWord(toServer[i]) /\ toServer'[i] = toServer[i]
          BY <1>3, <1>5, <2>0, <3>1, <4>2 DEF Queue
        <5>2. QED
          BY <1>2, <5>1 DEF IsWord
      <4>3. QED
        BY <1>3, <4>1, <4>2
    <3>2. \A i \in DOMAIN toServer' : toServer'[i].verb = "DATA" => i = Len(toServer')
      <4>1. ASSUME NEW i \in 1 .. Len(toServer), toServer[i].verb = "DATA" PROVE FALSE
        <5>1. toServer # <<>>
          BY <1>3, <4>1
        <5>2. i = Len(toServer)
          BY <1>3, <2>0, <4>1 DEF Queue
        <5>3. QED
          BY <2>1, <4>1, <5>1, <5>2
      <4>2. QED
        BY <1>2, <1>3, <4>1
    <3>3. ASSUME NEW i \in DOMAIN toServer', NEW j \in DOMAIN toServer', i < j, IsMail(i)', IsMail(j)'
          PROVE  toServer'[i].txn < toServer'[j].txn
      <4>1. i \in 1 .. Len(toServer) /\ IsMail(i) /\ toServer'[i] = toServer[i]
        BY <1>3, <2>3, <3>3
      <4>2. CASE j = n
        BY <1>2, <1>3, <1>6, <2>4, <2>5, <3>3, <4>1, <4>2
      <4>3. CASE j \in 1 .. Len(toServer)
        BY <1>3, <2>0, <2>3, <3>3, <4>1, <4>3 DEF Queue
      <4>4. QED
        BY <1>3, <4>2, <4>3
    <3>4. ASSUME NEW i \in DOMAIN toServer', IsMail(i)'
          PROVE  /\ From' < toServer'[i].txn /\ Fresh(toServer[i].txn)'
                 /\ secure' => toServer'[i].txn \notin inClear'
      <4>1. CASE i = n
        <5>1. item.txn = Current + 1 /\ Fresh(item.txn) /\ toServer'[i] = item
          BY <1>2, <1>3, <2>4, <3>4, <4>1
        <5>2. Fresh(toServer[i].txn)'
          BY <1>1, <5>1 DEF Fresh
        <5>3. secure => inClear' \subseteq Txns
          BY <1>0, <1>2 DEF Numbered
        <5>4. item.txn \notin Txns
          BY <1>0, <1>6, <5>1 DEF Numbered, Txns
        <5>5. QED
          BY <1>1, <1>5, <1>6, <5>1, <5>2, <5>3, <5>4
      <4>2. CASE i \in 1 .. Len(toServer)
        <5>1. /\ From < toServer[i].txn /\ Fresh(toServer[i].txn)
              /\ secure => toServer[i].txn \notin inClear
          BY <1>3, <2>0, <2>3, <3>4, <4>2 DEF Queue
        <5>2. toServer'[i] = toServer[i]
          BY <1>3, <4>2
        <5>3. Fresh(toServer[i].txn)'
          BY <1>1, <5>1, <5>2 DEF Fresh
        <5>4. QED
          BY <1>1, <1>2, <1>5, <5>1, <5>2, <5>3
      <4>3. QED
        BY <1>3, <4>1, <4>2
    <3>5. QED
      BY <3>1, <3>2, <3>3, <3>4 DEF Queue
  <2>7. Wants'
    <3>1. ASSUME NEW i \in 1 .. Len(toServer), toServer'[i].verb = "RCPT"
          PROVE  /\ \A j \in 1 .. i - 1 : IsMail(j)' /\ (\A l \in j + 1 .. i - 1 : ~ IsMail(l)')
                        => <<toServer'[j].txn, toServer'[i].addr>> \in wanted'
                 /\ From' # 0 /\ (\A j \in 1 .. i - 1 : ~ IsMail(j)')
                        => <<From', toServer'[i].addr>> \in wanted'
      <4>1. \A j \in 1 .. i : j \in 1 .. Len(toServer)
        OBVIOUS
      <4>2. \A j \in 1 .. i - 1 : toServer'[j] = toServer[j] /\ (IsMail(j)' <=> IsMail(j))
        BY <1>3, <2>3
      <4>3. toServer'[i] = toServer[i]
        BY <1>3
      <4>4. \A j \in 1 .. i - 1 : \A l \in j + 1 .. i - 1 : l \in 1 .. i - 1
        OBVIOUS
      <4>5. QED
        BY <1>2, <1>3, <1>5, <2>0, <3>1, <4>2, <4>3, <4>4 DEF Wants
    <3>2. ASSUME item.verb = "RCPT", NEW j \in 1 .. n - 1, IsMail(j)', \A l \in j + 1 .. n - 1 : ~ IsMail(l)'
          PROVE  toServer'[j].txn = Current
      <4>1. n - 1 = Len(toServer) /\ j \in 1 .. Len(toServer) /\ IsMail(j)
        BY <1>3, <2>3, <3>2
      <4>2. \A l \in 1 .. Len(toServer) : l > j => ~ IsMail(l)
        BY <1>3, <2>3, <3>2
      <4>3. PICK i \in 1 .. Len(toServer) : IsMail(i) /\ toServer[i].txn = Current
        BY <1>1, <1>3, <2>0, <4>1 DEF Newest
      <4>4. i < j => toServer[i].txn < toServer[j].txn
        BY <1>3, <2>0, <4>1, <4>3 DEF Queue
      <4>5. toServer[j].txn <= Current /\ toServer[j].txn \in Nat
        BY <1>6, <2>5, <4>1
      <4>6. ~ i < j
        BY <1>6, <4>3, <4>4, <4>5
      <4>7. i = j
        BY <4>2, <4>3, <4>6, <1>3
      <4>8. QED
        BY <1>3, <4>1, <4>3, <4>7
    <3>3. ASSUME item.verb = "RCPT", From' # 0, \A j \in 1 .. n - 1 : ~ IsMail(j)'
          PROVE  From' = Current
      BY <1>1, <1>3, <1>5, <2>0, <2>3, <3>3 DEF Newest
    <3>4. QED
      BY <1>2, <1>3, <3>1, <3>2, <3>3 DEF Wants
  <2>8. Newest'
    <3>1. CASE item.verb = "MAIL"
      BY <1>2, <1>3, <2>4, <3>1 DEF Newest
    <3>2. CASE item.verb # "MAIL"
      <4>1. Current' = Current
        BY <1>2, <3>2 DEF Current, Txns
      <4>2. QED
        BY <1>1, <1>3, <1>5, <2>0, <2>3, <2>4, <3>2, <4>1 DEF Newest
    <3>3. QED
      BY <3>1, <3>2
  <2>9. QED
    BY <2>6, <2>7, <2>8
<1>8. Envelope'
  <2>1. Fresh(from) => Fresh(from)'
    BY <1>1 DEF Fresh
  <2>2. ASSUME NEW t, NEW r, Fit(t, r) PROVE <<t, r>> \in wanted' /\ (route'[r] # None \/ <<t, r>> \in excused')
    BY <1>1, <1>2, <2>2 DEF Fit
  <2>3. task \in {"command", "data"} => \A i \in DOMAIN rcpts' : Fit(from, rcpts[i])'
    BY <1>0, <1>1, <2>2 DEF Envelope, Fit
  <2>4. task = "deliver" => \A i \in DOMAIN todo' : Fit(from, todo[i])'
    BY <1>0, <1>1, <2>2 DEF Envelope, Fit
  <2>5. QED
    BY <1>0, <1>1, <1>2, <2>1, <2>3, <2>4 DEF Envelope
<1>9. Message'
  <2>1. ASSUME task = "data"
        PROVE  \A i \in DOMAIN toServer' :
                   /\ i < Skip => toServer'[i] = LineItem(Stuff(Text[Len(got) + i]))
                   /\ i = Skip => toServer'[i] = DotItem
    <3>1. Skip <= Len(toServer)
      BY <1>0, <1>1, <2>1, LastWaits DEF Reading
    <3>2. \A i \in DOMAIN toServer' : i <= Skip => i \in 1 .. Len(toServer)
      BY <1>3, <1>6, <3>1
    <3>3. QED
      BY <1>0, <1>3, <1>6, <2>1, <3>1, <3>2 DEF Message
  <2>2. QED
    BY <1>0, <1>1, <1>5, <2>1 DEF Message
<1>10. Filed'
  BY <1>0, <1>1, <1>2 DEF Filed
<1>11. QED
  BY <1>1, <1>2, <1>7, <1>8, <1>9, <1>10 DEF ServerSide, Reading

LEMMA SaysTyped ==
    ASSUME TypeOK, Bounded, NEW item, Says(item), left' \subseteq Addresses, step' = step, spoken' \in Nat
    PROVE  TypeOK' /\ Bounded'
<1>1. /\ toServer' = Append(toServer, item) /\ asked' = Append(asked, item)
      /\ UNCHANGED <<link, toClient, task, secure, greeted, from, rcpts, errors, got, todo>>
      /\ UNCHANGED <<tls, route, store, activity, now, whole, excused, reroutes, failures>>
      /\ UNCHANGED <<sender, mode, heard, body, result, acked, conns>>
      /\ item \in Item /\ RecordTyped'
  BY SendFacts DEF Says
<1>2. toServer' \in Seq(Item) /\ asked' \in Seq(Item)
  BY <1>1, TypeParts, AppendFacts DEF WireTyped
<1>3. WireTyped'
  BY <1>1, <1>2, TypeParts DEF WireTyped
<1>4. SessionTyped' /\ RelayTyped'
  BY <1>1, TypeParts DEF SessionTyped, RelayTyped
<1>5. ClientTyped'
  BY <1>1, TypeParts DEF ClientTyped
<1>6. QED
  BY <1>1, <1>3, <1>4, <1>5, TypePartsPrime DEF Bounded

\* The command is the last of those on their way and of those without an answer.
LEMMA SaysSync ==
    ASSUME TypeOK, ServerSide, Sync, NEW item, Says(item),
           asked # <<>> => asked[Len(asked)].verb # "DATA"
    PROVE  Sync'
<1>a. PICK m : m = Len(asked)
  OBVIOUS
<1>b. PICK n : n = Len(toServer)
  OBVIOUS
<1>0. Numbered /\ Envelope /\ Message
  BY DEF ServerSide
<1>1. /\ mode = "talk" /\ link = "open"
      /\ toServer' = Append(toServer, item) /\ asked' = Append(asked, item)
      /\ UNCHANGED <<link, toClient, task, secure, from, got, mode, heard, body>>
  BY SendFacts DEF Says
<1>2. /\ item \in Item /\ item.verb \notin {"line", ".", "connect"}
      /\ item.verb = "MAIL" => item.txn \in Txns'
      /\ item.verb = "RCPT" => item.addr \in Addresses
      /\ Txns \subseteq Txns' /\ (\A t \in Txns : mailOf'[t] = mailOf[t])
  BY DEF Says
<1>3. /\ m \in Nat /\ n \in Nat /\ m = Len(asked) /\ n = Len(toServer)
      /\ DOMAIN toServer = 1 .. n /\ DOMAIN toServer' = 1 .. n + 1 /\ Len(toServer') = n + 1
      /\ DOMAIN asked = 1 .. m /\ DOMAIN asked' = 1 .. m + 1 /\ Len(asked') = m + 1
      /\ \A i \in 1 .. n : toServer'[i] = toServer[i]
      /\ toServer'[n + 1] = item
      /\ \A i \in 1 .. m : asked'[i] = asked[i] /\ asked[i] \in Item
      /\ asked'[m + 1] = item
      /\ Len(toClient) \in Nat /\ DOMAIN toClient = 1 .. Len(toClient)
      /\ (asked = <<>> => m = 0) /\ (asked # <<>> => m > 0)
  <2>1. toServer \in Seq(Item) /\ asked \in Seq(Item) /\ toClient \in Seq(Codes)
    BY TypeParts DEF WireTyped
  <2>2. /\ n \in Nat /\ DOMAIN toServer = 1 .. n /\ DOMAIN toServer' = 1 .. n + 1 /\ Len(toServer') = n + 1
        /\ \A i \in 1 .. n : toServer'[i] = toServer[i]
        /\ toServer'[n + 1] = item
    BY <1>b, <1>1, <1>2, <2>1, AppendFacts
  <2>3. /\ m \in Nat /\ DOMAIN asked = 1 .. m /\ DOMAIN asked' = 1 .. m + 1 /\ Len(asked') = m + 1
        /\ \A i \in 1 .. m : asked'[i] = asked[i]
        /\ asked'[m + 1] = item
    BY <1>a, <1>1, <1>2, <2>1, AppendFacts
  <2>4. /\ \A i \in 1 .. m : asked[i] \in Item
        /\ (asked = <<>> => m = 0) /\ (asked # <<>> => m > 0)
        /\ Len(toClient) \in Nat /\ DOMAIN toClient = 1 .. Len(toClient)
    BY <1>a, <2>1, EmptyFacts
  <2>5. QED
    BY <1>a, <1>b, <2>2, <2>3, <2>4
<1>4. AskedWords'
  <2>1. ASSUME NEW i \in DOMAIN asked', i > 1 \/ asked'[i].verb \notin {"connect", "."}
        PROVE  IsWord(asked[i])'
    <3>1. CASE i = m + 1
      BY <1>2, <1>3, <3>1 DEF IsWord
    <3>2. CASE i \in 1 .. m
      <4>1. asked'[i] = asked[i]
        BY <1>3, <3>2
      <4>2. IsWord(asked[i])
        BY <1>3, <2>1, <3>2, <4>1 DEF Sync, AskedWords
      <4>3. QED
        BY <1>2, <4>1, <4>2 DEF IsWord
    <3>3. QED
      BY <1>3, <3>1, <3>2
  <2>2. ASSUME NEW i \in DOMAIN asked', i < Len(asked') PROVE asked'[i].verb # "DATA"
    <3>1. i \in 1 .. m /\ asked'[i] = asked[i]
      BY <1>3, <2>2
    <3>2. CASE i = m
      <4>1. asked # <<>>
        BY <1>3, <3>1
      <4>2. QED
        BY <1>3, <3>1, <3>2, <4>1
    <3>3. CASE i < m
      BY <1>3, <3>1, <3>3 DEF Sync, AskedWords
    <3>4. QED
      BY <1>3, <3>1, <3>2, <3>3
  <2>3. QED
    BY <2>1, <2>2 DEF AskedWords
<1>5. ASSUME NEW i \in 1 .. m, Plain(i) PROVE Plain(i)'
  BY <1>1, <1>3, <1>5 DEF Plain
<1>6. ASSUME NEW k \in 0 .. n, NEW l, l = k, Matched(l), Len(toClient) \in Nat PROVE Matched(k)'
  <2>1. m = Len(toClient) + n - k /\ \A i \in 1 .. n - k : asked[Len(toClient) + i] = toServer[k + i]
    BY <1>3, <1>6 DEF Matched
  <2>2. Len(asked') = Len(toClient') + Len(toServer') - k
    BY <1>1, <1>3, <2>1
  <2>3. ASSUME NEW i \in 1 .. n + 1 - k
        PROVE  asked'[Len(toClient) + i] = toServer'[k + i]
    <3>1. CASE i = n + 1 - k
      <4>1. Len(toClient) + i = m + 1 /\ k + i = n + 1
        BY <1>3, <2>1, <3>1
      <4>2. QED
        BY <1>3, <4>1
    <3>2. CASE i # n + 1 - k
      <4>1. i \in 1 .. n - k /\ Len(toClient) + i \in 1 .. m /\ k + i \in 1 .. n
        <5>1. \A c, b, d, e \in Nat : \A j \in 1 .. b + 1 - d : e = c + b - d /\ d <= b /\ j # b + 1 - d
                  => j \in 1 .. b - d /\ c + j \in 1 .. e /\ d + j \in 1 .. b
          OBVIOUS
        <5>2. k \in Nat /\ k <= n /\ n \in Nat /\ m \in Nat /\ Len(toClient) \in Nat
          BY <1>3
        <5>3. QED
          BY <2>1, <2>3, <3>2, <5>1, <5>2
      <4>2. QED
        BY <1>3, <2>1, <4>1
    <3>3. QED
      BY <3>1, <3>2
  <2>4. toClient' = toClient /\ Len(toServer') = n + 1
    BY <1>1, <1>3
  <2>5. ASSUME NEW i \in 1 .. Len(toServer') - k PROVE asked'[Len(toClient') + i] = toServer'[k + i]
    <3>0. Len(toServer') - k = n + 1 - k
      BY <1>3, <2>4
    <3>1. i \in 1 .. n + 1 - k
      BY <2>5, <3>0
    <3>2. asked'[Len(toClient) + i] = toServer'[k + i]
      BY <2>3, <3>1
    <3>3. QED
      BY <2>4, <3>2
  <2>6. QED
    BY <2>2, <2>5 DEF Matched
<1>7. ASSUME NEW verb, NEW code, LastIs(verb, code) PROVE LastIs(verb, code)'
  <2>1. 0 < Len(toClient) /\ Len(toClient) <= m /\ asked[Len(toClient)].verb = verb
        /\ toClient[Len(toClient)] = code /\ \A i \in 1 .. Len(toClient) - 1 : Plain(i)
    BY <1>3, <1>7 DEF LastIs
  <2>2. \A i \in 1 .. Len(toClient) - 1 : i \in 1 .. m
    BY <1>3, <2>1
  <2>3. \A i \in 1 .. Len(toClient) - 1 : Plain(i)'
    BY <1>5, <2>1, <2>2
  <2>4. asked'[Len(toClient)] = asked[Len(toClient)]
    BY <1>3, <2>1
  <2>5. toClient' = toClient /\ Len(toClient) <= Len(asked')
    BY <1>1, <1>3, <2>1
  <2>6. QED
    BY <2>1, <2>3, <2>4, <2>5 DEF LastIs
<1>8. task = "banner" => InBanner'
  <2>1. SUFFICES ASSUME task = "banner" PROVE InBanner'
    OBVIOUS
  <2>2. InBanner
    BY <1>1, <2>1 DEF Sync
  <2>3. CASE secure
    <3>1. Matched(0)'
      BY <1>3, <1>6, <2>2, <2>3 DEF InBanner
    <3>2. QED
      BY <1>1, <2>2, <2>3, <3>1 DEF InBanner, Silent
  <2>4. CASE ~ secure
    <3>1. /\ asked # <<>> /\ asked[1] = Cmd("connect") /\ m = n + 1
          /\ \A i \in 1 .. n : asked[i + 1] = toServer[i]
      BY <1>3, <2>2, <2>4 DEF InBanner
    <3>2. asked' # <<>> /\ asked'[1] = asked[1]
      BY <1>1, <1>3, <3>1
    <3>3. ASSUME NEW i \in 1 .. n + 1 PROVE asked'[i + 1] = toServer'[i]
      <4>1. CASE i = n + 1
        BY <1>3, <3>1, <4>1
      <4>2. CASE i # n + 1
        <5>1. i \in 1 .. n /\ i + 1 \in 1 .. m
          BY <1>3, <3>1, <3>3, <4>2
        <5>2. QED
          BY <1>3, <3>1, <5>1
      <4>3. QED
        BY <4>1, <4>2
    <3>4. QED
      BY <1>1, <1>3, <2>2, <2>4, <3>1, <3>2, <3>3 DEF InBanner, Silent
  <2>5. QED
    BY <2>3, <2>4
<1>9. task = "command" => InCommand'
  <2>1. SUFFICES ASSUME task = "command" PROVE InCommand'
    OBVIOUS
  <2>2. mode = "talk" /\ AllPlain /\ Matched(0)
    BY <1>1, <2>1 DEF Sync, InCommand
  <2>3. Matched(0)'
    BY <1>3, <1>6, <2>2
  <2>4. \A i \in DOMAIN toClient : i \in 1 .. m /\ Plain(i)
    BY <1>3, <2>2 DEF AllPlain, Plain
  <2>5. AllPlain'
    BY <1>1, <1>5, <2>4 DEF AllPlain
  <2>6. QED
    BY <1>1, <2>3, <2>5 DEF InCommand
<1>10. task = "data" => InData'
  <2>1. SUFFICES ASSUME task = "data" PROVE InData'
    OBVIOUS
  <2>2. Silent /\ Skip <= Len(toServer) /\ Matched(Skip - 1)
    BY <1>0, <1>1, <2>1, LastWaits DEF Reading
  <2>3. Skip \in Nat /\ Skip > 0 /\ from \in Txns
    BY <1>0, <2>1, SkipTyped, TextTyped
  <2>4. Skip' = Skip
    BY <1>1, <1>2, <2>3 DEF Skip, Text
  <2>5. PICK k : k = Skip - 1
    OBVIOUS
  <2>6. k \in 0 .. n /\ Matched(k)
    <3>1. k \in 0 .. n
      BY <1>3, <2>2, <2>3, <2>5
    <3>2. QED
      BY <2>2, <2>5, <3>1
  <2>7. Matched(k)'
    BY <1>3, <1>6, <2>6
  <2>8. ASSUME NEW l, l = k PROVE Matched(l)' <=> Matched(k)'
    BY <2>8
  <2>9. Matched(Skip - 1)'
    BY <2>4, <2>5, <2>7 DEF Matched
  <2>10. Skip' <= Len(toServer')
    BY <1>3, <2>2, <2>3, <2>4
  <2>11. QED
    BY <1>1, <2>2, <2>9, <2>10 DEF InData, Silent
<1>11. task = "deliver" => InDeliver'
  <2>1. SUFFICES ASSUME task = "deliver" PROVE InDeliver'
    OBVIOUS
  <2>2. /\ Silent /\ asked # <<>> /\ asked[1] = DotItem /\ m = n + 1
        /\ \A i \in 1 .. n : asked[i + 1] = toServer[i]
    BY <1>1, <1>3, <2>1 DEF Sync, InDeliver, AtDot
  <2>3. asked' # <<>> /\ asked'[1] = asked[1]
    BY <1>1, <1>3, <2>2
  <2>4. ASSUME NEW i \in 1 .. n + 1 PROVE asked'[i + 1] = toServer'[i]
    <3>1. CASE i = n + 1
      BY <1>3, <2>2, <3>1
    <3>2. CASE i # n + 1
      <4>1. i \in 1 .. n /\ i + 1 \in 1 .. m
        BY <1>3, <2>2, <2>4, <3>2
      <4>2. QED
        BY <1>3, <2>2, <4>1
    <3>3. QED
      BY <3>1, <3>2
  <2>5. QED
    BY <1>1, <1>3, <2>2, <2>3, <2>4 DEF InDeliver, AtDot, Silent
<1>12. task = "handshake" => InHandshake'
  BY <1>1, <1>7 DEF Sync, InHandshake
<1>13. task = "ended" => InEnd'
  <2>1. SUFFICES ASSUME task = "ended" PROVE InEnd'
    OBVIOUS
  <2>2. ASSUME NEW i \in DOMAIN toClient
        PROVE  \/ Plain(i)'
               \/ i = Len(toClient) /\ toClient[i] = 500
               \/ i = Len(toClient) /\ i <= Len(asked') /\ asked'[i].verb = "STARTTLS" /\ toClient[i] = 220
    <3>1. \/ Plain(i)
          \/ i = Len(toClient) /\ toClient[i] = 500
          \/ i = Len(toClient) /\ i <= m /\ asked[i].verb = "STARTTLS" /\ toClient[i] = 220
      BY <1>1, <1>3, <2>1 DEF Sync, InEnd
    <3>2. Plain(i) => i \in 1 .. m
      BY <1>3 DEF Plain
    <3>3. i <= m => asked'[i] = asked[i] /\ i <= m + 1
      BY <1>3
    <3>4. QED
      BY <1>3, <1>5, <3>1, <3>2, <3>3
  <2>3. QED
    BY <1>1, <2>2 DEF InEnd
<1>14. QED
  BY <1>1, <1>4, <1>8, <1>9, <1>10, <1>11, <1>12, <1>13 DEF Sync

LEMMA SaysTraceAcks ==
    ASSUME TypeOK, ServerSide, Sync, Trace, Acks, NEW item, Says(item),
           asked # <<>> => asked[Len(asked)].verb # "DATA"
    PROVE  Trace' /\ Acks'
<1>0. Numbered /\ Envelope /\ Message
  BY DEF ServerSide
<1>1. /\ mode = "talk" /\ link = "open" /\ asked' = Append(asked, item)
      /\ UNCHANGED <<link, toClient, task, from, rcpts, todo, whole, excused, activity, store, heard, acked>>
      /\ item \in Item /\ item.verb # "."
  BY SendFacts DEF Says
<1>2. Txns \subseteq Txns' /\ (\A t \in Txns : mailOf'[t] = mailOf[t])
  BY DEF Says
<1>3. /\ asked \in Seq(Item) /\ Len(asked) \in Nat
      /\ \A i \in 1 .. Len(asked) : asked'[i] = asked[i]
      /\ asked = <<>> => asked'[1] = item
      /\ asked # <<>> => asked'[1] = asked[1]
      /\ Len(toClient) \in Nat /\ DOMAIN toClient = 1 .. Len(toClient)
      /\ toClient = <<>> => DOMAIN toClient = {}
  <2>1. asked \in Seq(Item) /\ toClient \in Seq(Codes)
    BY TypeParts DEF WireTyped
  <2>2. /\ \A i \in 1 .. Len(asked) : asked'[i] = asked[i]
        /\ asked'[Len(asked) + 1] = item
    BY <1>1, <2>1, AppendFacts
  <2>3. asked = <<>> => Len(asked) + 1 = 1
    BY <2>1
  <2>4. asked # <<>> => 1 \in 1 .. Len(asked)
    BY <2>1
  <2>5. QED
    BY <2>1, <2>2, <2>3, <2>4, EmptyFacts
<1>4. Trace'
  <2>1. SUFFICES ASSUME task \in {"command", "data"}
                 PROVE  \E H \in [0 .. Len(toClient) -> Heard] :
                            /\ H[0] = heard
                            /\ \A i \in DOMAIN toClient :
                                   /\ H[i] = After(H[i - 1], asked'[i], toClient[i])
                                   /\ asked'[i].verb = "RCPT" /\ toClient[i] = 502 => H[i - 1].txn = 0
                            /\ Agrees(H[Len(toClient)])
    BY <1>1 DEF Trace, Agrees
  <2>2. \A i \in DOMAIN toClient : i \in 1 .. Len(asked)
    <3>1. CASE task = "command"
      BY <1>1, <1>3, <3>1 DEF Sync, InCommand, AllPlain, Plain
    <3>2. CASE task = "data"
      <4>1. Silent
        BY <1>0, <1>1, <3>2, LastWaits DEF Reading
      <4>2. QED
        BY <1>3, <4>1 DEF Silent
    <3>3. QED
      BY <2>1, <3>1, <3>2
  <2>3. QED
    BY <1>1, <1>3, <2>1, <2>2 DEF Trace
<1>5. Acks'
  <2>1. ASSUME NEW t \in Txns, NEW a \in Addresses, Kept(t, a) PROVE Kept(t, a)'
    BY <1>1, <1>2, <2>1, KeptStaysStill
  <2>2. \A ack \in acked' : ack[1] \in Txns' /\ Kept(ack[1], ack[2])'
    <3>1. ASSUME NEW ack \in acked, NEW t, NEW a, t = ack[1], a = ack[2] PROVE t \in Txns' /\ Kept(t, a)'
      <4>1. t \in Txns /\ Kept(t, a)
        BY <3>1 DEF Acks
      <4>2. a \in Addresses
        BY <3>1, TypeParts DEF RecordTyped
      <4>3. QED
        BY <1>2, <2>1, <4>1, <4>2
    <3>2. QED
      BY <1>1, <3>1
  <2>3. heard.rcpts \subseteq Addresses /\ (heard.txn # 0 => heard.txn \in Txns)
    BY <1>0, TypeParts DEF WireTyped, Heard, Numbered
  <2>4. ASSUME asked' # <<>>, asked'[1].verb = ".", toClient' # <<>>, NEW a \in heard.rcpts, NEW t, t = heard.txn
        PROVE  t # 0 /\ Kept(t, a)'
    <3>1. asked # <<>> /\ asked[1].verb = "."
      BY <1>1, <1>3, <2>4
    <3>2. t # 0 /\ Kept(t, a)
      BY <1>1, <2>4, <3>1 DEF Acks
    <3>3. QED
      BY <2>1, <2>3, <2>4, <3>2
  <2>5. ASSUME task = "deliver"
        PROVE  /\ from \in whole /\ heard.txn = from
               /\ \A a \in heard.rcpts : (\E i \in DOMAIN todo : todo[i] = a) \/ Kept(from, a)
    BY <1>1, <2>5 DEF Acks
  <2>6. ASSUME task = "deliver", NEW a \in heard.rcpts, NEW t, t = from, Kept(t, a) PROVE Kept(t, a)'
    <3>1. t \in Txns
      BY <1>0, <2>6, TextTyped
    <3>2. QED
      BY <2>1, <2>3, <2>6, <3>1
  <2>7. task = "deliver" => \A a \in heard'.rcpts : (\E i \in DOMAIN todo' : todo'[i] = a) \/ Kept(from, a)'
    <3>1. ASSUME task = "deliver", NEW a \in heard.rcpts, NEW t, t = from
          PROVE  (\E i \in DOMAIN todo : todo[i] = a) \/ Kept(t, a)'
      BY <2>5, <2>6, <3>1
    <3>2. QED
      BY <1>1, <3>1
  <2>8. QED
    BY <1>1, <2>2, <2>4, <2>5, <2>7 DEF Acks
<1>6. QED
  BY <1>4, <1>5

LEMMA OtherSaysIInv ==
    ASSUME IInv, OtherSays
    PROVE  IInv'
<1> USE DEF IInv
<1>1. /\ sender = None /\ UNCHANGED <<step, left>>
      /\ asked # <<>> => asked[Len(asked)].verb # "DATA"
      /\ spoken' \in {spoken + 1, spoken + 2}
  BY DEF OtherSays, Last
<1>2. Numbered /\ Filed
  BY DEF ServerSide
<1>3. \E item : Says(item)
  <2>1. ASSUME NEW mail \in Mails, SayMail(mail) PROVE \E item : Says(item)
    BY <1>2, <2>1, NextTransaction
  <2>2. ASSUME NEW a \in Addresses, SayRcpt(a) PROVE \E item : Says(item)
    BY <1>2, <2>2, OtherWords
  <2>3. ASSUME NEW verb \in Vocabulary, SayWord(verb) PROVE \E item : Says(item)
    <3>1. verb \in Verbs \ {"connect", "MAIL", "RCPT", "line", "."}
      BY SessionAssumption
    <3>2. QED
      BY <1>2, <2>3, <3>1, OtherWords
  <2>4. QED
    BY <2>1, <2>2, <2>3 DEF OtherSays
<1>4. PICK item : Says(item)
  BY <1>3
<1>5. TypeOK' /\ Bounded'
  <2>1. left' \subseteq Addresses /\ spoken' \in Nat
    <3>1. left \subseteq Addresses /\ spoken \in Nat
      BY TypeParts DEF ClientTyped
    <3>2. QED
      BY <1>1, <3>1
  <2>2. QED
    BY <1>1, <1>4, <2>1, SaysTyped
<1>6. ServerSide' /\ Sync' /\ Trace' /\ Acks'
  BY <1>1, <1>4, SaysServerSide, SaysSync, SaysTraceAcks
<1>7. Relay'
  <2>1. UNCHANGED <<sender, result, acked>> /\ Txns \subseteq Txns'
    BY <1>4, SendFacts DEF Says
  <2>2. SentToAll'
    BY <2>1 DEF Relay, SentToAll
  <2>3. QED
    BY <1>1, <2>1, <2>2 DEF Relay
<1>8. QED
  BY <1>5, <1>6, <1>7

LEMMA RelaySaysIInv ==
    ASSUME IInv, RelaySays
    PROVE  IInv'
<1> USE DEF IInv
<1>1. /\ sender # None /\ asked = <<>> /\ UNCHANGED <<step, spoken>>
      /\ result = "sent" => step = "QUIT"
  BY DEF RelaySays
<1>2. Numbered /\ Filed /\ sender \in Mails /\ left \subseteq Addresses /\ spoken \in Nat
      /\ step \in {"EHLO", "HELO", "STARTTLS", "MAIL", "RCPT", "DATA", ".", "QUIT"}
  BY <1>1, TypeParts DEF ServerSide, ClientTyped
<1>3. PICK item : /\ Says(item) /\ item.verb = step
                  /\ IF step = "RCPT" THEN left = left' \cup {item.addr} ELSE left' = left
  <2>1. CASE step = "MAIL"
    <3>1. SayMail(sender) /\ left' = left
      BY <2>1 DEF RelaySays
    <3>2. Says(MailItem(Current + 1))
      BY <1>2, <3>1, NextTransaction
    <3>3. MailItem(Current + 1).verb = "MAIL"
      BY DEF MailItem, Cmd
    <3>4. QED
      BY <2>1, <3>1, <3>2, <3>3
  <2>2. CASE step = "RCPT"
    <3>1. PICK a \in left : SayRcpt(a) /\ left' = left \ {a}
      BY <2>2 DEF RelaySays
    <3>2. Says(RcptItem(a)) /\ RcptItem(a).verb = "RCPT" /\ RcptItem(a).addr = a
      BY <1>2, <3>1, OtherWords, BlankItems
    <3>3. left = left' \cup {RcptItem(a).addr}
      BY <3>1, <3>2
    <3>4. QED
      BY <2>2, <3>2, <3>3
  <2>3. CASE step \notin {"MAIL", "RCPT"}
    <3>1. step # "." /\ SayWord(step) /\ left' = left
      BY <2>3 DEF RelaySays
    <3>2. step \in Verbs \ {"connect", "MAIL", "RCPT", "line", "."}
      BY <1>2, <2>3, <3>1 DEF Verbs
    <3>3. Says(Cmd(step)) /\ Cmd(step).verb = step
      BY <1>2, <3>1, <3>2, OtherWords, BlankItems
    <3>4. QED
      BY <2>3, <3>1, <3>3
  <2>4. QED
    BY <2>1, <2>2, <2>3
<1>4. TypeOK' /\ Bounded'
  <2>1. left' \subseteq Addresses /\ spoken' \in Nat
    BY <1>1, <1>2, <1>3
  <2>2. QED
    BY <1>1, <1>3, <2>1, SaysTyped
<1>5. ServerSide' /\ Sync' /\ Trace' /\ Acks'
  BY <1>1, <1>3, SaysServerSide, SaysSync, SaysTraceAcks
<1>6. Relay'
  <2>1. /\ UNCHANGED <<sender, result, acked, link, task, secure, mode, heard>> /\ Txns \subseteq Txns'
        /\ asked' = Append(asked, item) /\ mode = "talk" /\ link = "open"
    BY <1>3, SendFacts DEF Says
  <2>2. SentToAll'
    BY <2>1 DEF Relay, SentToAll
  <2>3. asked' = <<item>> /\ Len(asked') = 1 /\ DOMAIN asked' = {1} /\ asked'[1] = item
    <3>1. asked' = <<item>>
      BY <1>1, <2>1
    <3>2. QED
      BY <3>1
  <2>4. task # "handshake"
    <3>1. Len(asked) = 0 /\ toClient \in Seq(Codes) /\ Len(toClient) \in Nat
      BY <1>1, TypeParts DEF WireTyped
    <3>2. ~ LastIs("STARTTLS", 220)
      BY <3>1 DEF LastIs
    <3>3. QED
      BY <2>1, <3>2 DEF Sync, InHandshake
  <2>5. {q.addr : q \in {asked'[i] : i \in DOMAIN asked'}} = {item.addr}
    BY <2>3
  <2>6. {q.addr : q \in {asked[i] : i \in DOMAIN asked}} = {}
    BY <1>1
  <2>7. ASSUME result # "sent"
        PROVE  /\ result = "none" /\ task # "ended"
               /\ step = "STARTTLS" => ~ secure
               /\ step \in {"EHLO", "HELO", "STARTTLS", "MAIL"} => left = Addresses
               /\ step \notin {"QUIT"}
               /\ step \in {"RCPT", "DATA", "."} => heard.txn # 0
               /\ step = "RCPT" => left \cup heard.rcpts = Addresses
               /\ step \in {"DATA", "."} => heard.rcpts = Addresses
    BY <1>1, <2>1, <2>6, <2>7 DEF Relay
  <2>8. ASSUME result # "sent", step = "RCPT"
        PROVE  left' \cup heard'.rcpts \cup {q.addr : q \in {asked'[i] : i \in DOMAIN asked'}} = Addresses
    BY <1>3, <2>1, <2>5, <2>7, <2>8
  <2>9. step # "RCPT" => left' = left
    BY <1>3
  <2>10. asked'[1].verb = step'
    BY <1>1, <1>3, <2>3
  <2>11. QED
    BY <1>1, <2>1, <2>2, <2>3, <2>4, <2>7, <2>8, <2>9, <2>10 DEF Relay
<1>7. QED
  BY <1>4, <1>5, <1>6

LEMMA SayBodyIInv ==
    ASSUME IInv, SayBody
    PROVE  IInv'
<1> USE DEF IInv
<1>a. PICK n : n = Len(Text)
  OBVIOUS
<1>1. /\ mode = "body" /\ link = "open" /\ mode' = "talk" /\ body' = <<>>
      /\ toServer' = toServer \o [i \in DOMAIN body |-> LineItem(Stuff(body[i]))] \o <<DotItem>>
      /\ asked' = Append(asked, DotItem)
      /\ UNCHANGED <<link, toClient, task, secure, greeted, from, rcpts, errors, got, todo>>
      /\ UNCHANGED <<tls, route, store, activity, now, whole, excused, reroutes, failures>>
      /\ UNCHANGED <<sender, heard, step, left, result, mailOf, wanted, inClear, acked, spoken, conns>>
  BY DEF SayBody, serverOwn, session, relay, history, bounds, script, record
<1>2. /\ task = "data" /\ toServer = <<>> /\ got = <<>> /\ toClient = <<>> /\ asked = <<>>
      /\ heard.txn = from /\ body = Text
  <2>1. task = "data"
    <3>1. task \in {"banner", "command", "data", "deliver", "handshake", "ended"}
      BY TypeParts DEF SessionTyped
    <3>2. QED
      BY <1>1, <3>1 DEF Sync, InBanner, InCommand, InDeliver, AtDot, InHandshake, InEnd
  <2>2. QED
    BY <1>1, <2>1 DEF Sync, InData, Quiet
<1>3. Numbered /\ Envelope /\ Message /\ Filed
  BY DEF ServerSide
<1>4. /\ n \in Nat /\ n > 0 /\ DOMAIN Text = 1 .. n /\ Text \in Seq(Line)
      /\ (\A i \in 1 .. n : Text[i] \in Line)
      /\ from \in Txns /\ Len(Text) = n /\ From = from
  BY <1>a, <1>2, <1>3, TextTyped
<1>5. DotItem \in Item
  <2>1. Dot \in Line
    BY DEF Dot, Blank, Line
  <2>2. QED
    BY <2>1 DEF DotItem, Cmd, Item, Verbs
<1>6. /\ toServer' \in Seq(Item) /\ Len(toServer') = n + 1 /\ DOMAIN toServer' = 1 .. n + 1
      /\ \A i \in 1 .. n : toServer'[i] = LineItem(Stuff(Text[i]))
      /\ toServer'[n + 1] = DotItem
  <2> DEFINE items == [i \in 1 .. n |-> LineItem(Stuff(Text[i]))]
  <2>1. ASSUME NEW l \in Line PROVE LineItem(Stuff(l)) \in Item
    <3>1. Stuff(l) \in Line
      BY DEF Stuff, Line
    <3>2. QED
      BY <3>1 DEF LineItem, Cmd, Item, Verbs
  <2>2. items \in Seq(Item) /\ Len(items) = n /\ \A i \in 1 .. n : items[i] = LineItem(Stuff(Text[i]))
    <3>1. items \in [1 .. n -> Item]
      BY <1>4, <2>1
    <3>2. QED
      BY <1>4, <3>1
  <2>3. toServer' = (<<>> \o items) \o <<DotItem>>
    BY <1>1, <1>2, <1>4
  <2> HIDE DEF items
  <2>4. <<>> \o items = items
    BY <2>2
  <2>5. toServer' = items \o <<DotItem>>
    BY <2>3, <2>4
  <2>6. items \o <<DotItem>> = Append(items, DotItem)
    BY <1>5, <2>2
  <2>7. QED
    BY <1>4, <1>5, <2>2, <2>5, <2>6, AppendFacts
<1>7. asked' \in Seq(Item) /\ Len(asked') = 1 /\ DOMAIN asked' = {1} /\ asked'[1] = DotItem /\ asked' # <<>>
  <2>1. asked' = <<DotItem>>
    BY <1>1, <1>2
  <2>2. QED
    BY <1>5, <2>1
<1>8. /\ Txns' = Txns /\ Current' = Current /\ Text' = Text /\ From' = From
      /\ Skip' = Skip /\ Skip = n + 1
  <2>1. Len(got) = 0
    BY <1>2
  <2>2. Text' = Text /\ From' = From /\ Txns' = Txns
    BY <1>1 DEF Text, From, Txns
  <2>3. Skip = n + 1
    BY <1>2, <1>4, <2>1 DEF Skip
  <2>4. Skip' = Skip
    BY <1>1, <2>2 DEF Skip
  <2>5. QED
    BY <2>2, <2>3, <2>4 DEF Current
<1>9. TypeOK' /\ Bounded'
  <2>1. body' \in Seq(Line)
    BY <1>1
  <2>2. WireTyped'
    BY <1>1, <1>6, <1>7, <2>1, TypeParts DEF WireTyped
  <2>3. SessionTyped' /\ RelayTyped'
    BY <1>1, TypeParts DEF SessionTyped, RelayTyped
  <2>4. ClientTyped' /\ RecordTyped'
    BY <1>1, TypeParts DEF ClientTyped, RecordTyped
  <2>5. QED
    BY <1>1, <2>2, <2>3, <2>4, TypePartsPrime DEF Bounded
<1>10. \A i \in 1 .. n + 1 : toServer'[i].verb \in {"line", "."}
  <2>1. \A i \in 1 .. n : toServer'[i].verb = "line"
    BY <1>4, <1>6, StuffFacts
  <2>2. toServer'[n + 1].verb = "."
    BY <1>6, DotFacts
  <2>3. \A i \in 1 .. n + 1 : i \in 1 .. n \/ i = n + 1
    BY <1>4
  <2>4. QED
    BY <2>1, <2>2, <2>3
<1>11. Queue' /\ Wants' /\ Newest'
  <2>1. \A i \in DOMAIN toServer' : ~ IsMail(i)' /\ ~ i > Skip'
    BY <1>4, <1>6, <1>8, <1>10 DEF IsMail
  <2>2. From \in {0, Current}
    <3>1. Newest /\ DOMAIN toServer = {}
      BY <1>2 DEF ServerSide, Reading
    <3>2. QED
      BY <1>1, <3>1 DEF Newest
  <2>3. QED
    BY <1>6, <1>8, <1>10, <2>1, <2>2 DEF Queue, Wants, Newest
<1>12. Message'
  <2>1. ASSUME NEW i \in DOMAIN toServer'
        PROVE  /\ i < Skip => toServer'[i] = LineItem(Stuff(Text[Len(got) + i]))
               /\ i = Skip => toServer'[i] = DotItem
    <3>1. Len(got) + i = i
      BY <1>2, <1>6
    <3>2. QED
      BY <1>4, <1>6, <1>8, <3>1
  <2>2. QED
    BY <1>1, <1>2, <1>3, <1>8, <2>1 DEF Message
<1>13. Numbered' /\ Envelope' /\ Filed'
  <2>1. Numbered' /\ Filed'
    BY <1>1, <1>3, <1>8, FiledStays DEF Numbered
  <2>2. Fresh(from)' <=> Fresh(from)
    BY <1>1 DEF Fresh
  <2>3. Envelope'
    BY <1>1, <1>3, <2>2 DEF Envelope, Fit
  <2>4. QED
    BY <2>1, <2>3
<1>14. ServerSide'
  BY <1>11, <1>12, <1>13 DEF ServerSide
<1>15. Sync'
  <2>1. AskedWords'
    BY <1>7, DotFacts DEF AskedWords
  <2>2. Matched(Skip - 1)'
    <3>1. Len(toClient') = 0 /\ Skip' - 1 = n
      BY <1>1, <1>2, <1>4, <1>8
    <3>2. /\ Len(asked') = Len(toClient') + Len(toServer') - n
          /\ Len(toServer') - n = 1 /\ Len(toClient') + 1 = 1
      BY <1>4, <1>6, <1>7, <3>1
    <3>3. \A i \in 1 .. Len(toServer') - n : asked'[Len(toClient') + i] = toServer'[n + i]
      BY <1>6, <1>7, <3>2
    <3>4. QED
      BY <3>1, <3>2, <3>3 DEF Matched
  <2>3. InData'
    BY <1>1, <1>2, <1>4, <1>6, <1>8, <2>2 DEF InData, Silent
  <2>4. QED
    BY <1>1, <1>2, <2>1, <2>3 DEF Sync
<1>16. Trace'
  <2>1. DOMAIN toClient' = {}
    BY <1>1, <1>2
  <2>2. PICK H \in [0 .. Len(toClient) -> Heard] : H[0] = heard /\ Agrees(H[Len(toClient)])
    BY <1>1, <1>2 DEF Trace
  <2>3. Agrees(H[Len(toClient)])'
    BY <1>1, <2>2 DEF Agrees
  <2>4. QED
    BY <1>1, <2>1, <2>2, <2>3 DEF Trace
<1>17. Acks'
  <2>1. \A t \in Txns, a \in Addresses : Kept(t, a) => Kept(t, a)'
    BY <1>1, KeptSame
  <2>2. \A ack \in acked' : ack[1] \in Txns' /\ Kept(ack[1], ack[2])'
    BY <1>1, <2>1, AckedStays
  <2>3. QED
    BY <1>1, <1>2, <2>2 DEF Acks
<1>18. Relay'
  <2>1. SentToAll' <=> SentToAll
    BY <1>1, <1>8 DEF SentToAll
  <2>2. QED
    BY <1>1, <1>2, <1>7, <2>1, DotFacts DEF Relay
<1>19. QED
  BY <1>9, <1>14, <1>15, <1>16, <1>17, <1>18

-----------------------------------------------------------------------------
(* What the client hears.                                                    *)

LEMMA SomeAnswers ==
    /\ Answers("STARTTLS") = {220, 454, 500}
    /\ Answers("DATA") = {354, 502}
    /\ Answers("RCPT") = {250, 502}
<1>1. Answers("STARTTLS") = {220, 454, 500}
  BY DEF Answers
<1>2. Answers("DATA") = {354, 502}
  BY DEF Answers
<1>3. Answers("RCPT") = {250, 502}
  BY DEF Answers
<1>4. QED
  BY <1>1, <1>2, <1>3

\* A reply in step that asks the client for the message, or for the handshake.
AsksForText == Len(toClient) = 1 /\ task = "data" /\ asked[1].verb = "DATA" /\ toClient[1] = 354
Upgrades    == /\ Len(toClient) = 1 /\ task \in {"handshake", "ended"}
               /\ asked[1].verb = "STARTTLS" /\ toClient[1] = 220
Dismisses   == Len(toClient) = 1 /\ task = "ended" /\ toClient[1] = 500

LEMMA HearFacts ==
    ASSUME TypeOK, Sync, Hear
    PROVE  /\ link = "open" /\ mode = "talk" /\ toClient # <<>> /\ asked # <<>>
           /\ toClient \in Seq(Codes) /\ asked \in Seq(Item)
           /\ Head(toClient) = toClient[1] /\ toClient[1] \in Codes
           /\ Head(asked) = asked[1] /\ asked[1] \in Item
           /\ task \in {"command", "data", "handshake", "ended"}
           /\ Plain(1) \/ AsksForText \/ Upgrades \/ Dismisses
           /\ task = "command" => Plain(1)
           /\ task = "data" => Plain(1) \/ AsksForText
           /\ task = "handshake" => Plain(1) \/ Upgrades
           /\ asked[1].verb = "STARTTLS" /\ Ok(toClient[1]) <=> Upgrades
           /\ asked[1].verb = "DATA" /\ Class(toClient[1]) = 3 <=> AsksForText
<1>1. toClient # <<>> /\ asked # <<>> /\ mode \in {"talk", "body"}
  BY DEF Hear
<1>2. /\ toClient \in Seq(Codes) /\ asked \in Seq(Item)
      /\ task \in {"banner", "command", "data", "deliver", "handshake", "ended"}
  BY TypeParts DEF WireTyped, SessionTyped
<1>3. /\ Head(toClient) = toClient[1] /\ toClient[1] \in Codes
      /\ Head(asked) = asked[1] /\ asked[1] \in Item
      /\ Len(toClient) \in Nat /\ Len(toClient) > 0 /\ DOMAIN toClient = 1 .. Len(toClient)
      /\ Len(asked) \in Nat /\ Len(asked) > 0 /\ 1 \in DOMAIN toClient
  BY <1>1, <1>2, TailFacts
<1>4. link = "open" /\ ~ Silent /\ ~ Quiet
  BY <1>1 DEF Sync, Silent, Quiet
<1>5. task \notin {"banner", "deliver"}
  BY <1>4 DEF Sync, InBanner, InDeliver, AtDot
<1>6. task = "command" => mode = "talk" /\ Plain(1)
  BY <1>3, <1>4 DEF Sync, InCommand, AllPlain
<1>7. ASSUME NEW verb, NEW code, LastIs(verb, code)
      PROVE  Plain(1) \/ (Len(toClient) = 1 /\ asked[1].verb = verb /\ toClient[1] = code)
  <2>1. CASE Len(toClient) = 1
    BY <1>7, <2>1 DEF LastIs
  <2>2. CASE Len(toClient) # 1
    <3>1. 1 \in 1 .. Len(toClient) - 1
      BY <1>3, <2>2
    <3>2. QED
      BY <1>7, <3>1 DEF LastIs
  <2>3. QED
    BY <2>1, <2>2
<1>8. task = "data" => mode = "talk" /\ (Plain(1) \/ AsksForText)
  BY <1>4, <1>7 DEF Sync, InData, AsksForText
<1>9. task = "handshake" => mode = "talk" /\ (Plain(1) \/ Upgrades)
  BY <1>4, <1>7 DEF Sync, InHandshake, Upgrades
<1>10. task = "ended" => mode = "talk" /\ (Plain(1) \/ Upgrades \/ Dismisses)
  BY <1>1, <1>3, <1>4 DEF Sync, InEnd, Upgrades, Dismisses
<1>11. Plain(1) => /\ ~ (asked[1].verb = "STARTTLS" /\ Ok(toClient[1]))
                   /\ ~ (asked[1].verb = "DATA" /\ Class(toClient[1]) = 3)
  BY <1>3, SomeAnswers, CodeClasses DEF Plain
<1>12. Plain(1) => ~ AsksForText /\ ~ Upgrades
  BY DEF Plain, AsksForText, Upgrades
<1>13. AsksForText => Class(toClient[1]) = 3 /\ asked[1].verb = "DATA" /\ ~ Upgrades /\ ~ Ok(toClient[1])
  BY <1>3, CodeClasses DEF AsksForText, Upgrades
<1>14. Upgrades => Ok(toClient[1]) /\ asked[1].verb = "STARTTLS" /\ ~ AsksForText
  BY <1>3, CodeClasses DEF AsksForText, Upgrades
<1>15. Dismisses => ~ Ok(toClient[1]) /\ Class(toClient[1]) # 3 /\ ~ AsksForText /\ ~ Upgrades
  BY <1>3, CodeClasses DEF AsksForText, Upgrades, Dismisses
<1>16. Plain(1) \/ AsksForText \/ Upgrades \/ Dismisses
  BY <1>2, <1>5, <1>6, <1>8, <1>9, <1>10
<1>17. /\ asked[1].verb = "STARTTLS" /\ Ok(toClient[1]) <=> Upgrades
       /\ asked[1].verb = "DATA" /\ Class(toClient[1]) = 3 <=> AsksForText
  BY <1>11, <1>12, <1>13, <1>14, <1>15, <1>16
<1>18. QED
  BY <1>1, <1>2, <1>3, <1>4, <1>5, <1>6, <1>8, <1>9, <1>10, <1>16, <1>17

\* The client reads a reply, and takes it for the answer to its oldest command.
LEMMA HearSteps ==
    ASSUME TypeOK, Numbered, Envelope, Sync, Trace, Hear
    PROVE  /\ toClient' = Tail(toClient)
           /\ heard' = After(heard, asked[1], toClient[1])
           /\ acked' = IF asked[1].verb = "." /\ Ok(toClient[1])
                       THEN acked \cup {<<heard.txn, a>> : a \in heard.rcpts} ELSE acked
           /\ Upgrades => mode' = "tls" /\ asked' = <<>> /\ body' = body
           /\ ~ Upgrades => asked' = Tail(asked)
           /\ AsksForText => mode' = "body" /\ body' = Text /\ heard' = heard /\ heard.txn = from
           /\ ~ Upgrades /\ ~ AsksForText => mode' = "talk" /\ body' = body
           /\ task \in {"command", "data"} /\ asked[1].verb = "RCPT" /\ toClient[1] = 502 => heard.txn = 0
           /\ step' = IF sender = None THEN step ELSE NextStep(asked[1].verb, toClient[1])
           /\ result' = IF sender # None /\ asked[1].verb = "." THEN "sent" ELSE result
           /\ sender # None => ~ Fatal(asked[1].verb, toClient[1])
           /\ UNCHANGED <<link, toServer, task, secure, greeted, from, rcpts, errors, got, todo>>
           /\ UNCHANGED <<tls, route, store, activity, now, whole, excused, reroutes, failures>>
           /\ UNCHANGED <<sender, left, mailOf, wanted, inClear, spoken, conns>>
<1>1. /\ link = "open" /\ mode = "talk" /\ toClient # <<>>
      /\ toClient \in Seq(Codes) /\ Head(toClient) = toClient[1] /\ Head(asked) = asked[1]
      /\ toClient[1] \in Codes
      /\ asked[1].verb = "STARTTLS" /\ Ok(toClient[1]) <=> Upgrades
      /\ asked[1].verb = "DATA" /\ Class(toClient[1]) = 3 <=> AsksForText
  BY HearFacts
<1>2. /\ UNCHANGED <<link, toServer, task, secure, greeted, from, rcpts, errors, got, todo>>
      /\ UNCHANGED <<tls, route, store, activity, now, whole, excused, reroutes, failures>>
      /\ UNCHANGED <<sender, left, mailOf, wanted, inClear, spoken, conns>>
  BY DEF Hear, serverOwn, session, relay, history, bounds, record
<1>3. /\ toClient' = Tail(toClient)
      /\ heard' = After(heard, asked[1], toClient[1])
      /\ acked' = IF asked[1].verb = "." /\ Ok(toClient[1])
                  THEN acked \cup {<<heard.txn, a>> : a \in heard.rcpts} ELSE acked
      /\ step' = IF sender = None THEN step ELSE NextStep(asked[1].verb, toClient[1])
      /\ result' = IF sender # None /\ asked[1].verb = "." THEN "sent" ELSE result
      /\ sender # None => ~ Fatal(asked[1].verb, toClient[1])
  BY <1>1 DEF Hear
<1>4. /\ Upgrades => mode' = "tls" /\ asked' = <<>> /\ body' = body
      /\ ~ Upgrades => /\ asked' = Tail(asked)
                       /\ IF AsksForText /\ heard.txn # 0
                          THEN mode' = "body" /\ body' = Body[mailOf[heard.txn]]
                          ELSE UNCHANGED <<mode, body>>
  BY <1>1 DEF Hear
<1>5. ASSUME task \in {"command", "data"}
      PROVE  /\ asked[1].verb = "RCPT" /\ toClient[1] = 502 => heard.txn = 0
             /\ Len(toClient) = 1 => Agrees(After(heard, asked[1], toClient[1]))
  <2>1. PICK H \in [0 .. Len(toClient) -> Heard] :
            /\ H[0] = heard
            /\ \A i \in DOMAIN toClient :
                   /\ H[i] = After(H[i - 1], asked[i], toClient[i])
                   /\ asked[i].verb = "RCPT" /\ toClient[i] = 502 => H[i - 1].txn = 0
            /\ Agrees(H[Len(toClient)])
    BY <1>1, <1>5 DEF Trace
  <2>2. 1 \in DOMAIN toClient
    BY <1>1
  <2>3. /\ H[1] = After(H[1 - 1], asked[1], toClient[1])
        /\ asked[1].verb = "RCPT" /\ toClient[1] = 502 => H[1 - 1].txn = 0
    BY <2>1, <2>2
  <2>4. 1 - 1 = 0
    OBVIOUS
  <2>5. QED
    BY <2>1, <2>3, <2>4
<1>6. AsksForText => /\ ~ Upgrades /\ heard' = heard /\ heard.txn = from /\ from # 0
  <2>1. SUFFICES ASSUME AsksForText PROVE ~ Upgrades /\ heard' = heard /\ heard.txn = from /\ from # 0
    OBVIOUS
  <2>2. Len(toClient) = 1 /\ task = "data" /\ asked[1].verb = "DATA" /\ toClient[1] = 354
    BY <2>1 DEF AsksForText
  <2>3. ~ Ok(toClient[1])
    BY <1>1, <2>2, CodeClasses
  <2>4. heard' = heard
    BY <1>3, <2>3 DEF After
  <2>5. QED
    BY <1>3, <1>5, <2>2, <2>4 DEF Upgrades, Agrees, Envelope
<1>7. QED
  BY <1>1, <1>2, <1>3, <1>4, <1>5, <1>6 DEF Text

\* The oldest open command, and what its answer makes of the transaction.
LEMMA OldestWord ==
    ASSUME TypeOK, Numbered, Sync, Hear
    PROVE  /\ asked[1].verb = "MAIL" => asked[1].txn \in Txns /\ asked[1].txn \in 1 .. MaxTxns
           /\ asked[1].verb = "RCPT" => asked[1].addr \in Addresses
           /\ After(heard, asked[1], toClient[1]) \in Heard
           /\ After(heard, asked[1], toClient[1]).txn \in {0} \cup Txns
           /\ heard.txn # 0 => heard.txn \in Txns
<1>1. asked # <<>> /\ asked \in Seq(Item)
  BY HearFacts
<1>2. 1 \in DOMAIN asked
  BY <1>1
<1>3. asked[1].verb \notin {"connect", "."} => IsWord(asked[1])
  BY <1>2 DEF Sync, AskedWords
<1>4. /\ asked[1].verb = "MAIL" => asked[1].txn \in Txns /\ asked[1].txn \in 1 .. MaxTxns
      /\ asked[1].verb = "RCPT" => asked[1].addr \in Addresses
  BY <1>3 DEF IsWord, Txns
<1>5. heard \in Heard /\ MaxTxns \in Nat /\ heard.txn \in {0} \cup Txns
  BY TypeParts, SessionAssumption DEF WireTyped, Numbered
<1>6. After(heard, asked[1], toClient[1]) \in Heard
  BY <1>4, <1>5, AfterTyped
<1>7. After(heard, asked[1], toClient[1]).txn \in {0} \cup Txns
  <2>1. [txn |-> asked[1].txn, rcpts |-> {}].txn = asked[1].txn /\ Nothing.txn = 0
    BY DEF Nothing
  <2>2. [heard EXCEPT !.rcpts = @ \cup {asked[1].addr}].txn = heard.txn
    BY <1>5 DEF Heard
  <2>3. QED
    BY <1>4, <1>5, <2>1, <2>2 DEF After
<1>8. QED
  BY <1>4, <1>5, <1>6, <1>7

LEMMA HearTyped ==
    ASSUME TypeOK, Bounded, ServerSide, Sync, Trace, Acks, Hear
    PROVE  TypeOK' /\ Bounded' /\ ServerSide'
<1>0. Numbered /\ Envelope /\ Message /\ Filed
  BY DEF ServerSide
<1>1. /\ toClient # <<>> /\ asked # <<>> /\ toClient \in Seq(Codes) /\ asked \in Seq(Item)
      /\ link = "open" /\ toClient[1] \in Codes
  BY HearFacts
<1>2. /\ UNCHANGED <<link, toServer, task, secure, greeted, from, rcpts, errors, got, todo>>
      /\ UNCHANGED <<tls, route, store, activity, now, whole, excused, reroutes, failures>>
      /\ UNCHANGED <<sender, left, mailOf, wanted, inClear, spoken, conns>>
  BY <1>0, HearSteps
<1>3. /\ toClient' = Tail(toClient) /\ asked' \in {Tail(asked), <<>>} /\ mode' \in {"tls", "body", "talk"}
      /\ body' = body \/ (AsksForText /\ body' = Text)
      /\ heard' = After(heard, asked[1], toClient[1])
  BY <1>0, HearSteps
<1>4. WireTyped'
  <2>1. toClient' \in Seq(Codes) /\ asked' \in Seq(Item)
    <3>1. Tail(toClient) \in Seq(Codes)
      BY <1>1, TailFacts
    <3>2. Tail(asked) \in Seq(Item)
      BY <1>1, TailFacts
    <3>3. <<>> \in Seq(Item)
      OBVIOUS
    <3>4. QED
      BY <1>3, <3>1, <3>2, <3>3
  <2>2. body' \in Seq(Line)
    <3>1. AsksForText => Text \in Seq(Line)
      BY <1>0, TextTyped DEF AsksForText
    <3>2. QED
      BY <1>3, <3>1, TypeParts DEF WireTyped
  <2>3. heard' \in Heard
    BY <1>0, <1>3, OldestWord
  <2>4. QED
    BY <1>2, <1>3, <2>1, <2>2, <2>3, TypeParts DEF WireTyped
<1>5. SessionTyped' /\ RelayTyped'
  BY <1>2, TypeParts DEF SessionTyped, RelayTyped
<1>6. ClientTyped'
  <2>1. step' \in {"EHLO", "HELO", "STARTTLS", "MAIL", "RCPT", "DATA", ".", "QUIT"}
    <3>1. step' = step \/ step' = NextStep(asked[1].verb, toClient[1])
      BY <1>0, HearSteps
    <3>2. NextStep(asked[1].verb, toClient[1])
              \in {"EHLO", "HELO", "STARTTLS", "MAIL", "RCPT", "DATA", ".", "QUIT"}
      BY DEF NextStep
    <3>3. QED
      BY <3>1, <3>2, TypeParts DEF ClientTyped
  <2>2. result' \in {result, "sent"}
    BY <1>0, HearSteps
  <2>3. QED
    BY <1>2, <2>1, <2>2, TypeParts DEF ClientTyped
<1>7. RecordTyped'
  <2>1. acked' \subseteq (1 .. MaxTxns) \X Addresses
    <3>1. ASSUME asked[1].verb = ".", NEW a \in heard.rcpts PROVE <<heard.txn, a>> \in (1 .. MaxTxns) \X Addresses
      <4>1. heard.txn # 0
        BY <1>1, <3>1 DEF Acks
      <4>2. heard.txn \in 1 .. MaxTxns
        BY <1>0, <4>1, OldestWord DEF Txns
      <4>3. a \in Addresses
        BY <3>1, TypeParts DEF WireTyped, Heard
      <4>4. QED
        BY <4>2, <4>3
    <3>2. acked \subseteq (1 .. MaxTxns) \X Addresses
      BY TypeParts DEF RecordTyped
    <3>3. acked' = IF asked[1].verb = "." /\ Ok(toClient[1])
                   THEN acked \cup {<<heard.txn, a>> : a \in heard.rcpts} ELSE acked
      BY <1>0, HearSteps
    <3>4. QED
      BY <3>1, <3>2, <3>3
  <2>2. QED
    BY <1>2, <2>1, TypeParts DEF RecordTyped
<1>8. TypeOK' /\ Bounded'
  BY <1>2, <1>4, <1>5, <1>6, <1>7, TypePartsPrime DEF Bounded
<1>9. ServerSide'
  <2>1. Txns' = Txns /\ Current' = Current
    BY <1>2 DEF Txns, Current
  <2>2. heard'.txn \in {0} \cup Txns
    BY <1>0, <1>3, OldestWord
  <2>3. Numbered' /\ Filed'
    BY <1>0, <1>2, <2>1, <2>2, FiledStays DEF Numbered
  <2>4. Fresh(from)' <=> Fresh(from)
    BY <1>2 DEF Fresh
  <2>5. Envelope' /\ Message'
    BY <1>0, <1>2, <2>4 DEF Envelope, Fit, Message, Text, Skip
  <2>6. Reading => Queue' /\ Wants' /\ Newest'
    <3>1. Skip' = Skip /\ From' = From
      BY <1>2 DEF Skip, Text, From
    <3>2. From \in Nat
      <4>1. from \in 0 .. MaxTxns /\ MaxTxns \in Nat
        BY TypeParts, SessionAssumption DEF SessionTyped
      <4>2. QED
        BY <4>1 DEF From
    <3>3. \A i \in DOMAIN toServer : toServer[i].txn \in Nat
      BY <1>0, SkipTyped
    <3>4. \A t : Fresh(t)' <=> Fresh(t)
      BY <1>2 DEF Fresh
    <3>5. QED
      BY <1>2, <3>1, <3>2, <3>3, <3>4, QueueStays
  <2>7. QED
    BY <1>2, <2>3, <2>5, <2>6 DEF ServerSide, Reading
<1>10. QED
  BY <1>8, <1>9

LEMMA HearTrace ==
    ASSUME TypeOK, ServerSide, Sync, Trace, Hear
    PROVE  Trace'
<1>0. Numbered /\ Envelope
  BY DEF ServerSide
<1>1. /\ link = "open" /\ toClient # <<>> /\ asked # <<>>
      /\ toClient \in Seq(Codes) /\ asked \in Seq(Item)
      /\ task = "command" => Plain(1)
      /\ task = "data" => Plain(1) \/ AsksForText
  BY HearFacts
<1>2. /\ toClient' = Tail(toClient) /\ heard' = After(heard, asked[1], toClient[1])
      /\ ~ Upgrades => asked' = Tail(asked)
      /\ UNCHANGED <<link, task, from, rcpts, excused>>
  BY <1>0, HearSteps
<1>3. SUFFICES ASSUME task \in {"command", "data"}
               PROVE  \E G \in [0 .. Len(toClient') -> Heard] :
                          /\ G[0] = heard'
                          /\ \A i \in DOMAIN toClient' :
                                 /\ G[i] = After(G[i - 1], asked'[i], toClient'[i])
                                 /\ asked'[i].verb = "RCPT" /\ toClient'[i] = 502 => G[i - 1].txn = 0
                          /\ Agrees(G[Len(toClient')])
  BY <1>1, <1>2 DEF Trace, Agrees
<1>4. asked' = Tail(asked)
  BY <1>2, <1>3 DEF Upgrades
<1>a. PICK k : k = Len(toClient)
  OBVIOUS
<1>5. /\ k \in Nat /\ k > 0 /\ DOMAIN toClient = 1 .. k /\ k = Len(toClient)
      /\ Len(toClient') = k - 1 /\ DOMAIN toClient' = 1 .. k - 1
      /\ \A i \in 1 .. k - 1 : toClient'[i] = toClient[i + 1]
  BY <1>a, <1>1, <1>2, TailFacts
<1>6. \A i \in 1 .. k - 1 : asked'[i] = asked[i + 1]
  <2>1. \A i \in 1 .. Len(asked) - 1 : asked'[i] = asked[i + 1]
    BY <1>1, <1>4, TailFacts
  <2>2. k <= Len(asked)
    <3>1. ASSUME NEW i \in 1 .. k, Plain(i) PROVE i <= Len(asked)
      BY <3>1 DEF Plain
    <3>2. CASE task = "command"
      <4>1. Plain(k)
        BY <1>1, <1>5, <3>2 DEF Sync, InCommand, AllPlain
      <4>2. QED
        BY <1>5, <4>1 DEF Plain
    <3>3. CASE task = "data"
      BY <1>1, <1>5, <3>3 DEF Sync, InData, LastIs, Quiet, Silent
    <3>4. QED
      BY <1>3, <3>2, <3>3
  <2>3. Len(asked) \in Nat
    BY <1>1
  <2>4. QED
    BY <1>5, <2>1, <2>2, <2>3
<1>7. PICK H \in [0 .. k -> Heard] :
          /\ H[0] = heard
          /\ \A i \in DOMAIN toClient :
                 /\ H[i] = After(H[i - 1], asked[i], toClient[i])
                 /\ asked[i].verb = "RCPT" /\ toClient[i] = 502 => H[i - 1].txn = 0
          /\ Agrees(H[k])
  BY <1>1, <1>3, <1>5 DEF Trace
<1> DEFINE G == [i \in 0 .. k - 1 |-> H[i + 1]]
<1>8. G \in [0 .. k - 1 -> Heard] /\ \A i \in 0 .. k - 1 : G[i] = H[i + 1]
  <2>1. \A i \in 0 .. k - 1 : i + 1 \in 0 .. k
    BY <1>5
  <2>2. QED
    BY <1>7, <2>1
<1> HIDE DEF G
<1>9. G[0] = heard'
  <2>1. 1 \in 1 .. k /\ 0 \in 0 .. k - 1 /\ 1 - 1 = 0
    BY <1>5
  <2>2. H[1] = After(H[1 - 1], asked[1], toClient[1])
    BY <1>5, <1>7, <2>1
  <2>3. QED
    BY <1>2, <1>7, <1>8, <2>1, <2>2
<1>10. ASSUME NEW i \in 1 .. k - 1
       PROVE  /\ G[i] = After(G[i - 1], asked'[i], toClient'[i])
              /\ asked'[i].verb = "RCPT" /\ toClient'[i] = 502 => G[i - 1].txn = 0
  <2>1. i + 1 \in 1 .. k /\ i \in 0 .. k - 1 /\ i - 1 \in 0 .. k - 1 /\ i - 1 + 1 = i /\ i + 1 - 1 = i
    BY <1>5
  <2>2. G[i] = H[i + 1] /\ G[i - 1] = H[i]
    BY <1>8, <2>1
  <2>3. /\ H[i + 1] = After(H[i + 1 - 1], asked[i + 1], toClient[i + 1])
        /\ asked[i + 1].verb = "RCPT" /\ toClient[i + 1] = 502 => H[i + 1 - 1].txn = 0
    BY <1>5, <1>7, <2>1
  <2>4. asked'[i] = asked[i + 1] /\ toClient'[i] = toClient[i + 1]
    BY <1>5, <1>6
  <2>5. QED
    BY <2>1, <2>2, <2>3, <2>4
<1>11. Agrees(G[k - 1])
  <2>1. k - 1 \in 0 .. k - 1 /\ k - 1 + 1 = k
    BY <1>5
  <2>2. G[k - 1] = H[k]
    BY <1>8, <2>1
  <2>3. QED
    BY <1>7, <2>2
<1>12. QED
  BY <1>5, <1>8, <1>9, <1>10, <1>11

LEMMA HearAcks ==
    ASSUME TypeOK, ServerSide, Sync, Trace, Acks, Hear
    PROVE  Acks'
<1>0. Numbered /\ Envelope
  BY DEF ServerSide
<1>1. /\ link = "open" /\ toClient # <<>> /\ asked # <<>> /\ asked \in Seq(Item)
      /\ task \in {"command", "data", "handshake", "ended"}
  BY HearFacts
<1>2. /\ asked' \in {Tail(asked), <<>>}
      /\ acked' = IF asked[1].verb = "." /\ Ok(toClient[1])
                  THEN acked \cup {<<heard.txn, a>> : a \in heard.rcpts} ELSE acked
      /\ UNCHANGED <<task, mailOf, excused, activity, store>>
  BY <1>0, HearSteps
<1>3. \A t \in Txns, a \in Addresses : Kept(t, a) => Kept(t, a)'
  BY <1>2, KeptSame
<1>4. Txns' = Txns
  BY <1>2 DEF Txns
<1>5. ASSUME NEW ack \in acked', NEW t, NEW a, t = ack[1], a = ack[2]
      PROVE  t \in Txns' /\ Kept(t, a)'
  <2>1. CASE ack \in acked
    <3>1. t \in Txns /\ Kept(t, a)
      BY <1>5, <2>1 DEF Acks
    <3>2. a \in Addresses
      BY <1>5, <2>1, TypeParts DEF RecordTyped
    <3>3. QED
      BY <1>3, <1>4, <3>1, <3>2
  <2>2. CASE ack \notin acked
    <3>1. PICK x \in heard.rcpts : ack = <<heard.txn, x>> /\ asked[1].verb = "."
      BY <1>2, <1>5, <2>2
    <3>2. t = heard.txn /\ a = x /\ heard.txn # 0 /\ Kept(heard.txn, x)
      BY <1>1, <1>5, <3>1 DEF Acks
    <3>3. t \in Txns /\ a \in Addresses /\ Kept(t, a)
      BY <1>0, <3>1, <3>2, OldestWord, TypeParts DEF WireTyped, Heard
    <3>4. QED
      BY <1>3, <1>4, <3>3
  <2>3. QED
    BY <2>1, <2>2
<1>6. \A ack \in acked' : ack[1] \in Txns' /\ Kept(ack[1], ack[2])'
  BY <1>5
<1>7. asked' # <<>> => asked'[1].verb # "."
  <2>1. SUFFICES ASSUME asked' # <<>> PROVE asked'[1].verb # "."
    OBVIOUS
  <2>2. asked' = Tail(asked) /\ Len(Tail(asked)) = Len(asked) - 1 /\ Len(asked) \in Nat
        /\ Tail(asked) \in Seq(Item) /\ DOMAIN asked = 1 .. Len(asked)
        /\ \A i \in 1 .. Len(asked) - 1 : Tail(asked)[i] = asked[i + 1]
    BY <1>1, <1>2, <2>1, TailFacts
  <2>3. Len(asked) - 1 > 0
    BY <2>1, <2>2
  <2>4. 2 \in DOMAIN asked /\ asked'[1] = asked[2]
    BY <2>2, <2>3
  <2>5. IsWord(asked[2])
    BY <2>4 DEF Sync, AskedWords
  <2>6. QED
    BY <2>4, <2>5 DEF IsWord
<1>8. QED
  BY <1>1, <1>2, <1>6, <1>7 DEF Acks

LEMMA HearSync ==
    ASSUME TypeOK, ServerSide, Sync, Trace, Hear
    PROVE  Sync'
<1>0. Numbered /\ Envelope
  BY DEF ServerSide
<1>1. /\ link = "open" /\ mode = "talk" /\ toClient # <<>> /\ asked # <<>>
      /\ toClient \in Seq(Codes) /\ asked \in Seq(Item) /\ toServer \in Seq(Item)
      /\ task \in {"command", "data", "handshake", "ended"}
      /\ Plain(1) \/ AsksForText \/ Upgrades \/ Dismisses
      /\ task = "command" => Plain(1)
      /\ task = "data" => Plain(1) \/ AsksForText
      /\ task = "handshake" => Plain(1) \/ Upgrades
  BY HearFacts, TypeParts DEF WireTyped
<1>2. /\ toClient' = Tail(toClient)
      /\ heard' = After(heard, asked[1], toClient[1])
      /\ Upgrades => mode' = "tls" /\ asked' = <<>> /\ body' = body
      /\ ~ Upgrades => asked' = Tail(asked)
      /\ AsksForText => mode' = "body" /\ body' = Text /\ heard' = heard /\ heard.txn = from
      /\ ~ Upgrades /\ ~ AsksForText => mode' = "talk" /\ body' = body
      /\ UNCHANGED <<link, toServer, task, secure, from, got, mailOf>>
  BY <1>0, HearSteps
<1>a. PICK k : k = Len(toClient)
  OBVIOUS
<1>b. PICK m : m = Len(asked)
  OBVIOUS
<1>3. /\ k \in Nat /\ k > 0 /\ DOMAIN toClient = 1 .. k /\ k = Len(toClient)
      /\ Len(toClient') = k - 1 /\ DOMAIN toClient' = 1 .. k - 1
      /\ \A i \in 1 .. k - 1 : toClient'[i] = toClient[i + 1]
  BY <1>a, <1>1, <1>2, TailFacts
<1>4. /\ m \in Nat /\ m > 0 /\ DOMAIN asked = 1 .. m /\ m = Len(asked)
  BY <1>b, <1>1, TailFacts
<1>5. ~ Upgrades => /\ Len(asked') = m - 1 /\ DOMAIN asked' = 1 .. m - 1
                    /\ \A i \in 1 .. m - 1 : asked'[i] = asked[i + 1]
  BY <1>b, <1>1, <1>2, TailFacts
<1>6. k = 1 => toClient' = <<>>
  <2>1. toClient' \in Seq(Codes)
    BY <1>1, <1>2, TailFacts
  <2>2. QED
    BY <1>3, <2>1, EmptyFacts
<1>7. AskedWords'
  <2>1. CASE Upgrades
    <3>1. DOMAIN asked' = {}
      BY <1>2, <2>1
    <3>2. QED
      BY <3>1 DEF AskedWords
  <2>2. CASE ~ Upgrades
    <3>1. ASSUME NEW i \in 1 .. m - 1
          PROVE  IsWord(asked[i])' /\ (i < m - 1 => asked'[i].verb # "DATA")
      <4>1. i + 1 \in 1 .. m /\ i + 1 > 1 /\ (i < m - 1 => i + 1 < m)
        BY <1>4
      <4>2. IsWord(asked[i + 1]) /\ (i < m - 1 => asked[i + 1].verb # "DATA")
        BY <1>4, <4>1 DEF Sync, AskedWords
      <4>3. asked'[i] = asked[i + 1]
        BY <1>5, <2>2
      <4>4. QED
        BY <1>2, <4>2, <4>3 DEF IsWord, Txns
    <3>2. QED
      BY <1>5, <2>2, <3>1 DEF AskedWords
  <2>3. QED
    BY <2>1, <2>2
<1>8. ASSUME ~ Upgrades, NEW i \in 1 .. k - 1, NEW j, j = i + 1, Plain(j) PROVE Plain(i)'
  <2>1. /\ i + 1 <= m /\ toClient[i + 1] \in Answers(asked[i + 1].verb)
        /\ ~ (asked[i + 1].verb = "STARTTLS" /\ toClient[i + 1] = 220)
        /\ ~ (asked[i + 1].verb = "DATA" /\ toClient[i + 1] = 354)
    BY <1>4, <1>8 DEF Plain
  <2>2. i \in 1 .. m - 1
    BY <1>3, <1>4, <2>1
  <2>3. toClient'[i] = toClient[i + 1] /\ asked'[i] = asked[i + 1] /\ Len(asked') = m - 1
    BY <1>3, <1>5, <1>8, <2>2
  <2>4. i <= Len(asked')
    BY <1>4, <2>2, <2>3
  <2>5. QED
    BY <2>1, <2>3, <2>4 DEF Plain
<1>9. ASSUME ~ Upgrades, k > 1, NEW verb, NEW code, LastIs(verb, code) PROVE LastIs(verb, code)'
  <2>1. k <= m /\ (\A i \in 1 .. k - 1 : Plain(i)) /\ asked[k].verb = verb /\ toClient[k] = code
    BY <1>3, <1>4, <1>9 DEF LastIs
  <2>2. k - 1 \in 1 .. k - 1 /\ k - 1 \in 1 .. m - 1 /\ k - 1 + 1 = k /\ 0 < k - 1
    BY <1>3, <1>4, <1>9, <2>1
  <2>3. asked'[k - 1] = asked[k] /\ toClient'[k - 1] = toClient[k] /\ Len(toClient') = k - 1
        /\ Len(asked') = m - 1
    BY <1>3, <1>5, <1>9, <2>2
  <2>4. ASSUME NEW i \in 1 .. k - 1 - 1 PROVE Plain(i)'
    <3>1. i \in 1 .. k - 1 /\ i + 1 \in 1 .. k - 1
      BY <1>3, <2>4
    <3>2. Plain(i + 1)
      BY <2>1, <3>1
    <3>3. QED
      BY <1>8, <1>9, <3>1, <3>2
  <2>5. k - 1 <= Len(asked')
    BY <2>2, <2>3
  <2>6. QED
    BY <2>1, <2>2, <2>3, <2>4, <2>5 DEF LastIs
<1>10. task = "command" => InCommand'
  <2>1. SUFFICES ASSUME task = "command" PROVE InCommand'
    OBVIOUS
  <2>2. ~ Upgrades /\ ~ AsksForText
    BY <2>1 DEF Upgrades, AsksForText
  <2>3. AllPlain /\ Matched(0)
    BY <1>1, <2>1 DEF Sync, InCommand
  <2>4. AllPlain'
    <3>1. ASSUME NEW i \in 1 .. k - 1 PROVE Plain(i)'
      <4>1. i + 1 \in 1 .. k
        BY <1>3
      <4>2. Plain(i + 1)
        BY <1>3, <2>3, <4>1 DEF AllPlain
      <4>3. QED
        BY <1>8, <2>2, <4>2
    <3>2. QED
      BY <1>3, <3>1 DEF AllPlain
  <2>5. Matched(0)'
    <3>1. PICK n \in Nat : n = Len(toServer)
      BY <1>1
    <3>2. m = k + n /\ \A i \in 1 .. n : asked[k + i] = toServer[i]
      <4>1. Len(asked) = Len(toClient) + Len(toServer) - 0
            /\ \A i \in 1 .. Len(toServer) - 0 : asked[Len(toClient) + i] = toServer[0 + i]
        BY <2>3 DEF Matched
      <4>2. Len(toServer) - 0 = n
        BY <3>1
      <4>3. m = k + n
        BY <1>3, <1>4, <3>1, <4>1
      <4>4. \A i \in 1 .. n : asked[k + i] = toServer[0 + i] /\ 0 + i = i
        BY <1>3, <4>1, <4>2
      <4>5. QED
        BY <4>3, <4>4
    <3>3. ASSUME NEW i \in 1 .. n PROVE asked'[k - 1 + i] = toServer[i]
      <4>1. k - 1 + i \in 1 .. m - 1 /\ k - 1 + i + 1 = k + i
        BY <1>3, <3>1, <3>2
      <4>2. asked'[k - 1 + i] = asked[k - 1 + i + 1]
        BY <1>5, <2>2, <4>1
      <4>3. QED
        BY <3>2, <4>1, <4>2
    <3>4. Len(asked') = m - 1 /\ Len(toServer') = n /\ Len(toClient') = k - 1 /\ toServer' = toServer
      BY <1>2, <1>3, <1>5, <2>2, <3>1
    <3>5. Len(asked') = Len(toClient') + Len(toServer') - 0 /\ Len(toServer') - 0 = n
      BY <1>3, <3>1, <3>2, <3>4
    <3>6. \A i \in 1 .. Len(toServer') - 0 : asked'[Len(toClient') + i] = toServer'[0 + i]
      BY <1>3, <3>1, <3>3, <3>4, <3>5
    <3>7. QED
      BY <3>5, <3>6 DEF Matched
  <2>6. QED
    BY <1>2, <2>2, <2>4, <2>5 DEF InCommand
<1>11. task = "data" => InData'
  <2>1. SUFFICES ASSUME task = "data" PROVE InData'
    OBVIOUS
  <2>2. ~ Upgrades
    BY <2>1 DEF Upgrades
  <2>3. toServer = <<>> /\ got = <<>> /\ LastIs("DATA", 354) /\ m = k
    BY <1>1, <1>3, <1>4, <2>1 DEF Sync, InData, Silent
  <2>4. Len(asked') = Len(toClient') /\ Len(toClient') = k - 1
    BY <1>3, <1>5, <2>2, <2>3
  <2>5. CASE AsksForText
    <3>1. toClient' = <<>>
      BY <1>3, <1>6, <2>5 DEF AsksForText
    <3>2. asked' = <<>>
      <4>1. asked' \in Seq(Item) /\ Len(asked') = 0
        BY <1>1, <1>2, <1>3, <2>2, <2>4, <2>5, TailFacts, SMTT(30) DEF AsksForText
      <4>2. QED
        BY <4>1, EmptyFacts
    <3>3. Text' = Text
      BY <1>2 DEF Text
    <3>4. QED
      BY <1>2, <2>3, <2>5, <3>1, <3>2, <3>3 DEF InData, Quiet
  <2>6. CASE ~ AsksForText
    <3>1. Plain(1)
      BY <1>1, <2>1, <2>6
    <3>2. k > 1
      BY <1>3, <2>3, <3>1 DEF LastIs, Plain
    <3>3. LastIs("DATA", 354)'
      BY <1>9, <2>2, <2>3, <3>2
    <3>4. QED
      BY <1>2, <2>2, <2>3, <2>4, <2>6, <3>3 DEF InData
  <2>7. QED
    BY <2>5, <2>6
<1>12. Upgrades => mode' = "tls" /\ Quiet' /\ heard' = Nothing
  <2>1. SUFFICES ASSUME Upgrades PROVE toClient' = <<>> /\ heard' = Nothing
    BY <1>2 DEF Quiet
  <2>2. asked[1].verb = "STARTTLS" /\ toClient[1] = 220 /\ k = 1
    BY <1>3, <2>1 DEF Upgrades
  <2>3. Ok(toClient[1])
    BY <2>2, CodeClasses DEF Codes
  <2>4. QED
    BY <1>2, <1>6, <2>2, <2>3 DEF After
<1>13. task = "handshake" => InHandshake'
  <2>1. CASE Upgrades
    BY <1>12, <2>1 DEF InHandshake
  <2>2. CASE ~ Upgrades /\ task = "handshake"
    <3>1. Plain(1) /\ LastIs("STARTTLS", 220) /\ ~ AsksForText
      BY <1>1, <2>2 DEF Sync, InHandshake, AsksForText
    <3>2. k > 1
      BY <1>3, <3>1 DEF LastIs, Plain
    <3>3. LastIs("STARTTLS", 220)'
      BY <1>9, <2>2, <3>1, <3>2
    <3>4. QED
      BY <1>2, <2>2, <3>1, <3>3 DEF InHandshake
  <2>3. QED
    BY <2>1, <2>2
<1>14. task = "ended" => InEnd'
  <2>1. SUFFICES ASSUME task = "ended" PROVE InEnd'
    OBVIOUS
  <2>2. CASE Upgrades
    <3>1. DOMAIN toClient' = {}
      BY <1>12, <2>2 DEF Quiet
    <3>2. QED
      BY <1>12, <2>2, <3>1 DEF InEnd
  <2>3. CASE ~ Upgrades
    <3>1. mode' = "talk"
      BY <1>2, <2>1, <2>3 DEF AsksForText
    <3>2. ASSUME NEW i \in 1 .. k - 1
          PROVE  \/ Plain(i)'
                 \/ i = Len(toClient') /\ toClient'[i] = 500
                 \/ /\ i = Len(toClient') /\ i <= Len(asked')
                    /\ asked'[i].verb = "STARTTLS" /\ toClient'[i] = 220
      <4>1. PICK j : j = i + 1
        OBVIOUS
      <4>2. j \in 1 .. k /\ toClient'[i] = toClient[j] /\ (j = k => i = Len(toClient'))
        BY <1>3, <4>1
      <4>3. \/ Plain(j)
            \/ j = k /\ toClient[j] = 500
            \/ j = k /\ j <= m /\ asked[j].verb = "STARTTLS" /\ toClient[j] = 220
        <5>1. InEnd
          BY <1>1, <2>1 DEF Sync
        <5>2. j \in DOMAIN toClient
          BY <1>3, <4>2
        <5>3. \/ Plain(j)
              \/ j = Len(toClient) /\ toClient[j] = 500
              \/ j = Len(toClient) /\ j <= Len(asked) /\ asked[j].verb = "STARTTLS" /\ toClient[j] = 220
          BY <5>1, <5>2 DEF InEnd
        <5>4. QED
          BY <1>3, <1>4, <5>3
      <4>4. j <= m => i \in 1 .. m - 1 /\ asked'[i] = asked[j] /\ Len(asked') = m - 1
        <5>1. j <= m => i \in 1 .. m - 1
          BY <1>3, <1>4, <4>1
        <5>2. QED
          BY <1>5, <2>3, <4>1, <5>1
      <4>5. j <= m => i <= Len(asked')
        BY <1>4, <4>4
      <4>6. QED
        BY <1>8, <2>3, <4>1, <4>2, <4>3, <4>4, <4>5
    <3>3. \A i \in DOMAIN toClient' :
              \/ Plain(i)'
              \/ i = Len(toClient') /\ toClient'[i] = 500
              \/ /\ i = Len(toClient') /\ i <= Len(asked')
                 /\ asked'[i].verb = "STARTTLS" /\ toClient'[i] = 220
      BY <1>3, <3>2
    <3>4. QED
      BY <3>1, <3>3 DEF InEnd
  <2>4. QED
    BY <2>2, <2>3
<1>15. mode' # "gone"
  BY <1>2
<1>16. task \notin {"banner", "deliver"}
  BY <1>1
<1>17. QED
  BY <1>1, <1>2, <1>7, <1>10, <1>11, <1>13, <1>14, <1>15, <1>16 DEF Sync

\* The relay goes on to what send_one does next.
LEMMA HearRelay ==
    ASSUME TypeOK, ServerSide, Sync, Trace, Acks, Relay, Hear
    PROVE  Relay'
<1> DEFINE q == asked[1]
           code == toClient[1]
<1>0. Numbered /\ Envelope
  BY DEF ServerSide
<1>1. /\ link = "open" /\ mode = "talk" /\ toClient # <<>> /\ asked # <<>>
      /\ toClient \in Seq(Codes) /\ asked \in Seq(Item) /\ code \in Codes
      /\ task \in {"command", "data", "handshake", "ended"}
      /\ Plain(1) \/ AsksForText \/ Upgrades \/ Dismisses
      /\ q.verb = "STARTTLS" /\ Ok(code) <=> Upgrades
      /\ q.verb = "DATA" /\ Class(code) = 3 <=> AsksForText
      /\ task = "handshake" => Plain(1) \/ Upgrades
  BY HearFacts
<1>2. /\ heard' = After(heard, q, code)
      /\ acked' = IF q.verb = "." /\ Ok(code)
                  THEN acked \cup {<<heard.txn, a>> : a \in heard.rcpts} ELSE acked
      /\ Upgrades => mode' = "tls" /\ asked' = <<>>
      /\ ~ Upgrades => asked' = Tail(asked)
      /\ AsksForText => mode' = "body"
      /\ ~ Upgrades /\ ~ AsksForText => mode' = "talk"
      /\ task \in {"command", "data"} /\ q.verb = "RCPT" /\ code = 502 => heard.txn = 0
      /\ step' = IF sender = None THEN step ELSE NextStep(q.verb, code)
      /\ result' = IF sender # None /\ q.verb = "." THEN "sent" ELSE result
      /\ sender # None => ~ Fatal(q.verb, code)
      /\ UNCHANGED <<link, toServer, task, secure, sender, left, mailOf>>
  BY <1>0, HearSteps
<1>3. /\ q.verb = "MAIL" => q.txn \in Txns /\ q.txn \in 1 .. MaxTxns
      /\ heard.txn # 0 => heard.txn \in Txns
      /\ heard \in Heard
  BY <1>0, OldestWord, TypeParts DEF WireTyped
<1>4. Txns' = Txns
  BY <1>2 DEF Txns
<1> HIDE DEF q, code
<1>5. ASSUME sender # None, result # "sent"
      PROVE  /\ result = "none" /\ task # "ended" /\ asked' = <<>>
             /\ q.verb = step \/ (q.verb = "connect" /\ step = "EHLO")
             /\ task = "handshake" => toServer = <<>>
             /\ step \in {"EHLO", "HELO", "STARTTLS", "MAIL"} => left = Addresses
             /\ step \notin {"QUIT"}
             /\ step \in {"RCPT", "DATA", "."} => heard.txn # 0
             /\ step = "RCPT" => left \cup heard.rcpts \cup {q.addr} = Addresses
             /\ step \in {"DATA", "."} => heard.rcpts = Addresses
  <2>1. Len(asked) <= 1
    BY <1>1, <1>5 DEF Relay
  <2>2. Len(asked) = 1 /\ DOMAIN asked = {1} /\ Tail(asked) = <<>>
    <3>1. Len(asked) \in Nat /\ Len(asked) > 0 /\ DOMAIN asked = 1 .. Len(asked)
          /\ Len(Tail(asked)) = Len(asked) - 1 /\ Tail(asked) \in Seq(Item)
      BY <1>1, TailFacts
    <3>2. Len(asked) = 1
      BY <2>1, <3>1
    <3>3. QED
      BY <3>1, <3>2, EmptyFacts
  <2>3. asked' = <<>>
    BY <1>2, <2>2
  <2>4. {p.addr : p \in {asked[i] : i \in DOMAIN asked}} = {q.addr}
    BY <2>2 DEF q
  <2>5. /\ result = "none" /\ task # "ended"
        /\ asked[1].verb = step \/ (asked[1].verb = "connect" /\ step = "EHLO")
        /\ task = "handshake" => toServer = <<>>
        /\ step \in {"EHLO", "HELO", "STARTTLS", "MAIL"} => left = Addresses
        /\ step \notin {"QUIT"}
        /\ step \in {"RCPT", "DATA", "."} => heard.txn # 0
        /\ step = "RCPT" => left \cup heard.rcpts \cup {p.addr : p \in {asked[i] : i \in DOMAIN asked}}
                              = Addresses
        /\ step \in {"DATA", "."} => heard.rcpts = Addresses
    BY <1>1, <1>5 DEF Relay
  <2>6. QED
    BY <2>3, <2>4, <2>5 DEF q
<1>6. SentToAll'
  <2>1. acked \subseteq acked'
    BY <1>2
  <2>2. CASE result = "sent"
    <3>1. PICK t \in Txns : \A a \in Addresses : <<t, a>> \in acked
      BY <2>2 DEF Relay, SentToAll
    <3>2. QED
      BY <1>4, <2>1, <3>1 DEF SentToAll
  <2>3. CASE result # "sent" /\ sender # None /\ q.verb = "."
    <3>1. Ok(code)
      BY <1>2, <2>3 DEF Fatal
    <3>2. step = "."
      BY <1>5, <2>3
    <3>3. heard.txn # 0 /\ heard.rcpts = Addresses
      BY <1>5, <2>3, <3>2
    <3>4. heard.txn \in Txns'
      BY <1>3, <1>4, <3>3
    <3>5. \A a \in Addresses : <<heard.txn, a>> \in acked'
      BY <1>2, <2>3, <3>1, <3>3
    <3>6. QED
      BY <3>4, <3>5 DEF SentToAll
  <2>4. CASE result # "sent" /\ ~ (sender # None /\ q.verb = ".")
    BY <1>2, <2>4 DEF SentToAll
  <2>5. QED
    BY <2>2, <2>3, <2>4
<1>7. SUFFICES ASSUME sender # None, result # "sent", q.verb # "."
               PROVE  /\ result' = "none" /\ task' # "ended" /\ asked' = <<>>
                      /\ step' = "STARTTLS" => ~ secure'
                      /\ mode' = "tls" => step' = "EHLO"
                      /\ mode' = "body" => step' = "."
                      /\ task' = "handshake" => toServer' = <<>>
                      /\ step' \in {"EHLO", "HELO", "STARTTLS", "MAIL"} => left' = Addresses
                      /\ step' \notin {"QUIT"}
                      /\ step' \in {"RCPT", "DATA", "."} => heard'.txn # 0
                      /\ step' = "RCPT" => left' \cup heard'.rcpts = Addresses
                      /\ step' \in {"DATA", "."} => heard'.rcpts = Addresses
  <2>1. result' # "sent" /\ sender' # None => result # "sent" /\ q.verb # "."
    BY <1>2
  <2>2. asked' = <<>> => Len(asked') = 0 /\ {p.addr : p \in {asked'[i] : i \in DOMAIN asked'}} = {}
    OBVIOUS
  <2>3. QED
    BY <1>2, <1>6, <1>7, <2>1, <2>2 DEF Relay
<1>8. step' = NextStep(q.verb, code) /\ ~ Fatal(q.verb, code) /\ result' = result
  BY <1>2, <1>7
<1>9. /\ q.verb = step \/ (q.verb = "connect" /\ step = "EHLO")
      /\ step \in {"EHLO", "HELO", "STARTTLS", "MAIL"} => left = Addresses
      /\ step \notin {"QUIT"} /\ asked' = <<>> /\ result = "none" /\ task # "ended"
      /\ task = "handshake" => toServer = <<>>
      /\ step \in {"RCPT", "DATA", "."} => heard.txn # 0
      /\ step = "RCPT" => left \cup heard.rcpts \cup {q.addr} = Addresses
      /\ step \in {"DATA", "."} => heard.rcpts = Addresses
  BY <1>5, <1>7
<1>10. q.verb \in {"connect", "EHLO", "HELO", "STARTTLS", "MAIL", "RCPT", "DATA"}
  <2>1. step \in {"EHLO", "HELO", "STARTTLS", "MAIL", "RCPT", "DATA", ".", "QUIT"}
    BY TypeParts DEF ClientTyped
  <2>2. QED
    BY <1>7, <1>9, <2>1
<1>11. CASE q.verb \in {"connect", "EHLO", "HELO", "STARTTLS"}
  <2>1. left = Addresses
    <3>1. step \in {"EHLO", "HELO", "STARTTLS"}
      <4>1. q.verb = step \/ step = "EHLO"
        BY <1>9
      <4>2. step # "connect"
        BY TypeParts DEF ClientTyped
      <4>3. QED
        BY <1>11, <4>1, <4>2
    <3>2. step \in {"EHLO", "HELO", "STARTTLS", "MAIL"} => left = Addresses
      BY <1>9
    <3>3. QED
      BY <3>1, <3>2
  <2>2. /\ step' \in {"EHLO", "HELO", "STARTTLS", "MAIL"}
        /\ step' = "STARTTLS" => ~ secure
        /\ q.verb = "STARTTLS" /\ Ok(code) => step' = "EHLO"
    BY <1>8, <1>11 DEF NextStep
  <2>3. mode' # "body"
    BY <1>1, <1>2, <1>11
  <2>4. mode' = "tls" => Upgrades
    BY <1>1, <1>2
  <2>5. QED
    BY <1>1, <1>2, <1>8, <1>9, <2>1, <2>2, <2>3, <2>4
<1>12. mode' = "tls" => q.verb = "STARTTLS"
  BY <1>1, <1>2
<1>13. mode' = "body" => q.verb = "DATA"
  BY <1>1, <1>2
<1>14. CASE q.verb = "MAIL"
  <2>1. Ok(code)
    BY <1>8, <1>14 DEF Fatal
  <2>2. heard' = [txn |-> q.txn, rcpts |-> {}]
    BY <1>2, <1>14, <2>1 DEF After
  <2>3. q.txn # 0
    <3>1. q.txn \in 1 .. MaxTxns
      BY <1>3, <1>14 DEF q
    <3>2. QED
      BY <3>1
  <2>4. left = Addresses
    BY <1>9, <1>14
  <2>5. step' = IF left = {} THEN "DATA" ELSE "RCPT"
    BY <1>8, <1>14 DEF NextStep
  <2>6. QED
    BY <1>2, <1>8, <1>9, <1>12, <1>13, <1>14, <2>2, <2>3, <2>4, <2>5
<1>15. CASE q.verb = "RCPT"
  <2>1. step = "RCPT" /\ heard.txn # 0
    BY <1>9, <1>15
  <2>2. task \in {"command", "data"}
    <3>1. ~ AsksForText /\ ~ Upgrades /\ ~ LastIs("STARTTLS", 220)
      <4>1. ~ AsksForText /\ ~ Upgrades
        BY <1>1, <1>15
      <4>2. Len(asked) = 1
        <5>1. Len(asked) \in Nat /\ Len(asked) > 0
          BY <1>1, TailFacts
        <5>2. Len(asked) <= 1
          BY <1>1, <1>7 DEF Relay
        <5>3. \A i \in Nat : i > 0 /\ i <= 1 => i = 1
          OBVIOUS
        <5>4. QED
          BY <5>1, <5>2, <5>3
      <4>3. ASSUME LastIs("STARTTLS", 220) PROVE FALSE
        <5>1. Len(toClient) = 1 /\ asked[Len(toClient)].verb = "STARTTLS"
          BY <1>1, <4>2, <4>3 DEF LastIs
        <5>2. asked[1].verb = "STARTTLS"
          BY <5>1
        <5>3. QED
          BY <1>15, <5>2 DEF q
      <4>4. QED
        BY <4>1, <4>3
    <3>2. task # "handshake"
      BY <1>1, <3>1 DEF Sync, InHandshake
    <3>3. QED
      BY <1>1, <1>9, <3>2
  <2>3. code = 250
    <3>1. Plain(1)
      BY <1>1, <1>9, <1>15 DEF Dismisses
    <3>2. code \in {250, 502}
      BY <1>15, <3>1, SomeAnswers DEF Plain, q, code
    <3>3. QED
      BY <1>2, <1>15, <2>1, <2>2, <3>2
  <2>4. Ok(code)
    BY <1>1, <2>3, CodeClasses
  <2>5. heard' = [heard EXCEPT !.rcpts = @ \cup {q.addr}]
    BY <1>2, <1>15, <2>4 DEF After
  <2>6. heard'.txn = heard.txn /\ heard'.rcpts = heard.rcpts \cup {q.addr}
    BY <1>3, <2>5 DEF Heard
  <2>7. step' = IF left = {} THEN "DATA" ELSE "RCPT"
    BY <1>8, <1>15 DEF NextStep
  <2>8. left \cup heard'.rcpts = Addresses
    BY <1>9, <2>1, <2>6
  <2>9. QED
    BY <1>2, <1>8, <1>9, <1>12, <1>13, <1>15, <2>1, <2>6, <2>7, <2>8
<1>16. CASE q.verb = "DATA"
  <2>1. Class(code) = 3
    BY <1>8, <1>16 DEF Fatal
  <2>2. ~ Ok(code)
    BY <2>1 DEF Ok
  <2>3. heard' = heard
    BY <1>2, <2>2, RefusalStays
  <2>4. step' = "."
    BY <1>8, <1>16 DEF NextStep
  <2>5. step = "DATA"
    BY <1>9, <1>16
  <2>6. QED
    BY <1>2, <1>8, <1>9, <1>12, <1>16, <2>3, <2>4, <2>5
<1>17. QED
  BY <1>10, <1>11, <1>14, <1>15, <1>16

LEMMA HearIInv ==
    ASSUME IInv, Hear
    PROVE  IInv'
  BY HearTyped, HearSync, HearTrace, HearAcks, HearRelay DEF IInv

-----------------------------------------------------------------------------
(* The whole conversation.                                                   *)

LEMMA InitIInv == Init => IInv
<1>1. SUFFICES ASSUME Init PROVE IInv
  OBVIOUS
<1>2. InitServer /\ InitClient
  BY <1>1 DEF Init
<1>3. /\ link = "closed" /\ toServer = <<>> /\ toClient = <<>>
      /\ task = "ended" /\ secure = FALSE
      /\ greeted = FALSE /\ from = 0 /\ rcpts = <<>>
      /\ errors = 0 /\ got = <<>> /\ todo = <<>>
      /\ tls \in BOOLEAN /\ route \in [Addresses -> Accounts \cup {None}]
      /\ store = [a \in Accounts |-> {}] /\ activity = {} /\ now = 0
      /\ whole = {} /\ excused = {} /\ reroutes = 0 /\ failures = 0
  BY <1>2 DEF InitServer
<1>4. /\ sender \in Mails \cup {None} /\ mode = "gone"
      /\ asked = <<>> /\ heard = Nothing /\ body = <<>>
      /\ step = "EHLO" /\ left = {} /\ result = "none"
      /\ mailOf = [t \in 1 .. MaxTxns |-> None]
      /\ wanted = {} /\ inClear = {} /\ acked = {} /\ spoken = 0 /\ conns = 0
  BY <1>2 DEF InitClient
<1>5. MaxTxns \in Nat /\ MaxNow \in Nat /\ ErrorThreshold \in Nat
  BY SmtpAssumption, SessionAssumption
<1>6. Txns = {} /\ Current = 0 /\ heard.txn = 0
  <2>1. Txns = {}
    BY <1>4 DEF Txns
  <2>2. Current = 0
    BY <2>1, FS_EmptySet DEF Current
  <2>3. QED
    BY <1>4, <2>1, <2>2 DEF Nothing
<1>7. TypeOK
  <2>1. heard \in Heard
    BY <1>4, <1>5 DEF Nothing, Heard
  <2>2. /\ toServer \in Seq(Item) /\ asked \in Seq(Item) /\ toClient \in Seq(Codes) /\ body \in Seq(Line)
        /\ rcpts \in Seq(Addresses) /\ todo \in Seq(Addresses) /\ got \in Seq(Line)
    BY <1>3, <1>4
  <2>3. WireTyped
    BY <1>3, <1>4, <2>1, <2>2 DEF WireTyped
  <2>4. SessionTyped
    <3>1. 0 \in 0 .. MaxTxns /\ 0 \in 0 .. ErrorThreshold + 1
      BY <1>5
    <3>2. QED
      BY <1>3, <2>2, <3>1 DEF SessionTyped
  <2>5. RelayTyped
    BY <1>3, <1>5 DEF RelayTyped
  <2>6. ClientTyped
    BY <1>4 DEF ClientTyped
  <2>7. RecordTyped
    BY <1>4 DEF RecordTyped
  <2>8. QED
    BY <2>3, <2>4, <2>5, <2>6, <2>7, TypeParts
<1>8. Bounded /\ Trace /\ Acks /\ Relay
  BY <1>3, <1>4 DEF Bounded, Trace, Acks, Relay, SentToAll
<1>9. ServerSide
  <2>1. Numbered
    <3>1. \A t \in 1 .. MaxTxns : ~ t <= 0
      BY <1>5
    <3>2. \A t \in 1 .. MaxTxns : mailOf[t] = None
      BY <1>4
    <3>3. QED
      BY <1>3, <1>4, <1>5, <1>6, <3>1, <3>2 DEF Numbered
  <2>2. Envelope /\ Message /\ ~ Reading
    BY <1>3 DEF Envelope, Message, Reading
  <2>3. Filed
    BY <1>3 DEF Filed
  <2>4. QED
    BY <2>1, <2>2, <2>3 DEF ServerSide
<1>10. Sync
  BY <1>3, <1>4 DEF Sync, Quiet, AskedWords
<1>11. QED
  BY <1>7, <1>8, <1>9, <1>10 DEF IInv

LEMMA StepIInv == IInv /\ [Next]_vars => IInv'
<1>1. SUFFICES ASSUME IInv, [Next]_vars PROVE IInv'
  OBVIOUS
<1>2. CASE ServerNext /\ UNCHANGED clientVars
  BY <1>1, <1>2, ServerIInv
<1>3. CASE OtherSays
  BY <1>1, <1>3, OtherSaysIInv
<1>4. CASE RelaySays
  BY <1>1, <1>4, RelaySaysIInv
<1>5. CASE SayBody
  BY <1>1, <1>5, SayBodyIInv
<1>6. CASE Hear
  BY <1>1, <1>6, HearIInv
<1>7. CASE RelayLeaves
  <2>1. Leave("fin") /\ result' \in {result, "rejected"}
    BY <1>7 DEF RelayLeaves
  <2>2. QED
    BY <1>1, <2>1, LeaveIInv
<1>8. CASE Handshake
  BY <1>1, <1>8, HandshakeIInv
<1>9. CASE Close
  BY <1>1, <1>9, CloseIInv
<1>10. CASE HangsUp
  <2>1. PICK how \in {"fin", "broken"} : Leave(how) /\ UNCHANGED result
    BY <1>10 DEF HangsUp
  <2>2. QED
    BY <1>1, <2>1, LeaveIInv
<1>11. CASE Connect
  BY <1>1, <1>11, ConnectIInv
<1>12. CASE UNCHANGED vars
  BY <1>1, <1>12, StutterIInv
<1>13. QED
  BY <1>1, <1>2, <1>3, <1>4, <1>5, <1>6, <1>7, <1>8, <1>9, <1>10, <1>11, <1>12 DEF Next, Client

-----------------------------------------------------------------------------
(* The conversation of two processes over a connection that either may leave *)
(* and that may break, for any mails, addresses, accounts and bounds.        *)
THEOREM SessionInvariant == Spec => []IInv
  BY InitIInv, StepIInv, PTL DEF Spec

(* Every variable keeps its type.                                            *)
THEOREM TypeCorrect == Spec => []TypeOK
<1>1. IInv => TypeOK
  BY DEF IInv
<1>2. QED
  BY <1>1, SessionInvariant, PTL

(* InStep: whatever the client pipelines, and across STARTTLS, the replies    *)
(* on their way answer its oldest open commands in order (smtp_in.rs:126).    *)
THEOREM RepliesInStep == Spec => []InStep
<1>1. IInv => InStep
  <2>1. SUFFICES ASSUME IInv, NEW i \in DOMAIN toClient
                 PROVE  \/ i <= Len(asked) /\ toClient[i] \in Answers(asked[i].verb)
                        \/ i = Len(toClient) /\ toClient[i] = 500 /\ task = "ended"
    BY DEF InStep
  <2>2. /\ toClient \in Seq(Codes) /\ i \in 1 .. Len(toClient) /\ Len(toClient) \in Nat
        /\ task \in {"banner", "command", "data", "deliver", "handshake", "ended"}
    BY <2>1, TypeParts DEF IInv, WireTyped, SessionTyped
  <2>3. link = "open" /\ ~ Silent /\ ~ Quiet
    BY <2>1, <2>2 DEF IInv, Sync, Silent, Quiet
  <2>4. 354 \in Answers("DATA") /\ 220 \in Answers("STARTTLS")
    BY SomeAnswers
  <2>5. Plain(i) => i <= Len(asked) /\ toClient[i] \in Answers(asked[i].verb)
    BY DEF Plain
  <2>6. ASSUME NEW verb, NEW code, code \in Answers(verb), LastIs(verb, code)
        PROVE  i <= Len(asked) /\ toClient[i] \in Answers(asked[i].verb)
    <3>1. CASE i = Len(toClient)
      BY <2>6, <3>1 DEF LastIs
    <3>2. CASE i # Len(toClient)
      <4>1. i \in 1 .. Len(toClient) - 1
        BY <2>2, <3>2
      <4>2. QED
        BY <2>5, <2>6, <4>1 DEF LastIs
    <3>3. QED
      BY <3>1, <3>2
  <2>7. CASE task = "command"
    BY <2>1, <2>3, <2>5, <2>7 DEF IInv, Sync, InCommand, AllPlain
  <2>8. CASE task = "data"
    BY <2>1, <2>3, <2>4, <2>6, <2>8 DEF IInv, Sync, InData
  <2>9. CASE task = "handshake"
    BY <2>1, <2>3, <2>4, <2>6, <2>9 DEF IInv, Sync, InHandshake
  <2>10. CASE task = "ended"
    <3>1. InEnd
      BY <2>1, <2>3, <2>10 DEF IInv, Sync
    <3>2. QED
      BY <2>1, <2>4, <2>5, <2>10, <3>1 DEF InEnd
  <2>11. task \notin {"banner", "deliver"}
    BY <2>1, <2>3 DEF IInv, Sync, InBanner, InDeliver, AtDot
  <2>12. QED
    BY <2>2, <2>7, <2>8, <2>9, <2>10, <2>11
<1>2. QED
  BY <1>1, SessionInvariant, PTL

(* OnlyAskedFor: what is filed is what was asked for in its own transaction,  *)
(* and nothing negotiated before the upgrade outlives it (smtp_in.rs:109).    *)
THEOREM FiledAsAsked == Spec => []OnlyAskedFor
<1>1. IInv => OnlyAskedFor
  BY DEF IInv, ServerSide, Filed, Envelope, OnlyAskedFor
<1>2. QED
  BY <1>1, SessionInvariant, PTL

(* AckedIsKept: what the client has its 250 for is in a mailbox, logged as    *)
(* failed or excused, and what is filed is what was sent (delivery.rs:29).    *)
THEOREM KeptOnceAcked == Spec => []AckedIsKept
<1>1. IInv => AckedIsKept
  <2>1. SUFFICES ASSUME IInv PROVE AckedIsKept
    OBVIOUS
  <2>2. ASSUME NEW ack \in acked
        PROVE  \/ \E t \in Txns : mailOf[t] = mailOf[ack[1]] /\ <<t, ack[2]>> \in excused
               \/ \E a \in Accounts : \E c \in store[a] :
                      c.mail = mailOf[ack[1]] /\ c.lines = Body[c.mail]
               \/ \E a \in Accounts : <<a, ack[1], "failed">> \in activity
    <3>1. Kept(ack[1], ack[2])
      BY <2>1, <2>2 DEF IInv, Acks
    <3>2. QED
      BY <3>1 DEF Kept
  <2>3. ASSUME NEW a \in Accounts, NEW c \in store[a]
        PROVE  /\ IsPrefix(c.lines, Body[c.mail])
               /\ c.txn \in whole => c.lines = Body[c.mail]
               /\ c.mail \in WithId => \A d \in store[a] : d.mail = c.mail => d = c
    <3>1. /\ Len(c.lines) <= Len(Body[c.mail])
          /\ \A i \in DOMAIN c.lines : c.lines[i] = Body[c.mail][i]
          /\ c.txn \in whole => c.lines = Body[c.mail]
          /\ \A d \in store[a] : d.id = IF d.mail \in WithId THEN <<d.mail, 0>> ELSE <<None, d.id[2]>>
          /\ \A d \in store[a] : d.id = c.id => d = c
      BY <2>1, <2>3 DEF IInv, ServerSide, Filed
    <3>2. c \in Copy
      BY <2>1, <2>3, TypeParts DEF IInv, RelayTyped
    <3>3. c.lines \in Seq(Line) /\ Body[c.mail] \in Seq(Line)
      BY <3>2, SessionAssumption DEF Copy
    <3>4. IsPrefix(c.lines, Body[c.mail])
      BY <3>1, <3>3 DEF IsPrefix
    <3>5. ASSUME c.mail \in WithId, NEW d \in store[a], d.mail = c.mail PROVE d = c
      BY <3>1, <3>5
    <3>6. QED
      BY <3>1, <3>4, <3>5
  <2>4. QED
    BY <2>2, <2>3 DEF AckedIsKept
<1>2. QED
  BY <1>1, SessionInvariant, PTL

(* SentToAll: Ok from send_one means that every recipient of the message was  *)
(* named and taken in one transaction (smtp_out.rs).                          *)
THEOREM SentMeansAll == Spec => []SentToAll
<1>1. IInv => SentToAll
  BY DEF IInv, Relay
<1>2. QED
  BY <1>1, SessionInvariant, PTL

=============================================================================
