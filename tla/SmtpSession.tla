---------------------------- MODULE SmtpSession ----------------------------
(* An inbound session with the client at its other end.  The client is       *)
(* either another relay of this code, which follows Sender::send_one of      *)
(* smtp_out.rs one command and one reply at a time, or any other one, which  *)
(* pipelines, repeats itself, makes mistakes and hangs up.  The client of    *)
(* either kind counts a reply towards the oldest command it has no answer    *)
(* to: SMTP has nothing else that ties the two together.                     *)
EXTENDS SmtpServer, SequencesExt

CONSTANTS
    Body,            \* the lines of each mail
    Vocabulary,      \* the words the other kind of client uses besides MAIL and RCPT
    Oddities,        \* those of them that count twice towards MaxCommands
    Window,          \* bound: commands it has under way at a time
    MaxCommands,     \* bound: commands of all its connections
    MaxTxns,         \* bound: MAIL commands
    MaxConnections   \* bound: attempts of a relay; another client makes one

ASSUME SessionAssumption ==
    /\ Body \in [Mails -> Seq(Line)] /\ \A m \in Mails : Body[m] # <<>>
    /\ \A m \in Mails : \A i \in DOMAIN Body[m] : Body[m][i].mail = m
    /\ Oddities \subseteq Vocabulary
    /\ Vocabulary \subseteq Verbs \ {"connect", "MAIL", "RCPT", "line", "."}
    /\ {Window, MaxCommands, MaxTxns, MaxConnections} \subseteq Nat

VARIABLES
    sender,     \* the mail a relay at the other end sends, None for another client
    mode,       \* "talk", "body", "tls", "gone"
    asked,      \* commands without an answer, oldest first
    heard,      \* the transaction as the replies tell it: its number, the recipients taken
    body,       \* the message the 354 has asked for
    step,       \* what send_one sends next
    left,       \* the recipients send_one has not named yet
    result,     \* of send_one: "none", "sent", "rejected", "io"
    \* history
    mailOf,     \* the mail of each transaction
    wanted,     \* <<transaction, address>> asked for
    inClear,    \* transactions asked for without TLS
    acked,      \* <<transaction, address>> the client has its 250 for
    spoken, conns

script     == <<step, left, result>>
record     == <<mailOf, wanted, inClear>>
clientVars == <<sender, mode, asked, heard, body, script, record, acked, spoken, conns>>
\* What the server keeps to itself.
serverOwn  == <<session, errors, got, todo, relay, history, bounds>>
vars == <<serverVars, clientVars>>

Nothing == [txn |-> 0, rcpts |-> {}]
Txns == {t \in 1 .. MaxTxns : mailOf[t] # None}
Current == Cardinality(Txns)

InitClient ==
    /\ sender \in Mails \cup {None}
    /\ mode = "gone"
    /\ asked = <<>> /\ heard = Nothing /\ body = <<>>
    /\ step = "EHLO" /\ left = {} /\ result = "none"
    /\ mailOf = [t \in 1 .. MaxTxns |-> None]
    /\ wanted = {} /\ inClear = {} /\ acked = {}
    /\ spoken = 0 /\ conns = 0

Init == InitServer /\ InitClient

-----------------------------------------------------------------------------
(* The connection.                                                         *)

\* accept, and serve_session for it.
Connect ==
    /\ link = "closed" /\ result # "sent"
    /\ conns < IF sender = None THEN 1 ELSE MaxConnections
    /\ conns' = conns + 1
    /\ link' = "open" /\ task' = "banner" /\ secure' = FALSE
    /\ mode' = "talk" /\ asked' = <<Cmd("connect")>> /\ heard' = Nothing /\ body' = <<>>
    /\ step' = "EHLO" /\ left' = Addresses /\ result' = "none"
    /\ UNCHANGED <<toServer, toClient, serverOwn, sender, record, acked, spoken>>

\* The client goes: what it has sent arrives up to some point, or the connection is reset.
Leave(how) ==
    /\ link = "open" /\ mode # "gone"
    /\ link' = how
    /\ \E n \in 0 .. Len(toServer) : toServer' = IF how = "fin" THEN SubSeq(toServer, 1, n) ELSE <<>>
    /\ toClient' = <<>>
    /\ mode' = "gone" /\ asked' = <<>> /\ body' = <<>>
    /\ UNCHANGED <<task, secure, serverOwn, sender, heard, step, left, record, acked, spoken, conns>>

HangsUp == \E how \in {"fin", "broken"} : Leave(how) /\ UNCHANGED result

\* The server has dropped the socket and the client has read what was in it.
Close ==
    /\ task = "ended" /\ link # "closed"
    /\ mode = "gone" \/ toClient = <<>>
    /\ link' = "closed" /\ toServer' = <<>> /\ toClient' = <<>>
    /\ mode' = "gone" /\ asked' = <<>> /\ body' = <<>>
    /\ result' = IF result = "none" THEN "io" ELSE result
    /\ UNCHANGED <<task, secure, serverOwn, sender, heard, step, left, record, acked, spoken, conns>>

\* The handshake both ends have come to, with nothing else on the wire.
Handshake ==
    /\ task = "handshake" /\ mode = "tls" /\ link = "open"
    /\ toServer = <<>> /\ toClient = <<>>
    /\ secure' = TRUE /\ task' = "banner"
    /\ mode' = "talk"
    /\ UNCHANGED <<wire, serverOwn, sender, asked, heard, body, script, record, acked, spoken, conns>>

-----------------------------------------------------------------------------
(* What a client says.                                                     *)

Send(item) ==
    /\ mode = "talk" /\ link = "open"
    /\ toServer' = Append(toServer, item)
    /\ asked' = Append(asked, item)
    /\ UNCHANGED <<link, toClient, task, secure, serverOwn, sender, mode, heard, body,
                   result, acked, conns>>

MailItem(t) == [Cmd("MAIL") EXCEPT !.txn = t]
RcptItem(a) == [Cmd("RCPT") EXCEPT !.addr = a]

SayMail(mail) ==
    LET t == Current + 1
    IN  /\ t <= MaxTxns
        /\ Send(MailItem(t))
        /\ mailOf' = [mailOf EXCEPT ![t] = mail]
        /\ inClear' = IF secure THEN inClear ELSE inClear \cup {t}
        /\ UNCHANGED wanted

SayRcpt(a) ==
    /\ Send(RcptItem(a))
    /\ wanted' = wanted \cup {<<Current, a>>}
    /\ UNCHANGED <<mailOf, inClear>>

SayWord(verb) == Send(Cmd(verb)) /\ UNCHANGED record

\* Another client: anything, pipelined, but nothing behind DATA or QUIT.
OtherSays ==
    /\ sender = None
    /\ Len(asked) < Window
    /\ asked # <<>> => Last(asked).verb \notin {"DATA", "QUIT"}
    /\ \/ (\E mail \in Mails : SayMail(mail)) /\ spoken' = spoken + 1
       \/ (\E a \in Addresses : SayRcpt(a)) /\ spoken' = spoken + 1
       \/ \E verb \in Vocabulary :
              SayWord(verb) /\ spoken' = spoken + (IF verb \in Oddities THEN 2 ELSE 1)
    /\ spoken' <= MaxCommands
    /\ UNCHANGED <<step, left>>

\* send_one, greet and converse write one command.
RelaySays ==
    /\ sender # None /\ asked = <<>>
    /\ result = "sent" => step = "QUIT"
    /\ \/ step = "MAIL" /\ SayMail(sender) /\ UNCHANGED left
       \/ step = "RCPT" /\ \E a \in left : SayRcpt(a) /\ left' = left \ {a}
       \/ step \notin {"MAIL", "RCPT", "."} /\ SayWord(step) /\ UNCHANGED left
    /\ UNCHANGED <<step, spoken>>

\* dot_stuff.
Stuff(l) == [l EXCEPT !.dots = IF @ > 0 THEN @ + 1 ELSE @]

LineItem(l) == [Cmd("line") EXCEPT !.line = l]
DotItem == [Cmd(".") EXCEPT !.line = Dot]

\* The message and the dot.
SayBody ==
    /\ mode = "body" /\ link = "open"
    /\ toServer' = toServer \o [i \in DOMAIN body |-> LineItem(Stuff(body[i]))] \o <<DotItem>>
    /\ asked' = Append(asked, DotItem)
    /\ mode' = "talk" /\ body' = <<>>
    /\ UNCHANGED <<link, toClient, task, secure, serverOwn, sender, heard, script, record, acked,
                   spoken, conns>>

-----------------------------------------------------------------------------
(* What a client hears.                                                    *)

Class(code) == code \div 100
Ok(code) == Class(code) = 2

\* The transaction h as the client knows it after this answer to q.
After(h, q, code) ==
    IF ~ Ok(code) THEN h
    ELSE CASE q.verb = "MAIL" -> [txn |-> q.txn, rcpts |-> {}]
           [] q.verb = "RCPT" -> [h EXCEPT !.rcpts = @ \cup {q.addr}]
           [] q.verb \in {"EHLO", "HELO", "RSET", ".", "STARTTLS"} -> Nothing
           [] OTHER -> h

\* Mutant: the recipients after the first are not named.
NextStepFirstOnly(verb, code) ==
    CASE verb = "EHLO" -> IF secure THEN "MAIL" ELSE "STARTTLS"
      [] verb = "STARTTLS" -> IF Ok(code) THEN "EHLO" ELSE "MAIL"
      [] verb = "MAIL" -> "RCPT"
      [] verb = "RCPT" -> "DATA"
      [] verb = "DATA" -> "."
      [] verb = "." -> "QUIT"
      [] OTHER -> "EHLO"

(* The order of send_one.  Our server always advertises STARTTLS before the  *)
(* upgrade and never after it; a STARTTLS it refuses leaves the plaintext.   *)
NextStep(verb, code) ==
    CASE verb = "EHLO" -> IF ~ Ok(code) THEN "HELO" ELSE IF secure THEN "MAIL" ELSE "STARTTLS"
      [] verb = "HELO" -> "MAIL"
      [] verb = "STARTTLS" -> IF Ok(code) THEN "EHLO" ELSE "MAIL"
      [] verb = "MAIL" -> IF left = {} THEN "DATA" ELSE "RCPT"
      [] verb = "RCPT" -> IF left = {} THEN "DATA" ELSE "RCPT"
      [] verb = "DATA" -> "."
      [] verb = "." -> "QUIT"
      [] OTHER -> "EHLO"

\* check: the replies that end send_one with an error.
Fatal(verb, code) ==
    \/ verb \in {"connect", "HELO", "MAIL", "."} /\ ~ Ok(code)
    \/ verb = "DATA" /\ Class(code) # 3
    \/ verb = "STARTTLS" /\ Ok(code) /\ Len(toClient) > 1

Hear ==
    LET code == Head(toClient)
        q == Head(asked)
    IN  /\ toClient # <<>> /\ mode \in {"talk", "body"} /\ asked # <<>>
        /\ ~ (sender # None /\ Fatal(q.verb, code))
        /\ toClient' = Tail(toClient)
        /\ heard' = After(heard, q, code)
        /\ acked' = IF q.verb = "." /\ Ok(code)
                    THEN acked \cup {<<heard.txn, a>> : a \in heard.rcpts} ELSE acked
        /\ IF q.verb = "STARTTLS" /\ Ok(code)
           THEN mode' = "tls" /\ asked' = <<>> /\ UNCHANGED body
           ELSE /\ asked' = Tail(asked)
                /\ IF q.verb = "DATA" /\ Class(code) = 3 /\ heard.txn # 0
                   THEN mode' = "body" /\ body' = Body[mailOf[heard.txn]]
                   ELSE UNCHANGED <<mode, body>>
        /\ step' = IF sender = None THEN step ELSE NextStep(q.verb, code)
        /\ result' = IF sender # None /\ q.verb = "." THEN "sent" ELSE result
        /\ UNCHANGED <<link, toServer, task, secure, serverOwn, sender, left, record, spoken, conns>>

\* send_one returns the error, or is done after its QUIT, and the socket is dropped.
RelayLeaves ==
    /\ sender # None
    /\ \/ /\ toClient # <<>> /\ asked # <<>>
          /\ Fatal(Head(asked).verb, Head(toClient))
          /\ result' = "rejected"
       \/ result = "sent" /\ asked = <<>> /\ step = "EHLO" /\ UNCHANGED result
    /\ Leave("fin")

Client == OtherSays \/ RelaySays \/ SayBody \/ Hear \/ RelayLeaves \/ Handshake \/ Close

Next ==
    \/ ServerNext /\ UNCHANGED clientVars
    \/ Client
    \/ HangsUp
    \/ Connect

Spec == Init /\ [][Next]_vars

-----------------------------------------------------------------------------
Copy == [id : (WithId \X {0}) \cup ({None} \X (0 .. MaxNow)), mail : Mails, txn : 1 .. MaxTxns,
         addr : Addresses, lines : Seq(Line)]

TypeOK ==
    /\ link \in {"closed", "open", "fin", "broken"}
    /\ toServer \in Seq(Item) /\ asked \in Seq(Item)
    /\ toClient \in Seq({220, 221, 250, 252, 354, 454, 500, 501, 502})
    /\ task \in {"banner", "command", "data", "deliver", "handshake", "ended"}
    /\ {secure, greeted, tls} \subseteq BOOLEAN
    /\ from \in 0 .. MaxTxns
    /\ rcpts \in Seq(Addresses) /\ todo \in Seq(Addresses)
    /\ errors \in 0 .. ErrorThreshold + 1
    /\ got \in Seq(Line) /\ body \in Seq(Line)
    /\ route \in [Addresses -> Accounts \cup {None}]
    /\ store \in [Accounts -> SUBSET Copy]
    /\ activity \subseteq Accounts \X (1 .. MaxTxns) \X {"ok", "failed"}
    /\ now \in 0 .. MaxNow
    /\ whole \subseteq 1 .. MaxTxns /\ excused \subseteq (1 .. MaxTxns) \X Addresses
    /\ sender \in Mails \cup {None}
    /\ mode \in {"talk", "body", "tls", "gone"}
    /\ heard \in [txn : 0 .. MaxTxns, rcpts : SUBSET Addresses]
    /\ step \in {"EHLO", "HELO", "STARTTLS", "MAIL", "RCPT", "DATA", ".", "QUIT"}
    /\ left \subseteq Addresses
    /\ result \in {"none", "sent", "rejected", "io"}
    /\ mailOf \in [1 .. MaxTxns -> Mails \cup {None}]
    /\ wanted \subseteq (0 .. MaxTxns) \X Addresses
    /\ inClear \subseteq 1 .. MaxTxns /\ acked \subseteq (1 .. MaxTxns) \X Addresses
    /\ {reroutes, failures, spoken, conns} \subseteq Nat

\* What the server may answer to each command.
Answers(verb) ==
    CASE verb = "connect" -> {220}
      [] verb \in {"EHLO", "HELO", "RSET", "NOOP", "."} -> {250}
      [] verb = "MAIL" -> {250, 502}
      [] verb = "RCPT" -> {250, 502}
      [] verb \in {"MAIL?", "RCPT?"} -> {501, 502}
      [] verb = "DATA" -> {354, 502}
      [] verb = "VRFY" -> {252}
      [] verb = "AUTH" -> {502}
      [] verb = "QUIT" -> {221}
      [] verb = "STARTTLS" -> {220, 454, 500}
      [] OTHER -> {500}

(* "Every later reply answers the previous command" must not happen          *)
(* (smtp_in.rs:126): however the client pipelines, and across STARTTLS, the   *)
(* replies on their way are answers to its oldest open commands, in order.    *)
(* Only the goodbye after too many errors comes unasked, and last.            *)
InStep ==
    \A i \in DOMAIN toClient :
        \/ i <= Len(asked) /\ toClient[i] \in Answers(asked[i].verb)
        \/ i = Len(toClient) /\ toClient[i] = 500 /\ task = "ended"

(* A message is filed for exactly what was asked in its own transaction: no   *)
(* recipient, sender or text of an earlier, a refused or a reset transaction  *)
(* gets into it (Session::reset, MAIL).  "Everything negotiated before the    *)
(* upgrade is discarded" (smtp_in.rs:109): an envelope in a TLS session was   *)
(* asked for in that session.                                                 *)
OnlyAskedFor ==
    /\ \A a \in Accounts : \A c \in store[a] :
           <<c.txn, c.addr>> \in wanted /\ c.mail = mailOf[c.txn]
    /\ secure /\ task # "banner" => from \notin inClear

(* "The sender was already told 250" (delivery.rs:29): for every recipient    *)
(* the client has its 250 for, the whole message is in a mailbox, or the      *)
(* account's activity log says that it failed, except (excused) where nobody  *)
(* was served, where the account has gone since or the message been replaced, *)
(* and where the line about a failure could not be written either.  What is   *)
(* filed is what the client had, dot-stuffing undone, up to the dot or to     *)
(* where it was cut off, and a mail that carries a Message-ID is filed once:  *)
(* a redelivery "overwrites rather than duplicating" (handler.rs:35).         *)
AckedIsKept ==
    /\ \A ack \in acked :
           \/ \E t \in Txns : mailOf[t] = mailOf[ack[1]] /\ <<t, ack[2]>> \in excused
           \/ \E a \in Accounts : \E c \in store[a] :
                  c.mail = mailOf[ack[1]] /\ c.lines = Body[c.mail]
           \/ \E a \in Accounts : <<a, ack[1], "failed">> \in activity
    /\ \A a \in Accounts : \A c \in store[a] :
           /\ IsPrefix(c.lines, Body[c.mail])
           /\ c.txn \in whole => c.lines = Body[c.mail]
           /\ c.mail \in WithId => \A d \in store[a] : d.mail = c.mail => d = c

(* A message whose connection ended before the dot is what the caller of      *)
(* read_data "then discards" (smtp_in.rs:480): nothing of it is in a mailbox. *)
CutIsDiscarded == \A a \in Accounts : \A c \in store[a] : c.txn \in whole

(* Ok from send_one means that every recipient has been named and taken.      *)
SentToAll ==
    result = "sent" => \E t \in Txns : \A a \in Addresses : <<t, a>> \in acked

(* Between two relays of this code the conversation goes on until one of them *)
(* closes it: they never wait for each other, neither has a timeout.          *)
NoStandoff ==
    sender # None /\ link = "open" => ENABLED (SessionTask /\ UNCHANGED clientVars) \/ ENABLED Client

=============================================================================
