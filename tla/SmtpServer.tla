---------------------------- MODULE SmtpServer ----------------------------
(* One inbound SMTP session (smtp_in.rs) and the delivery behind it         *)
(* (delivery.rs): the session task reads what the connection brings, one    *)
(* command or one line of DATA at a time, answers it, and hands a finished  *)
(* message to the accounts of its recipients, whose table other threads     *)
(* change meanwhile.  STARTTLS ends one session and starts the next one on  *)
(* the same connection (serve_session).                                     *)
EXTENDS Integers, Sequences, FiniteSets

CONSTANTS
    Addresses,        \* what RCPT may name
    Accounts,
    Mails,            \* what a client may send
    WithId,           \* the mails that carry a Message-ID
    None,
    ErrorThreshold,   \* smtp_in.rs's constant, smaller here
    MaxReroutes,      \* bound: account deletions and alias changes
    MaxFailures,      \* bound: deliveries that are refused, or that cannot be logged
    MaxNow            \* bound: the clock a message without Message-ID is named by

ASSUME SmtpAssumption ==
    /\ WithId \subseteq Mails
    /\ None \notin Accounts \cup Addresses \cup Mails
    /\ {ErrorThreshold, MaxReroutes, MaxFailures, MaxNow} \subseteq Nat

(* A line of a message: whose it is, the dots it begins with, and whether   *)
(* anything follows them.                                                   *)
Line == [mail : Mails \cup {None}, dots : Nat, text : BOOLEAN]
Blank == [mail |-> None, dots |-> 0, text |-> FALSE]
Dot == [Blank EXCEPT !.dots = 1]

Verbs == {"connect", "EHLO", "HELO", "MAIL", "MAIL?", "RCPT", "RCPT?", "DATA", "RSET", "NOOP",
          "VRFY", "AUTH", "QUIT", "STARTTLS", "", "XYZZ", "BADSHAPE", "line", "."}
Item == [verb : Verbs, txn : Nat, addr : Addresses \cup {None}, line : Line]
Cmd(verb) == [verb |-> verb, txn |-> 0, addr |-> None, line |-> Blank]

VARIABLES
    \* the connection
    link,       \* "closed", "open", "fin" (the client has closed its side), "broken"
    toServer,   \* sent by the client and not yet read
    toClient,   \* replies not yet read
    \* the session task
    task,       \* "banner", "command", "data", "deliver", "handshake", "ended"
    secure,     \* the session runs over TLS
    greeted, from, rcpts, errors,
    got,        \* the lines read_data has so far
    todo,       \* the recipients deliver has not come to yet
    \* the relay
    tls,        \* inbound_tls::server_config found a certificate
    route,      \* Accounts::resolve
    store,      \* the messages of each account
    activity,   \* <<account, transaction, result>> of the activity log
    now,
    \* history
    whole,      \* transactions whose DATA ended with the dot
    excused,    \* <<transaction, address>> that cannot be held against the relay
    reroutes, failures

wire    == <<link, toServer, toClient>>
session == <<greeted, from, rcpts>>
relay   == <<tls, route, store, activity, now>>
history == <<whole, excused>>
bounds  == <<reroutes, failures>>
serverVars == <<wire, task, secure, session, errors, got, todo, relay, history, bounds>>

InitServer ==
    /\ link = "closed" /\ toServer = <<>> /\ toClient = <<>>
    /\ task = "ended" /\ secure = FALSE
    /\ greeted = FALSE /\ from = 0 /\ rcpts = <<>>
    /\ errors = 0 /\ got = <<>> /\ todo = <<>>
    /\ tls \in BOOLEAN
    /\ route \in [Addresses -> Accounts \cup {None}]
    /\ store = [a \in Accounts |-> {}]
    /\ activity = {}
    /\ now = 0
    /\ whole = {} /\ excused = {}
    /\ reroutes = 0 /\ failures = 0

-----------------------------------------------------------------------------
(* Reading and answering.                                                  *)

Reads(verbs) == task = "command" /\ toServer # <<>> /\ Head(toServer).verb \in verbs
Take == toServer' = Tail(toServer)
Say(code) == toClient' = IF link # "open" THEN toClient ELSE Append(toClient, code)

\* Session::reset.
Reset == from' = 0 /\ rcpts' = <<>>

\* Mutant: the banner is left out.
OpenSilently ==
    /\ task = "banner"
    /\ greeted' = FALSE /\ Reset
    /\ errors' = 0
    /\ task' = "command"
    /\ UNCHANGED <<wire, secure, got, todo, relay, history, bounds>>

\* Mutant: the resumed session opens with the banner as well.
OpenAlways ==
    /\ task = "banner"
    /\ Say(220)
    /\ greeted' = FALSE /\ Reset
    /\ errors' = 0
    /\ task' = "command"
    /\ UNCHANGED <<link, toServer, secure, got, todo, relay, history, bounds>>

(* The start of handle_inner: a fresh Session, and the banner unless the    *)
(* session is resumed on an upgraded connection.                            *)
Open ==
    /\ task = "banner"
    /\ IF secure THEN UNCHANGED toClient ELSE Say(220)
    /\ greeted' = FALSE /\ Reset
    /\ errors' = 0
    /\ task' = "command"
    /\ UNCHANGED <<link, toServer, secure, got, todo, relay, history, bounds>>

\* A command that is answered and leaves the session as it is.
Answer(verbs, code) ==
    /\ Reads(verbs) /\ Take /\ Say(code)
    /\ UNCHANGED <<link, task, secure, session, errors, got, todo, relay, history, bounds>>

Hello ==
    /\ Reads({"EHLO", "HELO"}) /\ Take /\ Say(250)
    /\ greeted' = TRUE /\ Reset
    /\ UNCHANGED <<link, task, secure, errors, got, todo, relay, history, bounds>>

\* Mutant: a second MAIL keeps the recipients of the first.
MailKeeps ==
    /\ Reads({"MAIL"}) /\ greeted /\ Take /\ Say(250)
    /\ from' = Head(toServer).txn
    /\ UNCHANGED <<link, task, secure, greeted, rcpts, errors, got, todo, relay, history, bounds>>

Mail ==
    /\ Reads({"MAIL"}) /\ greeted /\ Take /\ Say(250)
    /\ from' = Head(toServer).txn
    /\ rcpts' = <<>>
    /\ UNCHANGED <<link, task, secure, greeted, errors, got, todo, relay, history, bounds>>

MailRefused ==
    \/ ~ greeted /\ Answer({"MAIL", "MAIL?"}, 502)
    \/ greeted /\ Answer({"MAIL?"}, 501)

(* RCPT: answered 250 whether or not the address is served; only a served   *)
(* one is kept.                                                             *)
Rcpt ==
    LET addr == Head(toServer).addr
    IN  /\ Reads({"RCPT"}) /\ from # 0 /\ Take /\ Say(250)
        /\ IF route[addr] # None
           THEN rcpts' = Append(rcpts, addr) /\ UNCHANGED excused
           ELSE excused' = excused \cup {<<from, addr>>} /\ UNCHANGED rcpts
        /\ UNCHANGED <<link, task, secure, greeted, from, errors, got, todo, relay, whole, bounds>>

RcptRefused ==
    \/ from = 0 /\ Answer({"RCPT", "RCPT?"}, 502)
    \/ from # 0 /\ Answer({"RCPT?"}, 501)

Data ==
    /\ Reads({"DATA"}) /\ from # 0 /\ Take /\ Say(354)
    /\ task' = "data" /\ got' = <<>>
    /\ UNCHANGED <<link, secure, session, errors, todo, relay, history, bounds>>

DataRefused == from = 0 /\ Answer({"DATA"}, 502)

Rset ==
    /\ Reads({"RSET"}) /\ Take /\ Say(250) /\ Reset
    /\ UNCHANGED <<link, task, secure, greeted, errors, got, todo, relay, history, bounds>>

Chat ==
    \/ Answer({"NOOP"}, 250)
    \/ Answer({"VRFY"}, 252)
    \/ Answer({"AUTH"}, 502)
    \/ ~ secure /\ ~ tls /\ Answer({"STARTTLS"}, 454)

\* The task returns and the socket is dropped.
End == task' = "ended"

Quit ==
    /\ Reads({"QUIT"}) /\ Take /\ Say(221) /\ End
    /\ UNCHANGED <<link, secure, session, errors, got, todo, relay, history, bounds>>

\* The verbs protocol_error counts; STARTTLS is one of them once TLS is on.
Unknown == {"", "XYZZ", "BADSHAPE", "line", "."} \cup (IF secure THEN {"STARTTLS"} ELSE {})

\* An error is answered; past the threshold a second reply says goodbye.
ProtocolError ==
    /\ Reads(Unknown) /\ Take
    /\ errors' = errors + 1
    /\ IF errors' > ErrorThreshold
       THEN /\ toClient' = IF link # "open" THEN toClient ELSE toClient \o <<500, 500>>
            /\ End
       ELSE Say(500) /\ UNCHANGED task
    /\ UNCHANGED <<link, secure, session, got, todo, relay, history, bounds>>

-----------------------------------------------------------------------------
(* STARTTLS: handle returns StartTls, its BufReader goes and what it has    *)
(* read ahead with it; then the handshake, and handle_upgraded.             *)

StartTls ==
    /\ ~ secure /\ tls
    /\ Reads({"STARTTLS"}) /\ Say(220)
    /\ \E read \in 1 .. Len(toServer) : toServer' = SubSeq(toServer, read + 1, Len(toServer))
    /\ task' = "handshake"
    /\ UNCHANGED <<link, secure, session, errors, got, todo, relay, history, bounds>>

\* Plaintext where the handshake was expected, or a connection that ends there.
HandshakeFails ==
    /\ task = "handshake"
    /\ toServer # <<>> \/ link # "open"
    /\ End
    /\ UNCHANGED <<wire, secure, session, errors, got, todo, relay, history, bounds>>

-----------------------------------------------------------------------------
(* DATA: read_data, then deliver.                                          *)

\* One leading dot was added by the sender.
Unstuff(l) == [l EXCEPT !.dots = IF @ > 0 THEN @ - 1 ELSE @]

\* A command read as a line of DATA is text.
AsLine(item) == IF item.verb \in {"line", "."} THEN item.line ELSE [Blank EXCEPT !.text = TRUE]
IsDot(l) == l.dots = 1 /\ ~ l.text

ReadLine ==
    /\ task = "data" /\ toServer # <<>>
    /\ LET l == AsLine(Head(toServer)) IN ~ IsDot(l) /\ got' = Append(got, Unstuff(l))
    /\ Take
    /\ UNCHANGED <<link, toClient, task, secure, session, errors, todo, relay, history, bounds>>

(* The message is over: at the dot, or where the connection ends without    *)
(* one.  read_data returns what it has in both cases.                       *)
EndOfData ==
    /\ task = "data"
    /\ \/ /\ toServer # <<>> /\ IsDot(AsLine(Head(toServer)))
          /\ Take
          /\ whole' = whole \cup {from}
       \/ /\ toServer = <<>> /\ link = "fin"
          /\ UNCHANGED <<toServer, whole>>
    /\ task' = "deliver"
    /\ todo' = rcpts
    /\ UNCHANGED <<link, toClient, secure, session, errors, got, relay, excused, bounds>>

\* make_message_id: the Message-ID, or the time of arrival.
IdOf(mail) == IF mail \in WithId THEN <<mail, 0>> ELSE <<None, now'>>

\* Store::put: a message with the same id is replaced.
Put(a, copy) == store' = [store EXCEPT ![a] = {c \in @ : c.id # copy.id} \cup {copy}]

\* log_activity, best effort: the line is written unless the write fails.
Log(a, result, lost) ==
    activity' = activity \cup IF lost THEN {} ELSE {<<a, from, result>>}

\* Mutant: a recipient whose delivery failed is not in the activity log.
RefuseSilently(a, addr, lost) == UNCHANGED <<store, activity, excused>>

(* store_message's early returns: over the cap, unparseable, or empty.  When  *)
(* the line that says so is lost as well, nothing is left of the message.     *)
Refuse(a, addr, lost) ==
    /\ Log(a, "failed", lost)
    /\ excused' = excused \cup IF lost THEN {<<from, addr>>} ELSE {}
    /\ UNCHANGED store

Counts(fault) ==
    IF fault THEN failures < MaxFailures /\ failures' = failures + 1 ELSE UNCHANGED failures

(* What a delivery replaces for the worse: another mail (two without a       *)
(* Message-ID in one millisecond), or the same one by a copy that was cut.  *)
Spoilt(a, mail) == {c \in store[a] \ store'[a] : c.mail # mail \/ from \notin whole}

\* One recipient of deliver: resolved again, its message filed and logged.
Deliver ==
    LET addr == Head(todo)
        a == route[addr]
        mail == got[1].mail
    IN  /\ task = "deliver" /\ todo # <<>>
        /\ todo' = Tail(todo)
        /\ now' \in IF a = None \/ got = <<>> \/ mail \in WithId THEN {now} ELSE now .. MaxNow
        /\ \/ /\ a = None
              /\ UNCHANGED <<store, activity, excused, failures>>
           \/ \E lost \in BOOLEAN :
              /\ a # None
              /\ Counts(lost \/ got # <<>>)
              /\ Refuse(a, addr, lost)
           \/ \E lost \in BOOLEAN :
              /\ a # None /\ got # <<>>
              /\ Put(a, [id |-> IdOf(mail), mail |-> mail, txn |-> from, addr |-> addr, lines |-> got])
              /\ Log(a, "ok", lost)
              /\ excused' = excused \cup {<<c.txn, d>> : c \in Spoilt(a, mail), d \in Addresses}
              /\ Counts(lost)
    /\ UNCHANGED <<wire, task, secure, session, errors, got, tls, route, whole, reroutes>>

\* The last of deliver, and the handler's end: the envelope is cleared, 250.
Delivered ==
    /\ task = "deliver" /\ todo = <<>>
    /\ Reset /\ Say(250)
    /\ task' = "command"
    /\ UNCHANGED <<link, toServer, secure, greeted, errors, got, todo, relay, history, bounds>>

-----------------------------------------------------------------------------
(* The connection's end, and the rest of the relay.                         *)

\* read_line answers 0 after a close, an error after a reset.
HangUp ==
    /\ toServer = <<>>
    /\ \/ task = "command" /\ link \in {"fin", "broken"}
       \/ task = "data" /\ link = "broken"
    /\ End
    /\ UNCHANGED <<wire, secure, session, errors, got, todo, relay, history, bounds>>

(* Another thread deletes an account or changes an alias: the address leads *)
(* elsewhere, and an account nothing leads to is gone with its mail.  Outside *)
(* a transaction this is another initial state.                             *)
Reroute(addr, a) ==
    /\ reroutes < MaxReroutes /\ route[addr] # a /\ from # 0
    /\ reroutes' = reroutes + 1
    /\ route' = [route EXCEPT ![addr] = a]
    /\ store' = [b \in Accounts |->
                    IF \E d \in Addresses : route'[d] = b THEN store[b] ELSE {}]
    /\ excused' = excused \cup {<<c.txn, d>> : c \in UNION {store[b] \ store'[b] : b \in Accounts},
                                               d \in Addresses}
                          \cup (IF from = 0 THEN {} ELSE {<<from, addr>>})
    /\ UNCHANGED <<wire, task, secure, session, errors, got, todo, tls, activity, now, whole,
                   failures>>

SessionTask ==
    \/ Open \/ Hello \/ Mail \/ MailRefused \/ Rcpt \/ RcptRefused \/ Data \/ DataRefused
    \/ Rset \/ Chat \/ Quit \/ ProtocolError
    \/ StartTls \/ HandshakeFails
    \/ ReadLine \/ EndOfData \/ Deliver \/ Delivered \/ HangUp

ServerNext ==
    \/ SessionTask
    \/ \E addr \in Addresses, a \in Accounts \cup {None} : Reroute(addr, a)

=============================================================================
