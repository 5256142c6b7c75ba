----------------------------- MODULE MailFormat -----------------------------
(***************************************************************************)
(* What one relay writes into a message and another reads out of it: the   *)
(* builder and the parser of jmapserver/mime.rs and the PGP/MIME wrapper   *)
(* of jmapsmtp/autocrypt.rs, as functions.                                 *)
(*                                                                         *)
(* A header's value is a sequence of tokens: characters that matter to one *)
(* side or the other, each standing for those treated like it, the escapes *)
(* of an encoded word, and whole addresses and ids, which both sides carry *)
(* as they are.  A body is a sequence of words and line ends.              *)
(***************************************************************************)
EXTENDS Integers, FiniteSets, SequencesExt, TLC

NameLength == 2      \* bound on the display names that are tried

Chars  == {"a", " ", "\"", "\\", ",", "<", "é"}
Escape == "\"" :> "=22" @@ "\\" :> "=5C" @@ "," :> "=2C" @@ "<" :> "=3C" @@ "é" :> "=C3=A9"
Emails == {"ann@one.test", "bob@two.test"}
Ids    == {"id1", "id2"}
Names  == UNION {[1..n -> Chars] : n \in 0..NameLength}

LocalPart(email) == IF email = "ann@one.test" THEN <<"ann">> ELSE <<"bob">>

-----------------------------------------------------------------------------
(* Sequences of tokens.                                                    *)

TrimLeft(s, set) == LET kept == {i \in DOMAIN s : s[i] \notin set}
                    IN  IF kept = {} THEN <<>>
                        ELSE SubSeq(s, CHOOSE i \in kept : \A j \in kept : i <= j, Len(s))
Trim(s, set) == Reverse(TrimLeft(Reverse(TrimLeft(s, set)), set))

\* The pieces between the positions of cuts; a last one that is empty is left out.
Pieces(s, cuts) ==
    LET ends == SetToSortSeq(cuts, LAMBDA i, j : i < j) \o <<Len(s) + 1>>
        all  == [k \in DOMAIN ends |->
                    SubSeq(s, IF k = 1 THEN 1 ELSE ends[k - 1] + 1, ends[k] - 1)]
    IN  IF all[Len(all)] = <<>> THEN Front(all) ELSE all

Positions(s, token) == {i \in DOMAIN s : s[i] = token}
Quoted(s, i)        == Cardinality({j \in Positions(s, "\"") : j < i}) % 2 = 1

-----------------------------------------------------------------------------
(* Building.                                                               *)

QuoteString(name) ==
    <<"\"">> \o FlattenSeq([i \in DOMAIN name |->
                   IF name[i] \in {"\"", "\\"} THEN <<"\\", name[i]>> ELSE <<name[i]>>])
             \o <<"\"">>

EncodeWord(name) ==
    <<"=", "?", "utf-8", "?", "q", "?">>
        \o [i \in DOMAIN name |-> CASE name[i] = " " -> "_"
                                    [] name[i] \in DOMAIN Escape -> Escape[name[i]]
                                    [] OTHER -> name[i]]
        \o <<"?", "=">>

RenderDisplayName(name) ==
    IF "é" \in Range(name) THEN EncodeWord(name) ELSE QuoteString(name)

\* An address without a name is given its local part.
FormatAddr(a) ==
    RenderDisplayName(IF a.name = <<>> THEN LocalPart(a.email) ELSE a.name)
        \o <<" ", "<", a.email, ">">>

JoinWith(parts, sep) ==
    FoldLeft(LAMBDA done, part : IF done = <<>> THEN part ELSE done \o sep \o part, <<>>, parts)

JoinAddrs(addrs)  == JoinWith([i \in DOMAIN addrs |-> FormatAddr(addrs[i])], <<",", " ">>)
BracketJoin(ids)  == JoinWith([i \in DOMAIN ids |-> <<"<", ids[i], ">">>], <<" ">>)

\* A reply gets its prefix once.
ReplySubject(e) ==
    [e.subject EXCEPT !.re = @ \/ (e.inReplyTo # <<>> /\ e.subject.text # "")]

\* Headers with a place of their own are not repeated from the list.
Skip == {"subject"}

BuildRfc5322(e, fresh) ==
    [from |-> IF e.from = <<>> THEN <<>> ELSE FormatAddr(Head(e.from)), to |-> JoinAddrs(e.to),
     subject |-> ReplySubject(e),
     messageId |-> <<"<", IF e.messageId = <<>> THEN fresh ELSE Head(e.messageId), ">">>,
     inReplyTo |-> BracketJoin(e.inReplyTo), references |-> BracketJoin(e.references),
     custom |-> SelectSeq(e.headers, LAMBDA h : h.name \notin Skip),
     content |-> [media |-> "text/plain", text |-> e.body, parts |-> <<>>]]

\* The recipients of the envelope: each once, where it came first; none without a sender.
BuildEnvelope(e) ==
    LET all == e.to \o e.cc \o e.bcc
        once == SelectSeq([i \in DOMAIN all |-> <<i, all[i].email>>],
                          LAMBDA r : \A j \in 1..(r[1] - 1) : all[j].email # r[2])
    IN  IF e.from = <<>> \/ all = <<>> THEN <<>> ELSE [i \in DOMAIN once |-> once[i][2]]

\* The block between the markers is packed; what surrounds it goes.
WrapInline(m) ==
    IF "armour" \notin Range(m.content.text) THEN m
    ELSE [m EXCEPT !.content =
            [media |-> "multipart/encrypted", text |-> <<>>,
             parts |-> << [media |-> "application/pgp-encrypted", text |-> <<"version">>, parts |-> <<>>],
                          [media |-> "application/octet-stream", text |-> <<"armour">>, parts |-> <<>>] >>]]

-----------------------------------------------------------------------------
(* Parsing.                                                                *)

StartsWithEquals(token) == token \in {"="} \cup Range(Escape)

(* What follows a "=?": the word, up to the first "?" before a "=", must    *)
(* have a charset, an encoding and a text.  An escape at the start of the   *)
(* text is taken for its end.                                              *)
DecodeOneWord(after) ==
    LET ends == {i \in 1..(Len(after) - 1) : after[i] = "?" /\ StartsWithEquals(after[i + 1])}
        end  == CHOOSE i \in ends : \A j \in ends : i <= j
        word == SubSeq(after, 1, end - 1)
        text == SubSeq(word, 5, Len(word))
        back(token) == IF token = "_" THEN " "
                       ELSE IF token \in Range(Escape) THEN CHOOSE c \in DOMAIN Escape : Escape[c] = token
                       ELSE token
    IN  IF ends = {} \/ Cardinality(Positions(word, "?")) < 2 THEN <<>>
        ELSE <<[text |-> [i \in DOMAIN text |-> back(text[i])],
                rest |-> SubSeq(after, end + 2, Len(after))]>>

RECURSIVE DecodeWords(_)
DecodeWords(s) ==
    LET starts == {i \in 1..(Len(s) - 1) : s[i] = "=" /\ s[i + 1] = "?"}
        start  == CHOOSE i \in starts : \A j \in starts : i <= j
        after  == SubSeq(s, start + 2, Len(s))
        one    == DecodeOneWord(after)
    IN  IF starts = {} THEN s
        ELSE SubSeq(s, 1, start - 1)
                 \o IF one = <<>> THEN <<"=", "?">> \o DecodeWords(after)
                    ELSE one[1].text \o DecodeWords(one[1].rest)

\* The last "<" and the last ">" hold the address, and the quotes around the name go.
ParseAddress(value) ==
    LET v  == Trim(value, {" "})
        lt == Positions(v, "<")  gt == Positions(v, ">")
        last(set) == CHOOSE i \in set : \A j \in set : j <= i
        bracketed == lt # {} /\ gt # {} /\ last(gt) > last(lt)
        name  == IF bracketed THEN Trim(Trim(Trim(SubSeq(v, 1, last(lt) - 1), {" "}), {"\""}), {" "})
                 ELSE <<>>
        email == IF bracketed THEN SubSeq(v, last(lt) + 1, last(gt) - 1) ELSE v
    IN  IF Len(email) = 1 /\ email[1] \in Emails
        THEN <<[name |-> DecodeWords(name), email |-> email[1]]>> ELSE <<>>

\* Mutant: every comma separates two addresses.
SplitAddressesAnywhere(s) == Pieces(s, Positions(s, ","))

\* A comma outside quotes separates two addresses; an escaped quote counts as one.
SplitAddresses(s) == Pieces(s, {i \in Positions(s, ",") : ~Quoted(s, i)})

\* All or nothing.
ParseAddressList(value) ==
    LET entries == SplitAddresses(Trim(value, {" "}))
        parsed  == [i \in DOMAIN entries |-> ParseAddress(entries[i])]
    IN  IF <<>> \in Range(parsed) THEN <<>> ELSE FlattenSeq(parsed)

NormaliseNewlines(text) == [i \in DOMAIN text |-> IF text[i] = "\r\n" THEN "\n" ELSE text[i]]

Multiparts == {"multipart/mixed", "multipart/encrypted"}

\* The text of a message: of an encrypted one the armour and never a readable part beside it,
\* of another the first plain text, or else the first HTML; a nested one counts if it has any.
RECURSIVE ExtractMimeText(_)
ExtractMimeText(part) ==
    LET first(set) == part.parts[CHOOSE i \in set : \A j \in set : i <= j]
        armoured == {i \in DOMAIN part.parts :
                        /\ part.parts[i].media \in {"application/pgp-encrypted", "application/octet-stream"}
                        /\ "armour" \in Range(part.parts[i].text)}
        final == {i \in DOMAIN part.parts :
                     \/ part.parts[i].media = "text/plain"
                     \/ part.parts[i].media \in Multiparts /\ ExtractMimeText(part.parts[i]) # <<>>}
        html  == {i \in DOMAIN part.parts : part.parts[i].media = "text/html" /\ part.parts[i].text # <<>>}
    IN  CASE part.media \in {"text/plain", "text/html"} -> NormaliseNewlines(part.text)
          [] part.media = "multipart/encrypted" ->
                 IF armoured = {} THEN <<>> ELSE NormaliseNewlines(first(armoured).text)
          [] part.media = "multipart/mixed" ->
                 IF final # {} THEN ExtractMimeText(first(final))
                 ELSE IF html # {} THEN ExtractMimeText(first(html)) ELSE <<>>
          [] OTHER -> <<>>

\* Headers of no known kind, each name with its first value.
StandardHeaders == {"subject", "chat-version"}
ExtraHeaders(headers) ==
    {h \in Range(headers) : /\ h.name \notin StandardHeaders
                            /\ \E i \in DOMAIN headers :
                                   headers[i] = h /\ \A j \in 1..(i - 1) : headers[j].name # h.name}

\* In-Reply-To is one id whatever it holds: the brackets go at its two ends only.
OneId(value) == LET id == Trim(value, {" ", "<", ">"}) IN IF id = <<>> THEN <<>> ELSE <<id>>

ParseMimeEmail(m) ==
    [from |-> ParseAddress(m.from), to |-> ParseAddressList(m.to), subject |-> m.subject,
     messageId |-> OneId(m.messageId), inReplyTo |-> OneId(m.inReplyTo),
     references |-> SelectSeq(m.references, LAMBDA token : token \in Ids),
     headers |-> ExtraHeaders(m.custom), body |-> ExtractMimeText(m.content)]

-----------------------------------------------------------------------------
(* The names that come back.  A quote or a backslash comes back escaped,    *)
(* blanks at the ends are lost, no name becomes the local part, and an      *)
(* encoded word whose text begins with an escape is not recognised.         *)
Faithful(name) ==
    /\ name # <<>>
    /\ IF "é" \in Range(name) THEN name[1] \in {"a", " "}
       ELSE /\ Range(name) \cap {"\"", "\\"} = {}
            /\ " " \notin {name[1], name[Len(name)]}

Addresses(names) == [name : names, email : Emails]

AddressesReturn ==
    /\ \A a \in Addresses(Names) :
           /\ Faithful(a.name) <=> (ParseAddress(FormatAddr(a)) = <<a>>)
           /\ \E back \in Range(ParseAddress(FormatAddr(a))) : back.email = a.email
    /\ \A a, b \in Addresses({n \in Names : Faithful(n)}) :
           Len(b.name) = 1 => ParseAddressList(JoinAddrs(<<a, b>>)) = <<a, b>>

SomeEmails ==
    LET someone == {<<>>} \cup {<<[name |-> <<",">>, email |-> e]>> : e \in Emails}
        ids == {<<>>, <<"id1">>, <<"id2", "id1">>}
        headers == {<<>>} \cup {<<h, [name |-> "chat-group", value |-> "two"]>> :
                                  h \in [name : {"chat-group", "chat-version", "subject"}, value : {"one"}]}
    IN  [from : someone, to : someone, cc : someone, bcc : {<<>>},
         subject : [re : BOOLEAN, text : {"", "hello"}],
         messageId : {<<>>, <<"id2">>}, inReplyTo : ids, references : ids, headers : headers,
         body : {<<>>, <<"words", "\r\n", "words">>, <<"words", "\n", "armour">>}]

SomeTrees ==
    LET leaf  == [media : {"text/plain", "text/html", "application/octet-stream", "image/png"},
                  text : {<<>>, <<"words">>, <<"armour">>}, parts : {<<>>}]
        over(parts) == [media : Multiparts, text : {<<>>}, parts : {<<p, q>> : p, q \in parts}]
        some  == {[media |-> m, text |-> t, parts |-> <<>>] :
                     m \in {"text/plain", "text/html"}, t \in {<<>>, <<"words">>}}
    IN  over(leaf) \cup over(some \cup over(some))

\* Nothing readable comes out of an encrypted message, and nothing is invented.
TextIsOfItsPart ==
    \A tree \in SomeTrees :
        LET text == ExtractMimeText(tree)
        IN  /\ tree.media = "multipart/encrypted" => text \in {<<>>, <<"armour">>}
            /\ (text = <<>> /\ tree.media = "multipart/mixed") =>
                   \A p \in Range(tree.parts) : p.media = "text/html" /\ p.text # <<>> =>
                       \E q \in Range(tree.parts) : q.media = "text/plain" /\ q.text = <<>>

(* A message one relay builds, wraps and sends is the message another reads: *)
(* its sender and recipients, the thread it belongs to, its own headers and  *)
(* its text, or of a sealed one the armour and nothing beside it.  A display *)
(* name comes back unless it is one of those listed at Faithful, a second id *)
(* of In-Reply-To does not, and the envelope names each recipient once.      *)
RoundTrip ==
    /\ AddressesReturn /\ TextIsOfItsPart
    /\ \A e \in SomeEmails :
           LET got == ParseMimeEmail(WrapInline(BuildRfc5322(e, "id1")))
               sent == BuildEnvelope(e)
           IN  /\ got.from = e.from /\ got.to = e.to
               /\ got.messageId = <<IF e.messageId = <<>> THEN <<"id1">> ELSE e.messageId>>
               /\ Len(e.inReplyTo) < 2 => got.inReplyTo = [i \in DOMAIN e.inReplyTo |-> <<e.inReplyTo[i]>>]
               /\ got.references = e.references
               /\ got.body = IF "armour" \in Range(e.body) THEN <<"armour">> ELSE NormaliseNewlines(e.body)
               /\ \A h \in got.headers : h.value = "two" <=> e.headers[1].name # "chat-group"
               /\ sent # <<>> => /\ IsInjective(sent)
                                   /\ Range(sent) = {a.email : a \in Range(e.to \o e.cc \o e.bcc)}

=============================================================================
