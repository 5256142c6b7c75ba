------------------------------- MODULE Framing -------------------------------
(***************************************************************************)
(* The frame of a MIME message and what the relay keeps of it: the header  *)
(* block, the parts of a multipart body, media types and transfer          *)
(* encodings (jmapserver/mime.rs), and the message an inbound one is       *)
(* sealed as (delivery.rs, jmapsmtp/pgp.rs), as functions.                 *)
(*                                                                         *)
(* A message is a sequence of tokens: line ends, the signs the parser      *)
(* looks for, and words, each as long as a base64 group and in lower case  *)
(* where case does not count.  Invalid base64 is a token of its own.       *)
(***************************************************************************)
EXTENDS MailFormat

CRLF == "\r\n"
LF   == "\n"
Base64 == "words" :> "d29y" @@ "armour" :> "YXJt" @@ CRLF :> "DQo=" @@ LF :> "Cg=="

\* Where needle first is in s, or 0.
Find(s, needle) ==
    LET First(at) == IF at = {} THEN 0 ELSE CHOOSE i \in at : \A j \in at : i <= j
    IN  First({i \in 1..(Len(s) - Len(needle) + 1) : SubSeq(s, i, i + Len(needle) - 1) = needle})

From(s, i)   == SubSeq(s, i, Len(s))
Before(s, i) == SubSeq(s, 1, i - 1)

-----------------------------------------------------------------------------
(* Headers.                                                                *)

\* An empty line ends the head; without one there is only a head, without anything no message.
SplitHeadBody(data) ==
    LET crlf == Find(data, <<CRLF, CRLF>>)
        bare == {i \in 1..(Len(data) - 1) : data[i] \in {CRLF, LF} /\ data[i + 1] = LF}
        Cut(i) == [head |-> SubSeq(data, 1, i), body |-> From(data, i + 2)]
    IN  Cut(IF crlf # 0 THEN crlf
            ELSE IF bare # {} THEN CHOOSE i \in bare : \A j \in bare : i <= j ELSE Len(data))

\* A line that begins with a blank continues the one before; one without a colon is nothing.
ParseHeaders(head) ==
    LET lines == Pieces(head, {i \in DOMAIN head : head[i] \in {CRLF, LF}})
        colon(l) == Find(l, <<":">>)
        more(done, l) == [done EXCEPT ![Len(done)].value = @ \o <<" ">> \o TrimLeft(l, {" "})]
    IN  FoldLeft(LAMBDA done, l :
                    IF l = <<>> THEN done
                    ELSE IF l[1] = " " THEN IF done = <<>> THEN done ELSE more(done, l)
                    ELSE IF colon(l) = 0 THEN done
                    ELSE Append(done, [name  |-> Trim(Before(l, colon(l)), {" "}),
                                       value |-> Trim(From(l, colon(l) + 1), {" "})]),
                 <<>>, lines)

\* The first header of that name.
Get(headers, name) ==
    LET of == SelectSeq(headers, LAMBDA h : h.name = <<name>>)
    IN  IF of = <<>> THEN <<>> ELSE Head(of).value

\* Semicolons inside quotes separate nothing.
SplitParams(s) == Pieces(s, {i \in Positions(s, ";") : ~Quoted(s, i)})

Unquoted(v) ==
    IF Len(v) > 1 /\ v[1] = "\"" /\ v[Len(v)] = "\"" THEN SubSeq(v, 2, Len(v) - 1) ELSE v

\* The media type and the parameters; of two of one name the last holds.
ParseMediaType(value) ==
    LET v     == Trim(value, {" "})
        semi  == Find(v, <<";">>)
        media == Trim(IF semi = 0 THEN v ELSE Before(v, semi), {" "})
        pairs == SelectSeq(SplitParams(IF semi = 0 THEN <<>> ELSE From(v, semi + 1)),
                           LAMBDA p : Find(p, <<"=">>) # 0)
        pair(p) == [name  |-> Trim(Before(p, Find(p, <<"=">>)), {" "}),
                    value |-> Unquoted(Trim(From(p, Find(p, <<"=">>) + 1), {" "}))]
    IN  [media |-> IF Len(media) = 1 THEN media[1] ELSE "", params |-> [i \in DOMAIN pairs |-> pair(pairs[i])]]

Param(params, name) == Get(Reverse(params), name)

-----------------------------------------------------------------------------
(* Transfer encodings.                                                     *)

\* White space counts for nothing, and what is no base64 ends the part.
DecodeBase64(body) ==
    LET s   == SelectSeq(body, LAMBDA c : c \notin {CRLF, LF, " "})
        bad == {i \in DOMAIN s : s[i] \notin Range(Base64)}
        kept == IF bad = {} THEN s ELSE Before(s, CHOOSE i \in bad : \A j \in bad : i <= j)
    IN  [i \in DOMAIN kept |-> CHOOSE c \in DOMAIN Base64 : Base64[c] = kept[i]]

\* A "=" before a line end goes with it, an escape is its character, another "=" is itself.
DecodeQuotedPrintable(body) ==
    LET soft(i) == body[i] = "=" /\ i < Len(body) /\ body[i + 1] \in {CRLF, LF}
        kept == SelectSeq([i \in DOMAIN body |-> i],
                          LAMBDA i : ~soft(i) /\ ~(i > 1 /\ soft(i - 1)))
    IN  [k \in DOMAIN kept |-> IF body[kept[k]] \in Range(Escape)
                               THEN CHOOSE c \in DOMAIN Escape : Escape[c] = body[kept[k]]
                               ELSE body[kept[k]]]

DecodeTransfer(cte, body) ==
    CASE cte = <<"quoted-printable">> -> DecodeQuotedPrintable(body)
      [] cte = <<"base64">> -> DecodeBase64(body)
      [] OTHER -> body

-----------------------------------------------------------------------------
(* The parts of a multipart body.                                          *)

\* Mutant: the line end before a delimiter stays with the part.
WithoutLineEndKept(s) == s

WithoutLineEnd(s) == IF s # <<>> /\ s[Len(s)] \in {CRLF, LF} THEN Front(s) ELSE s

\* rest begins behind a delimiter.  A last part that no delimiter ends is left out.
RECURSIVE PartsBehind(_, _)
PartsBehind(rest, delim) ==
    LET inside == IF rest # <<>> /\ rest[1] \in {CRLF, LF} THEN Tail(rest) ELSE rest
        next   == Find(inside, delim)
        part   == WithoutLineEnd(Before(inside, next))
    IN  IF (rest # <<>> /\ rest[1] = "--") \/ next = 0 THEN <<>>
        ELSE (IF part = <<>> THEN <<>> ELSE <<part>>) \o PartsBehind(From(inside, next + Len(delim)), delim)

\* A delimiter is looked for anywhere, not only at the start of a line, and as a prefix.
SplitParts(body, boundary) ==
    LET delim == <<"--">> \o boundary  start == Find(body, delim)
    IN  IF start = 0 THEN <<>> ELSE PartsBehind(From(body, start + Len(delim)), delim)

\* The tree of a message: what ExtractMimeText reads the text from, and what is attached.
\* A part without a media type is read by nobody.
RECURSIVE Parse(_)
Parse(data) ==
    LET Tree(headers, type, place, body) ==
            LET bound == Param(type.params, "boundary")
                named == Param(place.params, "filename")
                parts == IF type.media \in Multiparts /\ bound # <<>> THEN SplitParts(body, bound) ELSE <<>>
            IN  [media |-> type.media, attached |-> place.media = "attachment",
                 text |-> IF type.media \in Multiparts THEN <<>>
                          ELSE DecodeTransfer(Get(headers, "content-transfer-encoding"), body),
                 name |-> IF named # <<>> THEN named ELSE Param(type.params, "name"),
                 parts |-> [i \in DOMAIN parts |-> Parse(parts[i])]]
        Typed(headers, body) ==
            Tree(headers, ParseMediaType(Get(headers, "content-type")),
                 ParseMediaType(Get(headers, "content-disposition")), body)
        Split(whole) == Typed(ParseHeaders(whole.head), whole.body)
    IN  Split(SplitHeadBody(data))

\* Every leaf whose disposition is attachment, in order, however deep.
RECURSIVE ExtractAttachments(_)
ExtractAttachments(tree) ==
    IF tree.media \in Multiparts
    THEN FlattenSeq([i \in DOMAIN tree.parts |-> ExtractAttachments(tree.parts[i])])
    ELSE IF tree.attached
    THEN <<[name |-> tree.name, media |-> tree.media, bytes |-> tree.text]>> ELSE <<>>

\* A message without a media type is text as it stands.
MessageBody(data) ==
    LET Text(tree) == IF tree.media = "" THEN NormaliseNewlines(SplitHeadBody(data).body) ELSE ExtractMimeText(tree)
    IN  Text(Parse(data))

-----------------------------------------------------------------------------
(* Sealing what comes in.                                                  *)

Line(s) == s \o <<CRLF>>

\* Lines of one group each, without a line end at the end.
WrapBase64(bytes) == JoinWith([i \in DOMAIN bytes |-> <<Base64[bytes[i]]>>], <<CRLF>>)

\* A quote in a file name is left out.
BuildEncryptedMultipart(text, attachments, boundary) ==
    LET delim == <<"--">> \o boundary
        one(a) ==
            Line(delim)
            \o Line(<<"content-type", ":", " ", IF a.media = "" THEN "application/octet-stream" ELSE a.media>>)
            \o Line(<<"content-disposition", ":", " ", "attachment", ";", " ", "filename", "=", "\"">>
                        \o SelectSeq(a.name, LAMBDA c : c # "\"") \o <<"\"">>)
            \o Line(Line(<<"content-transfer-encoding", ":", " ", "base64">>))
            \o Line(WrapBase64(a.bytes))
    IN  Line(Line(<<"content-type", ":", " ", "multipart/mixed", ";", " ", "boundary", "=", "\"">>
                      \o boundary \o <<"\"">>))
        \o Line(delim)
        \o Line(<<"content-type", ":", " ", "text/plain", ";", " ", "charset", "=", "utf-8">>)
        \o Line(Line(<<"content-transfer-encoding", ":", " ", "8bit">>))
        \o Line(text)
        \o FlattenSeq([i \in DOMAIN attachments |-> one(attachments[i])])
        \o delim \o <<"--">>

\* What an inbound message is sealed as, or <<>> when it is stored as it is: it has no text,
\* or its text is sealed already.  fresh is the boundary drawn.
SealInbound(raw, fresh) ==
    LET Sealed(text, attachments) ==
            IF text = <<>> \/ "armour" \in Range(text) THEN <<>>
            ELSE IF attachments = <<>> THEN text ELSE BuildEncryptedMultipart(text, attachments, fresh)
    IN  Sealed(MessageBody(raw), ExtractAttachments(Parse(raw)))

-----------------------------------------------------------------------------
(* Messages of other mailers.                                              *)

Framed(parts, boundary, eol, type) ==
    <<"content-type", ":", " ", type, ";", eol, " ", "boundary", "=", "\"">> \o boundary
        \o <<"\"", eol, eol, "words", eol>>
        \o FlattenSeq([i \in DOMAIN parts |-> <<"--">> \o boundary \o <<eol>> \o parts[i] \o <<eol>>])
        \o <<"--">> \o boundary \o <<"--", eol>>

\* Plain, or quoted-printable with a soft line break before it.
TextPart(text, eol, quoted) ==
    <<"content-type", ":", " ", "text/plain", eol>>
        \o IF quoted
           THEN <<"content-transfer-encoding", ":", "quoted-printable", eol, eol, "=", eol>>
                    \o [i \in DOMAIN text |-> IF text[i] \in DOMAIN Escape THEN Escape[text[i]] ELSE text[i]]
           ELSE <<eol>> \o text

FilePart(name, bytes, eol) ==
    <<"content-transfer-encoding", ":", "base64", eol,
      "content-disposition", ":", " ", "attachment", ";", "filename", "=">> \o name
        \o <<eol, "content-type", ":", " ", "image/png", eol, eol>> \o WrapBase64(bytes)

Outer == <<"b">>

Texts     == {<<"words">>, <<"\r\n", "é", "words", "\n">>, <<"words", "armour">>, <<>>}
FileNames == {<<"a">>, <<"\"", "a", ";", "a", "\"">>, <<"a", "\"", "a">>}
Contents  == {<<>>, <<"words", "words">>, <<"armour", "\n">>}
Inner     == {<<"c">>, <<"b", "c">>}

(* A message that is sealed on arrival is read, once opened, with the text   *)
(* and every attachment its sender put in, wherever they were nested; one    *)
(* whose text is sealed already, or that has none, stays as it came.  A      *)
(* quote in a file name is lost.  An inner boundary may begin with the outer *)
(* one: its delimiters are taken for outer ones, and nothing is lost by it.  *)
SealingKeepsTheMessage ==
    \A text \in Texts, eol \in {CRLF, LF}, quoted \in BOOLEAN :
        LET body == NormaliseNewlines(text)
            part == TextPart(text, eol, quoted)
            Nested(file, inner) ==
                Framed(<<Framed(<<part, file>>, inner, eol, "multipart/mixed"), file>>,
                       Outer, eol, "multipart/mixed")
            Sent == {[raw |-> part, attached |-> <<>>]} \cup
                {LET file == [name |-> SelectSeq(Unquoted(name), LAMBDA c : c # "\""),
                              media |-> "image/png", bytes |-> bytes]
                 IN  [raw |-> Nested(FilePart(name, bytes, eol), inner), attached |-> <<file, file>>] :
                 name \in FileNames, bytes \in Contents, inner \in Inner}
        IN  \A sent \in Sent : \A plain \in {SealInbound(sent.raw, <<"fresh">>)} :
                /\ MessageBody(sent.raw) = body
                /\ plain = <<>> <=> (text = <<>> \/ "armour" \in Range(text))
                /\ plain # <<>> => IF sent.attached = <<>> THEN plain = body
                                   ELSE /\ MessageBody(plain) = body
                                        /\ ExtractAttachments(Parse(plain)) = sent.attached

=============================================================================
