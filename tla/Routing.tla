------------------------------ MODULE Routing -------------------------------
(***************************************************************************)
(* How a request reaches its handler: the routing table (routes.rs), the   *)
(* mux that cleans paths, redirects and picks a pattern (gomux.rs), the    *)
(* bearer guard (bearer.rs), and the credentials of a request (server.rs), *)
(* as functions.                                                           *)
(*                                                                         *)
(* A path is the sequence of what is between its slashes: "/a/" is         *)
(* <<"", "a", "">> and "/" is <<"", "">>.  A header, a token or a query    *)
(* value is a sequence of words.                                           *)
(***************************************************************************)
EXTENDS Integers, Sequences, SequencesExt, FiniteSets

Root == <<"", "">>

Rooted(p) == Len(p) > 1 /\ p[1] = ""
Slashed(p) == Len(p) > 1 /\ p[Len(p)] = ""

-----------------------------------------------------------------------------
(* The mux.                                                                *)

\* Empty segments and "." go, ".." takes the segment before it, at the root nothing.
LexicalClean(p) ==
    LET Step(out, seg) == IF seg \in {"", "."} THEN out
                          ELSE IF seg = ".." THEN IF out = <<>> THEN out ELSE Front(out)
                          ELSE Append(out, seg)
        out == FoldLeft(Step, <<>>, p)
    IN  IF out = <<>> THEN Root ELSE <<"">> \o out

\* Mutant: the slash at the end is not put back.
CleanPathBare(p) == LexicalClean(IF Rooted(p) THEN p ELSE <<"">> \o p)

\* The slash at the end, which the cleaning takes, is put back.
CleanPath(p) ==
    LET rooted == IF Rooted(p) THEN p ELSE <<"">> \o p
        clean  == LexicalClean(rooted)
    IN  IF Slashed(rooted) /\ clean # Root THEN Append(clean, "") ELSE clean

Matches(pattern, path) ==
    pattern = path \/ (Slashed(pattern) /\ IsPrefix(Front(pattern), path) /\ Len(path) >= Len(pattern))

\* The path itself, or the longest of the subtrees it is in; <<>> is none.
MatchPath(patterns, path) ==
    LET fit == {p \in patterns : Matches(p, path)}
    IN  IF fit = {} THEN <<>> ELSE CHOOSE p \in fit : \A q \in fit : Len(q) <= Len(p)

\* The slash is decided before the cleaned path.
Route(patterns, path, query) ==
    LET clean == CleanPath(path)
        slash == Append(clean, "")
        found == MatchPath(patterns, clean)
        answer(kind, p) == [kind |-> kind, path |-> p, query |-> query]
    IN  IF found # clean /\ ~Slashed(clean) /\ MatchPath(patterns, slash) = slash
        THEN answer("redirect", slash)
        ELSE IF clean # path THEN answer("redirect", clean)
        ELSE IF found = <<>> THEN answer("not found", <<>>)
        ELSE answer("found", found)

-----------------------------------------------------------------------------
(* The table.                                                              *)

Specs(guard, patterns) == [pattern : patterns, guard : {guard}]

Always ==
    Specs("account",
        {<<"", ".well-known", "jmap">>, <<"", "jmap", "api", "">>, <<"", "jmap", "eventsource", "">>,
         <<"", "jmap", "push", "subscribe">>, <<"", "jmap", "push", "unsubscribe">>,
         <<"", "pgp", "privkey">>, <<"", "pgp", "peerkey">>, <<"", "auth", "envelope">>,
         <<"", "contacts">>, <<"", "contacts", "">>, <<"", "account", "delete">>,
         <<"", "account", "alias">>, <<"", "account", "migrate-to-scid">>,
         <<"", "account", "storage">>, <<"", "account", "storage", "messages">>,
         <<"", "account", "storage", "export">>, <<"", "account", "storage", "purge-messages">>})
    \cup Specs("open",
        {<<"", "jmap", "push", "vapid-public-key">>, <<"", ".well-known", "openpgpkey", "policy">>,
         <<"", ".well-known", "openpgpkey", "hu", "">>, <<"", "pgp", "pubkey">>,
         <<"", "account", "session", "challenge">>, <<"", "relay-info">>, <<"", "admin", "dashboard">>})
    \cup Specs("self",
        {<<"", "setup">>, <<"", "auth", "signup">>, <<"", "account", "provision">>,
         <<"", "account", "session">>, <<"", "account", "devices">>})
    \cup Specs("bearer", {<<"", "metrics">>, <<"", "admin", "accounts">>, <<"", "admin", "accounts", "">>})

Anchor       == Specs("account", {<<"", "account", "did">>})
                \cup Specs("bearer", {<<"", "admin", "drain-anchor">>})
CustomDomain == Specs("account", {<<"", "domain", "verify-token">>, <<"", "domain", "add">>})
Blobs        == Specs("account", {<<"", "jmap", "upload", "">>, <<"", "jmap", "download", "">>})

\* The build, the config and the handler decide what is mounted.
RouteSpecs(build) ==
    Always \cup (IF "blobs" \in build THEN Blobs ELSE {})
           \cup (IF "anchor" \in build THEN Anchor ELSE {})
           \cup (IF "secret" \in build THEN CustomDomain ELSE {})

\* A pattern that is mounted twice, or begins with no slash, stops the start.
Handle(specs, spec) == Rooted(spec.pattern) /\ \A other \in specs : other.pattern # spec.pattern

BuildMux(build) ==
    LET specs == RouteSpecs(build)
    IN  IF \A s \in specs : Handle(specs \ {s}, s) THEN specs ELSE {}

-----------------------------------------------------------------------------
(* Credentials.                                                            *)

\* A token that is not configured opens nothing.
Check(token, header) == token # <<>> /\ header = <<"Bearer ">> \o token

\* At the first colon, or a password without a name.
SplitToken(t) ==
    LET colons == {i \in DOMAIN t : t[i] = ":"}
        at     == CHOOSE i \in colons : \A j \in colons : i <= j
    IN  IF colons = {} THEN [user |-> <<>>, password |-> t]
        ELSE [user |-> SubSeq(t, 1, at - 1), password |-> SubSeq(t, at + 1, Len(t))]

Nobody == [user |-> <<"nobody">>, password |-> <<>>]

\* Basic only.  What is not base64 decodes to nothing; a name without a colon is nobody's.
BasicCredentials(header) ==
    IF header # <<>> /\ header[1] = "Basic " /\ "?" \notin ToSet(header) /\ ":" \in ToSet(header)
    THEN SplitToken(Tail(header)) ELSE Nobody

\* Bearer, or Basic, or the query's first access_token that is not empty.
ExtractCredentials(header, query) ==
    LET tokens == SelectSeq(query, LAMBDA p : p.name = "access_token" /\ p.value # <<>>)
    IN  IF header # <<>> /\ header[1] = "Bearer " THEN SplitToken(Tail(header))
        ELSE IF header # <<>> /\ header[1] = "Basic " THEN BasicCredentials(header)
        ELSE IF tokens = <<>> THEN Nobody ELSE SplitToken(Head(tokens).value)

\* The routes of the JMAP library take a credential in three forms, the relay's own in one.
Jmap == {<<"", ".well-known", "jmap">>, <<"", "jmap", "api", "">>, <<"", "jmap", "eventsource", "">>,
         <<"", "jmap", "push", "subscribe">>, <<"", "jmap", "push", "unsubscribe">>}

Credentials(pattern, request) ==
    IF pattern \in Jmap THEN ExtractCredentials(request.header, request.query)
    ELSE BasicCredentials(request.header)

-----------------------------------------------------------------------------
(* A request.                                                              *)

\* What a handler sets itself is left alone.
FillOuterCors(response) == [response EXCEPT !.cors = @ \cup {"origin", "headers", "methods"}]

Response(status, handler, as) ==
    [status |-> status, handler |-> handler, as |-> as, path |-> <<>>, query |-> <<>>, cors |-> {}]

(* The methods a handler serves to anybody, and those it serves to the        *)
(* account whose credential came.  The others it refuses.  What a "self" or   *)
(* a "secret" route asks for in its body or query is not here.                *)
Methods == {"GET", "PUT", "POST", "DELETE"}

Free(p) ==
    CASE p \in {<<"", "relay-info">>, <<"", ".well-known", "openpgpkey", "policy">>,
               <<"", ".well-known", "openpgpkey", "hu", "">>, <<"", "jmap", "push", "vapid-public-key">>,
               <<"", "admin", "dashboard">>, <<"", "metrics">>, <<"", "domain", "verify-token">>} -> Methods
      [] p \in {<<"", "setup">>, <<"", "auth", "envelope">>, <<"", "account", "session", "challenge">>,
               <<"", "admin", "accounts">>, <<"", "admin", "accounts", "">>} -> {"GET"}
      [] p \in {<<"", "auth", "signup">>, <<"", "account", "provision">>, <<"", "account", "session">>,
               <<"", "account", "devices">>, <<"", "admin", "drain-anchor">>, <<"", "domain", "add">>} -> {"POST"}
      [] OTHER -> {}

Own(p) ==
    CASE p \in {<<"", ".well-known", "jmap">>, <<"", "jmap", "eventsource", "">>} -> Methods
      [] p \in {<<"", "contacts">>, <<"", "account", "storage">>, <<"", "account", "storage", "messages">>,
               <<"", "account", "storage", "export">>} -> {"GET"}
      [] p \in {<<"", "contacts", "">>, <<"", "pgp", "pubkey">>, <<"", "auth", "envelope">>,
               <<"", "account", "did">>} -> {"PUT"}
      [] p \in {<<"", "pgp", "privkey">>, <<"", "pgp", "peerkey">>} -> {"GET", "PUT"}
      [] p = <<"", "account", "alias">> -> {"GET", "POST"}
      [] p = <<"", "account", "devices">> -> {"GET", "DELETE"}
      [] p \in {<<"", "jmap", "api", "">>, <<"", "jmap", "push", "subscribe">>,
               <<"", "jmap", "push", "unsubscribe">>, <<"", "account", "delete">>,
               <<"", "account", "migrate-to-scid">>, <<"", "account", "storage", "purge-messages">>} -> {"POST"}
      [] OTHER -> {}

\* The handlers that look at the credential before they look at the method.
AccountFirst ==
    {<<"", "pgp", "privkey">>, <<"", "account", "alias">>, <<"", "account", "devices">>,
     <<"", "jmap", "api", "">>, <<"", "jmap", "push", "subscribe">>, <<"", "jmap", "push", "unsubscribe">>}

\* Mutant: a handler that serves an account serves anybody.
HandlerOpen(auth, spec, request) ==
    LET p == spec.pattern
        asked == Credentials(p, request)
    IN  IF request.method \in Free(p) \cup Own(p) THEN Response(200, p, asked.user)
        ELSE Response(405, <<>>, <<>>)

\* auth: the credentials that are good.  200 stands for whatever the handler does then.
Handler(auth, spec, request) ==
    LET p == spec.pattern
        asked == Credentials(p, request)
    IN  IF request.method \in Free(p) THEN Response(200, p, <<>>)
        ELSE IF p \in AccountFirst /\ asked \notin auth THEN Response(401, <<>>, <<>>)
        ELSE IF request.method \notin Own(p) THEN Response(405, <<>>, <<>>)
        ELSE IF p = <<"", "contacts", "">> /\ request.path = p THEN Response(404, <<>>, <<>>)
        ELSE IF asked \notin auth THEN Response(401, <<>>, <<>>)
        ELSE Response(200, p, asked.user)

\* The bearer guard, then the handler; a pattern of the table without one answers 501.
Dispatch(tokens, auth, spec, request) ==
    LET token == IF spec.pattern = <<"", "metrics">> THEN tokens.metrics ELSE tokens.admin
    IN  IF spec.guard = "bearer" /\ ~Check(token, request.header) THEN Response(401, <<>>, <<>>)
        ELSE IF spec \in Blobs THEN Response(501, <<>>, <<>>)
        ELSE Handler(auth, spec, request)

\* OPTIONS is answered before anything is looked for.
Serve(mux, tokens, auth, request) ==
    LET route == Route({s.pattern : s \in mux}, request.path, request.query)
    IN  FillOuterCors(
            IF request.method = "OPTIONS" THEN Response(204, <<>>, <<>>)
            ELSE CASE route.kind = "redirect" -> [Response(307, <<>>, <<>>) EXCEPT !.path = route.path,
                                                                                  !.query = route.query]
                   [] route.kind = "not found" -> Response(404, <<>>, <<>>)
                   [] route.kind = "found" ->
                          Dispatch(tokens, auth, CHOOSE s \in mux : s.pattern = route.path, request))

-----------------------------------------------------------------------------
Builds == SUBSET {"anchor", "secret", "blobs"}

\* What a client may write for a pattern, or beside one.
Spelled(p) ==
    {p, Tail(p), Append(p, ""), Append(p, "x"), Append(p, "."), Append(p, ".."), p \o <<"x", "..">>,
     <<"">> \o p, <<"", "..">> \o p, <<"", "x">> \o p, <<"", "x", ".">> \o p, Front(p), <<"", "x", "..">> \o p}

User   == [user |-> <<"u">>, password |-> <<"p">>]
Tokens == [metrics : {<<>>, <<"m">>}, admin : {<<>>, <<"u", ":", "p">>}]
Headers == {<<>>, <<"Basic ", "u", ":", "p">>, <<"Basic ", "u", ":", "q">>, <<"Basic ", "?">>, <<"Bearer ">>,
            <<"Bearer ", "m">>, <<"Bearer ", "u", ":", "p">>}
Queries == {<<>>, <<[name |-> "access_token", value |-> <<>>],
                    [name |-> "access_token", value |-> <<"u", ":", "p">>],
                    [name |-> "access_token", value |-> <<"m">>]>>}

\* The full build, asked at a pattern and inside a subtree.
AnswerTo(tokens, method, path, header, query) ==
    Serve(BuildMux({"anchor", "secret", "blobs"}), tokens, {User},
          [method |-> method, path |-> path, header |-> header, query |-> query])
Paths(p) == IF Slashed(p) THEN {p, Append(Front(p), "x")} ELSE {p}

(* The routes the table has as an account's that answer somebody without one: *)
(* reading an envelope, and the two about a domain.                           *)
ServedToAnybody(s, method) == s \in CustomDomain \/ (s.pattern = <<"", "auth", "envelope">> /\ method = "GET")

(* However a path is spelled, a client that follows one redirect, with its   *)
(* query, gets an answer that is no redirect, and what answers is the most   *)
(* specific pattern its path is in.  A route of the operator opens to its    *)
(* own token alone, and to nobody without one; a route of an account, but    *)
(* for those of ServedToAnybody, and the publication of a key, which is none *)
(* in the table, act only for the account whose credential came, in a form   *)
(* the route takes, and a header that is no good is not made good by the     *)
(* query.                                                                    *)
RequestsSettle ==
    /\ \A build \in Builds : \A mux \in {BuildMux(build)} : \A patterns \in {{s.pattern : s \in mux}} :
        /\ Cardinality(mux) = Cardinality(RouteSpecs(build))
        /\ \A p \in patterns : \A path \in Spelled(p), query \in Queries :
               \A first \in {Route(patterns, path, query)} :
               \A last \in IF first.kind = "redirect" THEN {Route(patterns, first.path, first.query)} ELSE {first} :
                   /\ last.kind # "redirect" /\ last.query = query
                   /\ first.kind = "redirect" => first.path = CleanPath(first.path) /\ Rooted(first.path)
                   /\ last.kind = "not found" => p \notin {path, CleanPath(path)}
    /\ \A s \in RouteSpecs({"anchor", "secret", "blobs"}), method \in Methods, tokens \in Tokens :
       \A path \in Paths(s.pattern), header \in Headers, query \in Queries :
       \A answer \in {AnswerTo(tokens, method, path, header, query)} :
           LET own     == IF s.pattern = <<"", "metrics">> THEN tokens.metrics ELSE tokens.admin
               inQuery == query # <<>> /\ header = <<>>
               proven  == \/ header = <<"Basic ", "u", ":", "p">>
                          \/ s.pattern \in Jmap /\ (header = <<"Bearer ", "u", ":", "p">> \/ inQuery)
           IN  /\ answer.status # 307 /\ answer.handler \in {<<>>, s.pattern}
               /\ answer.as # <<>> => answer.as = <<"u">> /\ proven
               /\ answer.status = 200 /\ (s.guard = "account" \/ s.pattern = <<"", "pgp", "pubkey">>)
                      => proven \/ ServedToAnybody(s, method)
               /\ s.guard = "bearer" /\ answer.status # 401 => own # <<>> /\ header = <<"Bearer ">> \o own
               /\ s.guard = "bearer" /\ own # <<>> /\ header = <<"Bearer ">> \o own => answer.status # 401

=============================================================================
