------------------------------ MODULE Dispatch ------------------------------
(***************************************************************************)
(* A batch of JMAP method calls: the session a client is shown, result     *)
(* references between the calls (jmapserver/refs.rs), the loop that runs   *)
(* them (jmapserver/server.rs), and the way of a call to the store of its  *)
(* account (handler.rs, jmapserver/dispatch.rs), as functions.             *)
(*                                                                         *)
(* A JSON value is its kind and its content.  A string is the sequence of  *)
(* what is between its slashes: "/list/0" is <<"", "list", "0">>.  What a  *)
(* method does is the subject of other modules: here its result shows the  *)
(* account, the ids it was given and the calls that ran before it.         *)
(***************************************************************************)
EXTENDS Integers, Sequences, SequencesExt, FiniteSets, Functions, TLC

Obj(f) == <<"obj", f>>
Arr(s) == <<"arr", s>>
Str(s) == <<"str", s>>
Nothing == <<"nothing", <<>>>>

IsObj(v) == v[1] = "obj"
AsStr(v) == IF v[1] = "str" THEN v[2] ELSE <<"">>
Field(v, k) == IF IsObj(v) /\ k \in DOMAIN v[2] THEN v[2][k] ELSE Nothing

-----------------------------------------------------------------------------
(* Result references.                                                      *)

Bare  == [k \in {"#ids", "#accountId"} |-> IF k = "#ids" THEN "ids" ELSE "accountId"]
Index == [s \in {"0", "1"} |-> IF s = "0" THEN 1 ELSE 2]

\* One step of a path: a key of an object or an index of an array.
Child(v, seg) ==
    IF v[1] = "arr"
    THEN IF seg \in DOMAIN Index /\ Index[seg] <= Len(v[2]) THEN v[2][Index[seg]] ELSE Nothing
    ELSE Field(v, seg)

\* Empty segments are skipped.
JsonPath(data, path) == FoldLeft(Child, data, SelectSeq(path, LAMBDA seg : seg # ""))

Referred(ref, results) ==
    LET id == AsStr(Field(ref, "resultOf"))
    IN  IF Field(ref, "resultOf")[1] # "str" \/ Field(ref, "path")[1] # "str" \/ id \notin DOMAIN results
        THEN Nothing ELSE JsonPath(results[id], AsStr(Field(ref, "path")))

\* A plain argument comes after the reference of its name, and holds.
Resolve(args, results) ==
    IF ~IsObj(args) THEN args
    ELSE LET refs  == DOMAIN args[2] \cap DOMAIN Bare
             value == [k \in refs |-> Referred(args[2][k], results)]
         IN  IF Nothing \in Range(value) THEN Nothing
             ELSE Obj(Restrict(args[2], DOMAIN args[2] \ refs)
                      @@ [n \in {Bare[k] : k \in refs} |-> value[CHOOSE k \in refs : Bare[k] = n]])

-----------------------------------------------------------------------------
(* One call.                                                               *)

Done(v)      == [error |-> "", value |-> v]
Failed(type) == [error |-> type, value |-> Nothing]

Methods ==
    ({"Mailbox", "Email", "EmailSubmission"} \X {"get", "changes", "query", "queryChanges", "set"})
    \cup ({"Email"} \X {"copy", "import", "parse"})
    \cup ({"Thread"} \X {"get", "changes"}) \cup ({"Identity"} \X {"get", "changes", "set"})
    \cup ({"SearchSnippet"} \X {"get"}) \cup ({"VacationResponse"} \X {"get", "set"})

\* What a client sends for a state: numbers, and what is none.
ParseSince(s) == CASE s = <<"0">> -> 0 [] s = <<"1">> -> 1 [] s = <<"2">> -> 2 [] OTHER -> -1

\* The state every list of the account has.
Cur == 1

\* The methods that are asked what changed since a state; Identity/changes looks at none.
SinceMethods == ({"Mailbox", "Email", "EmailSubmission"} \X {"changes", "queryChanges"})
                \cup {<<"Thread", "changes">>}

Since(method, args) ==
    ParseSince(AsStr(Field(args, IF method[2] = "queryChanges" THEN "sinceQueryState" ELSE "sinceState")))

StoreDispatch(account, method, args, ran) ==
    IF method \notin Methods THEN Failed("serverFail")
    ELSE IF method \in SinceMethods /\ Since(method, args) \notin 0..Cur
    THEN Failed("cannotCalculateChanges")
    ELSE Done(Obj([accountId |-> Str(account), ids |-> Field(args, "ids"), ran |-> Arr(ran)]))

\* An account is known by its primary address alone.
Handle(primaries, method, args, ran) ==
    LET account == AsStr(Field(args, "accountId"))
    IN  IF account \notin primaries THEN Failed("serverFail")
        ELSE StoreDispatch(account, method, args, ran)

-----------------------------------------------------------------------------
(* The batch.                                                              *)

\* Mutant: of two results of one call id the first is kept.
RecordFirst(results, id, value) == results @@ (id :> value)

\* Of two results of one call id the later is kept.
Record(results, id, value) == (id :> value) @@ results

\* A call that is no triple gets no answer; one that fails stops nothing and leaves no result.
Step(primaries, batch, raw) ==
    IF raw[1] # "arr" THEN batch
    ELSE IF Len(raw[2]) < 3 THEN batch
    ELSE LET name == AsStr(raw[2][1])
             id   == AsStr(raw[2][3])
             args == Resolve(raw[2][2], batch.results)
             out  == IF args = Nothing THEN Failed("serverFail")
                     ELSE Handle(primaries, name, args, batch.ran)
         IN  [responses |-> Append(batch.responses, [name |-> name, id |-> id] @@ out),
              ran       |-> IF out.error = "" THEN Append(batch.ran, Str(name)) ELSE batch.ran,
              results   |-> IF out.error = "" THEN Record(batch.results, id, out.value) ELSE batch.results]

RunBatch(primaries, calls) ==
    FoldLeft(LAMBDA batch, raw : Step(primaries, batch, raw),
             [responses |-> <<>>, ran |-> <<>>, results |-> <<>>], calls).responses

\* The accounts an authenticated session shows, its own, and the one it takes for its primary.
Session(primaries, authed) ==
    LET shown == {a \in primaries : a = authed}
    IN  [accounts |-> shown, primary |-> IF shown = {} THEN <<"">> ELSE CHOOSE a \in shown : TRUE]

\* /.well-known/jmap and /jmap/api/: who asks, the method of the request, and what can be read of its body.
JmapSession(primaries, authed) ==
    IF authed = <<"">> THEN [status |-> 401] ELSE [status |-> 200] @@ Session(primaries, authed)

JmapApi(primaries, authed, request) ==
    LET answer(status, body) == [status |-> status, body |-> body]
    IN  IF authed = <<"">> THEN answer(401, <<>>)
        ELSE IF request.method # "POST" THEN answer(405, <<>>)
        ELSE IF ~request.readable THEN answer(400, <<>>)
        ELSE answer(200, RunBatch(primaries, request.calls))

-----------------------------------------------------------------------------
Me == <<"me">>

Call(method, args, id) == Arr(<<Str(method), Obj(args), Str(id)>>)
Ref(id, path) == Obj([resultOf |-> Str(id), path |-> Str(path)])

\* A call with a state, under either name.
SinceCall(method, name, state) ==
    Call(method, ("accountId" :> Str(Me)) @@ (name :> Str(<<state>>)), <<"a">>)

\* Calls whose state, if they have one, was never given out.
Unanswerable == {SinceCall(<<"Email", "changes">>, "sinceState", "-1"),
                 SinceCall(<<"Mailbox", "changes">>, "sinceState", "2"),
                 SinceCall(<<"Mailbox", "queryChanges">>, "sinceState", "1")}

\* Calls that give ids, ask for those of another, fail, or are no calls.
Calls ==
    {Call(<<"Email", "query">>, [accountId |-> Str(Me), ids |-> Str(<<w>>)], <<id>>) :
        w \in {"x", "y"}, id \in {"a", "b"}}
    \cup {Call(<<"Email", "get">>, ("accountId" :> Str(Me)) @@ ("#ids" :> Ref(<<id>>, path)), <<"b">>) :
        id \in {"a", "b"}, path \in {<<"", "ids">>, <<"ran", "", "1">>}}
    \cup {Call(<<"Email", "set">>, ("#accountId" :> Ref(<<"a">>, <<"accountId">>))
                                   @@ ("#ids" :> Ref(<<"a">>, <<"ids">>)) @@ ("ids" :> Str(<<"z">>)), <<"a">>),
          SinceCall(<<"Mailbox", "queryChanges">>, "sinceQueryState", "1"),
          Call(<<"Email", "get">>, [accountId |-> Str(<<"you">>)], <<"a">>),
          Call(<<"Email", "gone">>, [accountId |-> Str(Me)], <<"b">>),
          Call(<<"Email", "get">>, "#accountId" :> Str(Me), <<"b">>),
          Arr(<<Str(<<"Email", "get">>), Obj([accountId |-> Str(Me)])>>), Str(<<"Email", "get">>)}
    \cup Unanswerable

Triples(calls) == SelectSeq(calls, LAMBDA c : c[1] = "arr" /\ Len(c[2]) = 3)

\* The latest response before n to a call of that id that succeeded.
Latest(answers, n, id) ==
    LET at == {i \in 1..(n - 1) : answers[i].id = id /\ answers[i].error = ""}
    IN  IF at = {} THEN Nothing ELSE answers[CHOOSE i \in at : \A j \in at : j <= i].value

(* Every call of a batch that can be read is answered once, in its place,    *)
(* whatever fails around it, and runs after those before it.  A reference    *)
(* finds the result of the latest earlier call of its id that succeeded, and *)
(* fails its call when that has nothing there: never a later result, nor one *)
(* of a failed call.  What a client sends in good order for the account its  *)
(* session shows is carried out, and a call for the changes since a state    *)
(* that was never given out is told that they cannot be calculated.          *)
BatchInOrder ==
    \A n \in 1..3 : \A calls \in [1..n -> Calls] :
        LET triples == Triples(calls)
            answers == RunBatch({Me}, calls)
            worked(i) == {j \in 1..(i - 1) : answers[j].error = ""}
        IN  /\ JmapSession({Me}, Me).primary = Me
            /\ JmapApi({Me}, Me, [method |-> "POST", readable |-> TRUE, calls |-> calls]).body = answers
            /\ Len(answers) = Len(triples)
            /\ \A i \in DOMAIN answers :
                   LET args == triples[i][2][2]
                       ref  == Field(args, "#ids")
                       found == IF IsObj(ref) THEN JsonPath(Latest(answers, i, ref[2].resultOf[2]), ref[2].path[2])
                                ELSE Nothing
                   IN  /\ answers[i].name = triples[i][2][1][2] /\ answers[i].id = triples[i][2][3][2]
                       /\ IsObj(ref) /\ found = Nothing => answers[i].error = "serverFail"
                       /\ answers[i].error = "" =>
                              /\ Len(answers[i].value[2].ran[2]) = Cardinality(worked(i))
                              /\ answers[i].value[2].ids =
                                     IF "ids" \in DOMAIN args[2] THEN args[2].ids ELSE found
                       /\ Field(args, "accountId") = Str(Me) /\ (IsObj(ref) => found # Nothing)
                              /\ answers[i].name \in Methods =>
                              answers[i].error = IF triples[i] \in Unanswerable
                                                 THEN "cannotCalculateChanges" ELSE ""

=============================================================================
