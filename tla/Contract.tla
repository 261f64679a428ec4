------------------------------ MODULE Contract ------------------------------
(***************************************************************************)
(* What `avero generate` makes of an input type, what the description of   *)
(* the API says of it, and what a request to its route meets: Bind and     *)
(* Validate as src/codegen writes them (scan.go, rules.go, emit.go),       *)
(* router.In, the answer of the handler (src/router) and the operation of  *)
(* src/openapi. Three readers of one struct tag, and each has its own      *)
(* parser.                                                                 *)
(*                                                                         *)
(* A field is a record [name, snake, kind, tags, skip, embedded, rules].   *)
(* tags is a function from Sources: "none" for no tag, "" for a tag with   *)
(* no name, else the name. A text of a request is a member of a small set  *)
(* of strings; a rule is a record [name, arg, values].                     *)
(***************************************************************************)
EXTENDS Naturals, Sequences, SequencesExt, FiniteSets

Put(f, k, v) == [x \in DOMAIN f \cup {k} |-> IF x = k THEN v ELSE f[x]]

Sources == {"path", "query", "form", "json", "header"}
File(k) == k \in {"file", "files"}
Text(k) == k = "string"
Numeric(k) == k \in {"int", "int8", "duration"}
Supported(k) == k \in {"string", "strings", "bool", "time"} \/ File(k) \/ Numeric(k)

-----------------------------------------------------------------------------
(* The generator: the fields that it accepts, and its faults. *)

\* The member of a source; "none" states a field that does not bind from it.
SourceName(f, src) ==
    LET tag == f.tags[src] IN
    IF src = "json" THEN IF tag \in {"", "-"} THEN "none" ELSE tag
    ELSE IF tag = "" THEN f.snake ELSE tag

RuleFits(k, r) ==
    CASE r.name = "required" -> k # "bool"
      [] r.name = "maxsize" -> File(k) /\ r.arg > 0
      [] r.name = "accept" -> File(k) /\ r.values # {}
      [] r.name \in {"min", "max"} -> Text(k) \/ Numeric(k)
      [] r.name \in {"email", "uuid"} -> Text(k)
      [] r.name = "oneof" -> r.values # {} /\ Text(k)
      [] OTHER -> FALSE

Bindable == {"path", "query", "form", "json"}
Sourced(f) == \E src \in Bindable : SourceName(f, src) # "none"

FieldFaults(f) ==
    IF f.embedded THEN {<<f.name, "embedded">>}
    ELSE IF f.skip THEN {}
    ELSE IF ~Supported(f.kind) THEN {<<f.name, "type">>}
    ELSE IF ~Sourced(f) THEN {<<f.name, "no source">>}
    ELSE {<<f.name, r>> : r \in {x \in Range(f.rules) : ~RuleFits(f.kind, x)}}

Accepted(f) == ~f.embedded /\ ~f.skip /\ Supported(f.kind) /\ Sourced(f)
ReadFields(st) == FoldLeft(LAMBDA out, f : IF Accepted(f) THEN Append(out, f) ELSE out, <<>>, st)
Faults(st) == UNION {FieldFaults(st[i]) : i \in DOMAIN st}

Binds(st, src) == \E i \in DOMAIN st : SourceName(st[i], src) # "none"
AnyFile(st) == \E i \in DOMAIN st : File(st[i].kind) /\ SourceName(st[i], "form") # "none"

-----------------------------------------------------------------------------
(* The operation of the description. *)

\* openapi reads a tag without a name as no tag.
Described(f, src) == IF f.tags[src] \in {"none", "", "-"} THEN {} ELSE {f.tags[src]}

\* Where the description puts a field: a parameter, or a member of the body.
Place(f) ==
    LET in == SelectSeq(<<"path", "query", "header", "json", "form">>, LAMBDA src : Described(f, src) # {})
    IN IF in = <<>> THEN {} ELSE {<<in[1], CHOOSE n \in Described(f, in[1]) : TRUE>>}

\* goJSONType, and the known types that a body states by their own schema.
JsonType(k, inBody) ==
    CASE k \in {"int", "int8", "duration"} -> "integer"
      [] k = "bool" -> "boolean"
      [] k \in {"strings", "files"} -> "array"
      [] k \in {"time", "file", "other"} -> IF inBody THEN "string" ELSE "object"
      [] OTHER -> "string"

\* The bounds that the rules put on the schema of a field.
Bounds(f) == {r \in Range(f.rules) : r.name \in {"min", "max", "email", "uuid", "oneof"}}
Requires(f) == \E r \in Range(f.rules) : r.name = "required"

MemberOf(f, in) == [name |-> in[2], in |-> in[1], go |-> f.name, bounds |-> Bounds(f),
                    type |-> JsonType(f.kind, in[1] \in {"json", "form"}),
                    required |-> in[1] = "path" \/ Requires(f)]

\* The direct fields of an input type; the first one holds a name of the body.
InputOf(st) ==
    FoldLeft(LAMBDA acc, f :
               acc \cup {m \in {MemberOf(f, in) : in \in Place(f)} :
                           m.in \in {"json", "form"} =>
                              ~\E o \in acc : o.in \in {"json", "form"} /\ o.name = m.name},
             {}, st)

InBody(st) == {i \in DOMAIN st : Place(st[i]) # {} /\ \A in \in Place(st[i]) : in[1] \in {"json", "form"}}
MediaTypes(st) ==
    IF \E i \in InBody(st) : File(st[i].kind) /\ Described(st[i], "form") # {} THEN {"multipart"}
    ELSE (IF \E i \in InBody(st) : Described(st[i], "json") # {} THEN {"json"} ELSE {})
         \cup (IF \E i \in InBody(st) : Described(st[i], "form") # {} THEN {"urlencoded"} ELSE {})

SuccessOf(method) == IF method = "POST" THEN 201 ELSE 200

\* What the answer of a handler carries: the schema of its type, nothing for
\* NoBody, and nothing that the description can name for an interface.
BodySchemas(body) == IF body \in {"nobody", "interface"} THEN {} ELSE {body}

\* Two answers of one status carry one of two shapes, if both name one.
MergeAnswers(first, second) == IF {} \in {first, second} THEN first ELSE first \cup second

\* The answers that a registration states: the one of its handler, then those of
\* its options. An option without a type (AnswersNothing, or AnswerHeader of a
\* status that none states yet) has "nobody".
Stated(route) ==
    <<<<IF route.body = "nobody" THEN 204 ELSE SuccessOf(route.method), route.body>>>> \o route.answers

Responses(route) ==
    LET Say(acc, a) == Put(acc, a[1], IF a[1] \in DOMAIN acc THEN MergeAnswers(acc[a[1]], BodySchemas(a[2]))
                                      ELSE BodySchemas(a[2]))
        stated == FoldLeft(Say, <<>>, Stated(route))
        bound == IF InputOf(route.input) = {} THEN stated
                 ELSE Put(Put(stated, 400, {"Problem"}), 422, {"ValidationProblem"})
    IN Put(bound, 500, {"Problem"})

-----------------------------------------------------------------------------
(* Bind. A request is a record [ctype, bad, json, form, files, query, path]: *)
(* each source a function from its members; json members are records         *)
(* [t, v] and bad states a body that does not read.                          *)

Number == [t \in {"0", "5", "300"} |-> CASE t = "0" -> 0 [] t = "5" -> 5 [] t = "300" -> 300]

Zero(k) == CASE k \in {"string", "time"} -> ""
             [] k = "bool" -> FALSE
             [] Numeric(k) -> 0
             [] OTHER -> <<>>

\* emitScalar: {} is a bind fault.
Read(k, v) ==
    CASE k = "string" -> {v}
      [] k = "strings" -> {<<v>>}
      [] k = "bool" -> IF v \in {"true", "0"} THEN {v = "true"} ELSE {}
      [] k = "int" -> IF v \in DOMAIN Number THEN {Number[v]} ELSE {}
      [] k = "int8" -> IF v \in DOMAIN Number /\ Number[v] < 128 THEN {Number[v]} ELSE {}
      [] k = "duration" -> CASE v = "0" -> {0} [] v = "5s" -> {5} [] OTHER -> {}
      [] k = "time" -> IF v = "t" THEN {"t"} ELSE {}

\* encoding/json, external: the value of a member for the type of a field.
JsonDecoded(k, m) ==
    CASE k \in {"string", "time"} -> IF m.t = "string" /\ (k = "time" => m.v = "t") THEN {m.v} ELSE {}
      [] Numeric(k) -> IF m.t = "number" /\ (k = "int8" => Number[m.v] < 128) THEN {Number[m.v]} ELSE {}
      [] k = "strings" -> IF m.t = "array" THEN {<<m.v>>} ELSE {}
      [] k = "bool" -> IF m.t = "bool" THEN {m.v = "true"} ELSE {}
      [] OTHER -> {}

\* encoding/json matches a field without a name in its tag by the name of the field.
JsonKeys(f) == CASE f.tags["json"] = "-" -> {}
                 [] f.tags["json"] \in {"none", ""} -> {f.name, f.snake}
                 [] OTHER -> {f.tags["json"]}

\* Either every value of a step reads, or the binding ends with a fault.
Fill(acc, f, found) == IF acc.fault THEN acc
                       ELSE IF found = {} THEN [acc EXCEPT !.fault = TRUE]
                       ELSE [acc EXCEPT !.in[f.name] = CHOOSE v \in found : TRUE]

\* The body decodes into the whole struct, also into the fields that bind from
\* no member of it.
FromJson(st, req, acc) ==
    IF ~Binds(ReadFields(st), "json") \/ req.ctype # "json" THEN acc
    ELSE IF req.bad THEN [acc EXCEPT !.fault = TRUE]
    ELSE FoldLeft(LAMBDA a, f : LET keys == JsonKeys(f) \cap DOMAIN req.json IN
                                IF keys = {} THEN a
                                ELSE Fill(a, f, JsonDecoded(f.kind, req.json[CHOOSE x \in keys : TRUE])),
                  acc, st)

\* The form that ParseForm or ParseMultipartForm fills.
FormRead(st, req, method) ==
    \/ req.ctype = "urlencoded" /\ method = "POST"
    \/ req.ctype = "multipart" /\ AnyFile(st)
ParseFails(st, req, method) == (AnyFile(st) \/ Binds(st, "form")) /\ FormRead(st, req, method) /\ req.bad

FromFiles(acc, f, req) ==
    LET member == SourceName(f, "form") IN
    IF ~File(f.kind) \/ req.ctype # "multipart" \/ member \notin DOMAIN req.files THEN acc
    ELSE Fill(acc, f, {<<req.files[member]>>})

\* The texts that a source carries for a field. An empty value of the path is
\* an absent one.
Carried(src, f, req) ==
    LET member == SourceName(f, src) IN
    IF File(f.kind) \/ member \notin DOMAIN req[src] \/ (src = "path" /\ req.path[member] = "") THEN {}
    ELSE {req[src][member]}

FromSource(st, src, req, acc) ==
    FoldLeft(LAMBDA a, f : LET v == Carried(src, f, req) IN
                           IF v = {} THEN a ELSE Fill(a, f, Read(f.kind, CHOOSE x \in v : TRUE)),
             acc, st)

\* The sources are the JSON body, the form, the query and the path, in that
\* order: a later source replaces an earlier one.
Bind(st, req, method) ==
    LET fields == ReadFields(st)
        start == [in |-> [n \in {st[i].name : i \in DOMAIN st} |->
                            Zero(st[CHOOSE i \in DOMAIN st : st[i].name = n].kind)],
                  fault |-> FALSE]
        json == FromJson(st, req, start)
        parsed == [json EXCEPT !.fault = @ \/ ParseFails(fields, req, method)]
        files == IF AnyFile(fields) THEN FoldLeft(LAMBDA a, f : FromFiles(a, f, req), parsed, fields) ELSE parsed
        form == IF FormRead(fields, req, method) THEN FromSource(fields, "form", req, files) ELSE files
    IN FromSource(fields, "path", req, FromSource(fields, "query", req, form))

-----------------------------------------------------------------------------
(* Validate. *)

Formats == [email |-> {"e@x"}, uuid |-> {"u-u"}]

Blank(k, v) == IF k = "string" THEN v \in {"", " "} ELSE v = Zero(k)

\* Mutant: a bound skips the value of a field that the request left out.
FailsIfSent(r, k, v) ==
    v # Zero(k) /\ r.name = "min" /\ IF Text(k) THEN Len(v) < r.arg ELSE v < r.arg

Fails(r, k, v) ==
    CASE r.name = "required" -> Blank(k, v)
      [] r.name = "min" -> IF Text(k) THEN Len(v) < r.arg ELSE v < r.arg
      [] r.name = "max" -> IF Text(k) THEN Len(v) > r.arg ELSE v > r.arg
      [] r.name \in DOMAIN Formats -> v # "" /\ v \notin Formats[r.name]
      [] r.name = "oneof" -> v # "" /\ v \notin r.values
      [] r.name = "maxsize" -> \E i \in DOMAIN v : v[i].size > r.arg
      [] r.name = "accept" -> \E i \in DOMAIN v : v[i].type = "" \/ v[i].type \notin r.values

\* The name that a message carries: the name that the person sent.
Wire(f) == LET named == SelectSeq(<<"form", "json", "query", "path">>, LAMBDA src : SourceName(f, src) # "none")
           IN IF named = <<>> THEN f.name ELSE SourceName(f, named[1])

\* The first message of a name stays.
AddMessage(msgs, name, rule) == IF name \in DOMAIN msgs THEN msgs ELSE Put(msgs, name, rule)

\* The Check method of the type records its messages last.
Validate(st, in, check) ==
    LET Rules(msgs, f) == FoldLeft(LAMBDA acc, r : IF Fails(r, f.kind, in[f.name]) THEN AddMessage(acc, Wire(f), r.name)
                                                   ELSE acc, msgs, f.rules)
        ruled == FoldLeft(Rules, <<>>, ReadFields(st))
    IN FoldLeft(LAMBDA acc, name : AddMessage(acc, name, "check"), ruled, check)

-----------------------------------------------------------------------------
(* The answer, a record [code, body, own]: own states that the application   *)
(* built it and the router only writes it. The handler sets a status ("none" *)
(* is 0) and returns a value, or an error: a problem of its own status, or   *)
(* any other error, which is 500. The set custom of a route holds what its   *)
(* application replaced: "responder", "invalid" and "error" are the options  *)
(* of the router, "response" states that the type of the value is a Response.*)

Made(code, body) == [code |-> code, body |-> body, own |-> FALSE]

\* The answer of one part of the router, or the one that the application puts
\* in its place.
Replaced(route, part, standard, built) ==
    IF part \in route.custom THEN [code |-> built.code, body |-> built.body, own |-> TRUE] ELSE standard

\* What a handler may return: nothing, a value, or a Response. The value of an
\* interface may be either.
Values(route) ==
    CASE route.body = "nobody" -> {"nothing"}
      [] "response" \in route.custom -> {"response"}
      [] route.body = "interface" -> {"value", "response"}
      [] OTHER -> {"value"}

\* Mutant: the status of NoBody is the one of the method.
AnswerByMethod(route, status, value, built) ==
    LET plain == Made(IF status # 0 THEN status ELSE SuccessOf(route.method), BodySchemas(route.body))
    IN CASE value = "response" -> [code |-> built.code, body |-> built.body, own |-> TRUE]
         [] value = "nothing" -> plain
         [] OTHER -> Replaced(route, "responder", plain, built)

\* A Response is the answer itself, with its own status and body, and a
\* responder never sees it.
AnswerOf(route, status, value, built) ==
    LET code == IF status # 0 THEN status ELSE IF route.body = "nobody" THEN 204 ELSE SuccessOf(route.method)
        plain == Made(code, BodySchemas(route.body))
    IN CASE value = "response" -> [code |-> built.code, body |-> built.body, own |-> TRUE]
         [] value = "nothing" -> plain
         [] OTHER -> Replaced(route, "responder", plain, built)

ProblemOf(err) == Made(IF err.problem THEN err.code ELSE 500, {"Problem"})
=============================================================================
