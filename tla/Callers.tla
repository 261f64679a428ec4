------------------------------ MODULE Callers -------------------------------
(***************************************************************************)
(* The client that `avero generate` writes from a Go interface             *)
(* (src/codegen/client/scan.go and emit.go): the faults of the generator,  *)
(* the method that it writes, and the request of one call.                 *)
(*                                                                         *)
(* An interface is a record [base, auth, opts, embeds, methods]. A method  *)
(* is a record [directive, http, path, opts, ctx, params, results]: path   *)
(* is the sequence of its segments, records [wild, name]; opts a sequence  *)
(* of pairs <<key, fits>>. A parameter is a record [name, kind, fields]:   *)
(* kind is a kind of a text, "options" (a local struct with a query or a   *)
(* header tag) or "struct". A field of options is a record [go, wire, at,  *)
(* kind, ptr, omit].                                                       *)
(***************************************************************************)
EXTENDS Contract

Methods == {"GET", "HEAD", "POST", "PUT", "PATCH", "DELETE", "OPTIONS"}
Idempotent(m) == \/ \E i \in DOMAIN m.opts : m.opts[i] = <<"idempotent", TRUE>>
                 \/ /\ m.http \in {"GET", "HEAD", "PUT", "DELETE", "OPTIONS"}
                    /\ ~\E i \in DOMAIN m.opts : m.opts[i][1] = "idempotent"

\* The kinds that a path, a query and a header carry.
Plain(k) == k \in {"string", "int", "int8", "bool"}

Names(m) == LET wild == SelectSeq(m.path, LAMBDA s : s.wild) IN [i \in DOMAIN wild |-> wild[i].name]
Param(m, name) == {i \in DOMAIN m.params : m.params[i].name = name}
OptionParams(m) == {i \in DOMAIN m.params : m.params[i].kind = "options" /\ m.params[i].name \notin Range(Names(m))}
BodyParams(m) == {i \in DOMAIN m.params : m.params[i].name \notin Range(Names(m))} \ OptionParams(m)

ParamFaults(m) ==
    IF ~m.ctx THEN {"no context"}
    ELSE {"placeholder" : n \in {n \in Range(Names(m)) : Param(m, n) = {}}}
         \cup {"path type" : i \in {i \in DOMAIN m.params : m.params[i].name \in Range(Names(m)) /\ ~Plain(m.params[i].kind)}}
         \cup (IF Cardinality(OptionParams(m)) > 1 THEN {"two options"} ELSE {})
         \cup (IF Cardinality(BodyParams(m)) > 1 THEN {"two bodies"} ELSE {})
         \cup (IF m.http \in {"GET", "HEAD"} /\ BodyParams(m) # {} THEN {"body of a read"} ELSE {})
         \cup {"option type" : f \in {f \in UNION {Range(m.params[i].fields) : i \in OptionParams(m)} : ~Plain(f.kind)}}

\* The directive, then the parameters, then the results: each ends the scan of a
\* method that is wrong.
MethodFaults(m) ==
    IF m.directive = "none" THEN {"no directive"}
    ELSE IF m.directive = "short" THEN {"no method and no path"}
    ELSE IF m.http \notin Methods THEN {"method"}
    ELSE IF m.directive \in {"no slash", "unquoted"} THEN {m.directive}
    ELSE {"option" : i \in {i \in DOMAIN m.opts : m.opts[i][1] # "idempotent"}}
         \cup (IF ParamFaults(m) # {} THEN ParamFaults(m)
               ELSE IF m.results \in {"error", "value", "pointer"} THEN {} ELSE {"results"})

InterfaceFaults(it) ==
    IF \E i \in DOMAIN it.opts : it.opts[i][1] = "unquoted" THEN {"unquoted"}
    ELSE {"option" : i \in {i \in DOMAIN it.opts : it.opts[i][1] \notin {"timeout", "attempts", "backoff"} \/ ~it.opts[i][2]}}
    \cup (IF it.auth \in {"none", "bearer", "basic"} THEN {} ELSE {"auth"})
    \cup (IF it.base = "" THEN {"no base"} ELSE {})
    \cup (IF it.embeds THEN {"embedded"} ELSE {})
    \cup UNION {MethodFaults(it.methods[i]) : i \in DOMAIN it.methods}

-----------------------------------------------------------------------------
(* The method that the generator writes. *)


\* Its parameters: the path in the order of the path, the options, the body.
Signature(m) ==
    Names(m) \o [i \in 1..Cardinality(OptionParams(m)) |-> m.params[CHOOSE k \in OptionParams(m) : TRUE].name]
             \o [i \in 1..Cardinality(BodyParams(m)) |-> m.params[CHOOSE k \in BodyParams(m) : TRUE].name]

KindOf(m, name) == m.params[CHOOSE i \in Param(m, name) : TRUE].kind

\* The written type satisfies the interface: the same types in the same order.
Compiles(m) ==
    /\ Len(Signature(m)) = Len(m.params)
    /\ Cardinality(Range(Signature(m))) = Len(Signature(m))
    /\ \A i \in DOMAIN m.params : KindOf(m, Signature(m)[i]) = m.params[i].kind

TextOf(k, v) == CASE k = "string" -> v
                  [] k = "bool" -> IF v THEN "true" ELSE "0"
                  [] OTHER -> CHOOSE t \in DOMAIN Number : Number[t] = v

\* A member of the options: a nil pointer (the value {}) and an empty member of
\* omitempty stay out of the request.
Sent(f, v) == IF f.ptr THEN v # {} ELSE ~(f.omit /\ v = {Zero(f.kind)})

\* The request of a call. args holds the values by position, as the caller of the
\* interface passes them, and the written method reads them by position too:
\* a value for a path, a function from the fields for the options (a set of at
\* most one value each), and the members of the body.
Call(m, args, wilds) ==
    LET Value(name) == args[CHOOSE i \in DOMAIN args : Signature(m)[i] = name]
        Option(at) == LET fs == UNION {Range(m.params[i].fields) : i \in OptionParams(m)}
                          vs == [f \in fs |-> Value(m.params[CHOOSE i \in OptionParams(m) : TRUE].name)[f.go]]
                          sent == {f \in fs : f.at = at /\ Sent(f, vs[f])}
                      IN [w \in {f.wire : f \in sent} |->
                            LET f == CHOOSE f \in sent : f.wire = w
                            IN TextOf(f.kind, CHOOSE v \in vs[f] : TRUE)]
    IN [ctype |-> IF BodyParams(m) = {} THEN "none" ELSE "json", bad |-> FALSE,
        json |-> IF BodyParams(m) = {} THEN <<>> ELSE Value(m.params[CHOOSE i \in BodyParams(m) : TRUE].name),
        form |-> <<>>, files |-> <<>>, query |-> Option("query"), header |-> Option("header"),
        \* the mux gives the segments to the wildcards of the route by position
        path |-> [w \in Range(wilds) |->
                    LET n == Names(m)[CHOOSE i \in DOMAIN wilds : wilds[i] = w]
                    IN TextOf(KindOf(m, n), Value(n))]]
=============================================================================
