------------------------------ MODULE Exchange ------------------------------
(***************************************************************************)
(* One route from its source to its answer: `avero generate` reads the     *)
(* input type and the interface of a client, the description states the    *)
(* route, and a request arrives, from the written client or from any other *)
(* caller. Contract models the route and Callers the client.               *)
(***************************************************************************)
EXTENDS Callers

CONSTANTS Routes,      \* records [input, check, method, body, answers, wilds, custom]
          Built,       \* answers that an application builds itself: records [code, body]
          Interfaces,  \* interfaces of clients of these routes
          RequestsOf(_),  \* the requests of other callers to a route
          ArgsOf(_),      \* the arguments that a caller passes to a method
          WalkOf(_)       \* the walk of the description over types: [schemas, holders, collisions]

\* No two fields of a Go struct have one name.
RoutesAssumption ==
    \A rt \in Routes :
        /\ rt.input \in Seq(Range(rt.input)) /\ rt.check \in Seq(Range(rt.check))
        /\ rt.answers \in Seq(Range(rt.answers))
        /\ \A f \in Range(rt.input) : f.rules \in Seq(Range(f.rules))
        /\ \A f, g \in Range(rt.input) : f.name = g.name => f = g
ASSUME RoutesAssumption

VARIABLES phase,   \* sources, generated, refused, described, arrived, bound, valid, answered
          route,   \* the route of this behaviour
          iface,   \* {} or {it}: the interface of a client
          doc,     \* the operation, its schemas and the collisions of the names
          call,    \* history: {} or {[method, args]}, the call of the written client
          req,     \* {} or {r}: the request
          bind,    \* {} or {[in, fault]}: what Bind made of it
          msgs,    \* the messages of Validate
          answer   \* {} or {[code, body, own]}

exchangeVars == <<phase, route, iface, doc, call, req, bind, msgs, answer>>

NoDoc == [params |-> {}, responses |-> <<>>, types |-> {}, schemas |-> <<>>, holders |-> <<>>, collisions |-> {}]

ExchangeInit ==
    /\ phase = "sources" /\ route \in Routes
    /\ iface \in {{}} \cup {{it} : it \in Interfaces}
    /\ doc = NoDoc /\ call = {} /\ req = {} /\ bind = {}
    /\ msgs = <<>> /\ answer = {}

\* `avero generate` writes nothing when one of the two has a fault.
Generate ==
    /\ phase = "sources"
    /\ phase' = IF Faults(route.input) = {} /\ \A it \in iface : InterfaceFaults(it) = {}
                  THEN "generated" ELSE "refused"
    /\ UNCHANGED <<route, iface, doc, call, req, bind, msgs, answer>>

\* The walk of the description over the types of the answers of the route.
Describe ==
    /\ phase = "generated"
    /\ LET types == SelectSeq(<<route.body>> \o [i \in DOMAIN route.answers |-> route.answers[i][2]],
                              LAMBDA t : t \notin {"nobody", "interface"})
           walk == WalkOf(types)
       IN doc' = [params |-> InputOf(route.input), responses |-> Responses(route), types |-> MediaTypes(route.input),
                  schemas |-> walk.schemas, holders |-> walk.holders, collisions |-> walk.collisions]
    /\ phase' = IF doc'.collisions = {} THEN "described" ELSE "refused"
    /\ UNCHANGED <<route, iface, call, req, bind, msgs, answer>>

\* The mux gives an empty segment to no wildcard.
Arrives(r) == IF \E w \in DOMAIN r.path : r.path[w] = "" THEN "unmatched" ELSE "arrived"

Request(r) ==
    /\ phase = "described" /\ iface = {}
    /\ req' = {r} /\ phase' = Arrives(r)
    /\ UNCHANGED <<route, iface, doc, call, bind, msgs, answer>>

CallRoute(m, args) ==
    /\ phase = "described" /\ Compiles(m) /\ m.http = route.method
    /\ Len(Names(m)) = Len(route.wilds)
    /\ call' = {[method |-> m, args |-> args]}
    /\ req' = {Call(m, args, route.wilds)}
    /\ phase' = Arrives(Call(m, args, route.wilds))
    /\ UNCHANGED <<route, iface, doc, bind, msgs, answer>>

BindInput(r) ==
    /\ phase = "arrived"
    /\ LET b == Bind(route.input, r, route.method) IN
         /\ bind' = {b}
         /\ phase' = IF b.fault THEN "answered" ELSE "bound"
         /\ answer' = IF b.fault THEN {Made(400, {"Problem"})} ELSE {}
    /\ UNCHANGED <<route, iface, doc, call, req, msgs>>

ValidateInput(b) ==
    /\ phase = "bound"
    /\ \E check \in {<<>>, route.check} :
         msgs' = Validate(route.input, b.in, check)
    /\ phase' = IF msgs' = <<>> THEN "valid" ELSE "answered"
    /\ IF msgs' = <<>> THEN answer' = {}
       ELSE \E built \in Built :
              answer' = {Replaced(route, "invalid", Made(422, {"ValidationProblem"}), built)}
    /\ UNCHANGED <<route, iface, doc, call, req, bind>>

\* The handler answers with what its type allows, a value of it with a status
\* that the route states for it, with a problem that the route states, or with
\* any other error.
Handle ==
    /\ phase = "valid" /\ phase' = "answered"
    /\ \E built \in Built :
         \/ \E status \in {0} \cup {a[1] : a \in {a \in Range(route.answers) : a[2] = route.body}} :
              \E value \in Values(route) : answer' = {AnswerOf(route, status, value, built)}
         \/ \E code \in {a[1] : a \in {a \in Range(route.answers) : a[2] = "Problem"}} :
              answer' = {Replaced(route, "error", ProblemOf([problem |-> TRUE, code |-> code]), built)}
         \/ answer' = {Replaced(route, "error", ProblemOf([problem |-> FALSE, code |-> 0]), built)}
    /\ UNCHANGED <<route, iface, doc, call, req, bind, msgs>>

ExchangeNext ==
    \/ Generate
    \/ Describe
    \/ \E r \in RequestsOf(route) : Request(r)
    \/ \E it \in iface : \E m \in Range(it.methods) : \E args \in ArgsOf(m) : CallRoute(m, args)
    \/ \E r \in req : BindInput(r)
    \/ \E b \in bind : ValidateInput(b)
    \/ Handle

ExchangeSpec == ExchangeInit /\ [][ExchangeNext]_exchangeVars

-----------------------------------------------------------------------------
FieldNamed(name) == route.input[CHOOSE i \in DOMAIN route.input : route.input[i].name = name]

\* What a bound of a schema admits: nothing beyond it. A format and an
\* enumeration leave the empty value to the rule required.
Meets(r, k, v) ==
    LET size == IF Text(k) THEN Len(v) ELSE v IN
    CASE r.name = "min" -> ~(size < r.arg)
      [] r.name = "max" -> ~(size > r.arg)
      [] r.name = "oneof" -> v = "" \/ v \in r.values
      [] OTHER -> v = "" \/ v \in Formats[r.name]

\* A handler receives no value outside the bounds that the description states
\* for its member: the generator and the description read one tag with two
\* parsers, and a value that a request left out meets the same rules. A field
\* that the type keeps from the generator (`avero:"-"`) is described, and no rule
\* of it runs.
HandlerMeetsTheBounds ==
    phase = "valid" =>
        \A b \in bind : \A p \in doc.params :
            LET f == FieldNamed(p.go)
                v == b.in[p.go]
            IN ~f.skip => /\ \A r \in p.bounds : Meets(r, f.kind, v)
                          /\ p.required /\ p.in # "path" => ~Blank(f.kind, v)

\* A route whose description can hold what it states: what it binds or checks has
\* a name that the description reads, no option states an answer for a status
\* that the description fills itself, and of two answers of one status the one
\* without a shape is not the first.
Filled(rt) == IF InputOf(rt.input) = {} THEN {500} ELSE {400, 422, 500}
StatesWhole(rt) ==
    /\ ReadFields(rt.input) # <<>> \/ rt.check # <<>> => InputOf(rt.input) # {}
    /\ \A a \in Range(rt.answers) : a[1] \notin Filled(rt)
    /\ \A i, j \in DOMAIN Stated(rt) :
          /\ i < j /\ Stated(rt)[i][1] = Stated(rt)[j][1]
          /\ BodySchemas(Stated(rt)[i][2]) = {}
          => BodySchemas(Stated(rt)[j][2]) = {}

\* Every answer that the router makes for such a route stands in its description:
\* its status, and the type of its body. Of an answer that the application built
\* nothing is known there: the Response that a handler returns, and what a
\* responder, a validation response or an error handler of its own answers, such
\* as a form at 422.
EveryAnswerDescribed ==
    StatesWhole(route) =>
        \A a \in answer : ~a.own => a.code \in DOMAIN doc.responses /\ a.body \subseteq doc.responses[a.code]


=============================================================================
