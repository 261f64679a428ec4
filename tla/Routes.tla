------------------------------- MODULE Routes -------------------------------
(***************************************************************************)
(* How an application states its routes: the scopes of one router, the     *)
(* registry that they share, the set of modules with one probe router for  *)
(* each module, the merge of a probe into a scope, and the mux that        *)
(* Handler builds. The code is src/router/router.go, merge.go, routes.go,  *)
(* src/module/inspect.go and the paths of src/openapi/describe.go.         *)
(*                                                                         *)
(* A pattern is a record: its segments, how it ends, and whether it starts *)
(* with a slash. "exact" is /a, "tree" is /a/, "root" is /a/{$} and "stuck" *)
(* has its {$} before the end, as /{$}/a. The mux of net/http is external   *)
(* and is modelled by the requests that each pattern matches; a request     *)
(* names no host, so a pattern that the mux reads as a host matches none.   *)
(***************************************************************************)
EXTENDS Naturals, Sequences, SequencesExt, FiniteSets

CONSTANTS Lits,      \* the segments that a path can hold
          Wild,      \* the segment of a pattern that matches any of them
          Verbs,     \* the methods of a request
          Mws,       \* middleware: records [name, needs, absent]
          Groups,    \* prefixes of the groups that the wiring can open
          Calls,     \* registrations that the wiring can make
          Lists,     \* module lists that the wiring can pass to Modules
          MaxSegs,   \* bound: segments of a requested path
          MaxCalls,  \* bound: registrations of one wiring
          MaxUse,    \* bound: calls of Use
          MaxDepth   \* bound: nested groups

ASSUME WildAssumption == Wild \notin Lits
ASSUME BoundsAssumption == {MaxSegs, MaxCalls, MaxUse, MaxDepth} \subseteq Nat

\* What a Go program can pass: the pattern, the scope and the arguments of a registration, whatever they say.
Patterns == [segs : Seq(Lits \cup {Wild}), end : {"exact", "tree", "root", "stuck", "empty"}, rooted : BOOLEAN]
ScopeRecords == [prefix : Patterns, mws : Seq(Mws)]
Methods == {"*"} \cup Verbs   \* "*" is the method of a mount, which takes any
CallRecords == {c \in [kind : {"typed", "plain", "mount"}, method : Methods, pattern : Patterns,
                      absent : BOOLEAN, keep : BOOLEAN] : c.method = "*" <=> c.kind = "mount"}
NoModule == [name |-> "nil"]

ASSUME WiringAssumption == Groups \subseteq Patterns /\ Calls \subseteq CallRecords
ASSUME ListsAssumption ==
    \A ms \in Lists :
        /\ ms \in Seq(Range(ms))
        /\ \A m \in Range(ms) \ {NoModule} :
              m.scope \in ScopeRecords /\ m.calls \in Seq(CallRecords) /\ m.parts \in Seq(Range(m.parts))

Pattern(segs, end) == [segs |-> segs, end |-> end, rooted |-> TRUE]
Empty == [segs |-> <<>>, end |-> "empty", rooted |-> FALSE]
Slash == Pattern(<<>>, "tree")

Join(prefix, p) ==
    IF prefix = Empty THEN p
    ELSE IF p \in {Empty, Slash} THEN prefix
    ELSE [segs |-> prefix.segs \o p.segs, rooted |-> prefix.rooted,
          end |-> IF prefix.end \in {"root", "stuck"} \/ p.end = "stuck" THEN "stuck"
                  ELSE IF p.end = "root" THEN "root" ELSE "exact"]

\* The slash that Mount and Merge put back.
Trimmed(p) == [p EXCEPT !.end = IF @ \in {"root", "stuck"} THEN "stuck" ELSE "tree", !.rooted = @ \/ p = Empty]

-----------------------------------------------------------------------------
(* The mux. *)

Paths == {q \in [segs : UNION {[1..n -> Lits] : n \in 0..MaxSegs}, slash : BOOLEAN] :
            q.segs = <<>> => q.slash}
Requests == Verbs \X Paths

SegmentsMatch(p, q) == \A i \in 1..Len(p.segs) : p.segs[i] \in {Wild, q.segs[i]}

PathMatches(p, q) ==
    /\ p.rooted                    \* without a slash the mux reads a host
    /\ \/ /\ p.end = "exact" /\ Len(q.segs) = Len(p.segs) /\ ~q.slash
       \/ /\ p.end = "root" /\ Len(q.segs) = Len(p.segs) /\ q.slash
       \/ /\ p.end = "tree" /\ Len(q.segs) >= Len(p.segs)
          /\ Len(q.segs) = Len(p.segs) => q.slash
    /\ SegmentsMatch(p, q)

Matched(route) == {r \in Requests : /\ route.method \in {"*", r[1]}
                                    /\ PathMatches(route.pattern, r[2])}

Conflict(a, b) == LET A == Matched(a)
                      B == Matched(b)
                  IN /\ A \cap B # {}
                     /\ A \subseteq B => A = B
                     /\ B \subseteq A => A = B

\* The route that the mux picks for a request: the most specific one.
Dispatch(routes, r) ==
    LET holds == {i \in DOMAIN routes : r \in Matched(routes[i])}
    IN CHOOSE i \in holds : \A j \in holds : Matched(routes[i]) \subseteq Matched(routes[j])

\* http.StripPrefix compares text, so a wildcard in the prefix matches nothing.
Stripped(prefix, q) == prefix = <<>> \/ IsPrefix(prefix, q.segs)

\* serve gives a request to the handler of its route.
Serve(route, q) == route.mounted => Stripped(route.stripped, q)

-----------------------------------------------------------------------------
(* The registry. A site stands for the file and the line of a registration. *)

NewRegistry == [routes |-> <<>>, faults |-> <<>>]

Faulty(reg, site, why) == [reg EXCEPT !.faults = Append(@, [site |-> site, why |-> why])]

Key(route) == <<route.method, route.pattern>>

\* Mutant: a duplicate leaves without a word.
AddSilent(reg, route) ==
    IF \E i \in DOMAIN reg.routes : Key(reg.routes[i]) = Key(route)
      THEN reg ELSE [reg EXCEPT !.routes = Append(@, route)]

Add(reg, route) ==
    IF \E i \in DOMAIN reg.routes : Key(reg.routes[i]) = Key(route)
      THEN Faulty(reg, route.site, "duplicate")
      ELSE [reg EXCEPT !.routes = Append(@, route)]

Mountable(mws) == FoldLeft(LAMBDA kept, m : IF m.needs THEN kept ELSE Append(kept, m), <<>>, mws)

RegisterOp(reg, scope, c, site) ==
    LET full == Join(scope.prefix, c.pattern) IN
    IF c.pattern = Empty THEN Faulty(reg, site, "empty")
    ELSE IF ~c.pattern.rooted THEN Faulty(reg, site, "no slash")
    ELSE IF c.kind = "plain" /\ c.absent THEN Faulty(reg, site, "no handler")
    ELSE Add(reg, [method |-> c.method, pattern |-> full, mws |-> scope.mws, site |-> site,
                   mounted |-> FALSE, keep |-> FALSE, stripped |-> <<>>,
                   op |-> IF c.kind = "typed" THEN {full} ELSE {}])

Mount(reg, scope, c, site) ==
    LET full == Join(scope.prefix, c.pattern) IN
    IF c.absent THEN Faulty(reg, site, "no handler")
    ELSE Add(reg, [method |-> "*", pattern |-> Trimmed(full), mws |-> Mountable(scope.mws), site |-> site,
                   mounted |-> TRUE, keep |-> c.keep,
                   stripped |-> IF c.keep THEN <<>> ELSE full.segs, op |-> {}])

Register(reg, scope, c, site) ==
    IF c.kind = "mount" THEN Mount(reg, scope, c, site) ELSE RegisterOp(reg, scope, c, site)

\* Mutant: the mount of a module keeps the prefix that its probe removed.
MergedStale(scope, route) ==
    LET p == Join(scope.prefix, route.pattern)
        chain == scope.mws \o route.mws
    IN IF route.mounted THEN [route EXCEPT !.pattern = Trimmed(p), !.mws = Mountable(chain)]
       ELSE [route EXCEPT !.pattern = p, !.mws = chain]

Merged(scope, route) ==
    LET p == Join(scope.prefix, route.pattern)
        chain == scope.mws \o route.mws
    IN IF route.mounted
         THEN [route EXCEPT !.pattern = Trimmed(p), !.mws = Mountable(chain),
                            !.stripped = IF route.keep THEN @ ELSE p.segs]
         ELSE [route EXCEPT !.pattern = p, !.mws = chain]

Merge(reg, scope, src) ==
    LET all == FoldLeft(LAMBDA acc, route : Add(acc, Merged(scope, route)), reg, src.routes)
    IN [all EXCEPT !.faults = @ \o src.faults]

\* Handler mounts the routes in order and stops at the first that the mux refuses.
Unread(p) == \/ p.end = "stuck"
             \/ ~p.rooted /\ \/ p.segs = <<>>
                             \/ p.segs[1] = Wild                     \* a host has no wildcard
                             \/ Len(p.segs) = 1 /\ p.end = "exact"   \* and a slash ends it
Refused(routes) == {i \in DOMAIN routes : \/ Unread(routes[i].pattern)
                                          \/ \E j \in 1..(i - 1) : Conflict(routes[j], routes[i])}
HandlerFaults(reg) ==
    IF reg.faults # <<>> THEN reg.faults
    ELSE LET bad == Refused(reg.routes) IN
         IF bad = {} THEN <<>>
         ELSE <<[site |-> reg.routes[CHOOSE i \in bad : \A j \in bad : i <= j].site, why |-> "conflict"]>>

\* The path of an operation in the description of the API.
OApiPath(p) == p.segs
Report(reg) == IF reg.faults = <<>> THEN DOMAIN reg.routes ELSE {}
Operations(reg) == {<<reg.routes[i].method, OApiPath(reg.routes[i].pattern)>> :
                       i \in {k \in Report(reg) : reg.routes[k].op # {} /\ ~reg.routes[k].mounted}}

-----------------------------------------------------------------------------
(* The set of modules. Each module registers on a probe router of its own. *)

NoScope == [prefix |-> Empty, mws |-> <<>>]
NewSet == [rows |-> <<>>, probes |-> <<>>, faults |-> <<>>, owned |-> {}, parts |-> <<>>]

Probe(m, i) == FoldLeft(LAMBDA reg, k : Register(reg, m.scope, m.calls[k], <<i, k>>),
                        NewRegistry, [k \in 1..Len(m.calls) |-> k])

\* A pattern that an earlier module registered is a fault, and the row leaves it out.
ReadRoutes(set, probe) ==
    FoldLeft(LAMBDA s, route :
               IF Key(route) \in s.owned
                 THEN Faulty(s, route.site, "two modules")
                 ELSE [s EXCEPT !.owned = @ \cup {Key(route)}],
             [set EXCEPT !.faults = @ \o probe.faults], probe.routes)

\* What the module says of itself wins, member by member, over what the
\* inspection found. A set of at most one value stands for a pointer or a slice.
Given(stated, found) == IF stated = {} THEN found ELSE CHOOSE v \in stated : TRUE
Describe(m, routes) ==
    LET d == Given(m.says, [name |-> "", routes |-> {}, models |-> {}])
    IN [name |-> IF d.name = "" THEN m.name ELSE d.name,
        routes |-> Given(d.routes, routes), models |-> Given(d.models, m.models)]

\* Mutant: only a module without a name is refused.
NamedOnly(set, m, i) == IF m.name = "" THEN Faulty(set, <<i, 0>>, "no name") ELSE set

Named(set, m, i) ==
    IF m.name = "" THEN Faulty(set, <<i, 0>>, "no name")
    ELSE IF \E k \in DOMAIN set.rows : set.rows[k].name = m.name
      THEN Faulty(set, <<i, 0>>, "two modules carry the name")
    ELSE set

\* A module that is wrong still contributes, so that one report holds every
\* fault; only a nil module contributes nothing.
Inspect(set, m, i) ==
    IF m = NoModule THEN Faulty(set, <<i, 0>>, "nil module")
    ELSE LET probe == Probe(m, i)
             named == Named(set, m, i)
             read == ReadRoutes(named, probe)
             routes == read.owned \ named.owned
         IN [read EXCEPT !.probes = Append(@, probe),
                         !.parts = @ \o [k \in 1..Len(m.parts) |-> <<m.parts[k], m.name>>],
                         !.rows = Append(@, [name |-> m.name, routes |-> routes, desc |-> Describe(m, routes)])]

Modules(ms) == FoldLeft(LAMBDA s, i : Inspect(s, ms[i], i), NewSet, [i \in 1..Len(ms) |-> i])

\* `avero modules` refuses a set that is wrong. `avero schema` prints it all the same.
Contributions(s) == IF s.faults # <<>> THEN {} ELSE {s.rows[k] : k \in DOMAIN s.rows}
Schema(s) == UNION {{<<s.rows[k].name, d>> : d \in s.rows[k].desc.models} : k \in DOMAIN s.rows}

-----------------------------------------------------------------------------
VARIABLES app,      \* the registry of the router of the application
          scopes,   \* the open scopes, the innermost last
          set,      \* {} or {s}: the set that Modules returned
          list,     \* the modules that were passed to it
          calls,    \* history: the sites of the registrations that the wiring made
          attached, \* how often Attach merged the set
          used,     \* history: the middleware that Use received, in order
          phase,    \* wiring, refused (Attach returned faults), faulty or serving
          faults    \* what Attach or Handler returned

vars == <<app, scopes, set, list, calls, attached, used, phase, faults>>

Scope == scopes[Len(scopes)]

Init == /\ app = NewRegistry /\ scopes = <<NoScope>>
        /\ set = {} /\ list = <<>>
        /\ calls = {} /\ attached = 0 /\ used = <<>>
        /\ phase = "wiring" /\ faults = <<>>

Use(m) ==
    /\ phase = "wiring" /\ Len(used) < MaxUse
    /\ used' = Append(used, m)
    /\ scopes' = [scopes EXCEPT ![Len(scopes)].mws = IF m.absent THEN @ ELSE Append(@, m)]
    /\ UNCHANGED <<app, set, list, calls, attached, phase, faults>>

OpenGroup(prefix) ==
    /\ phase = "wiring" /\ Len(scopes) <= MaxDepth
    /\ scopes' = Append(scopes, [prefix |-> Join(Scope.prefix, prefix), mws |-> Scope.mws])
    /\ UNCHANGED <<app, set, list, calls, attached, used, phase, faults>>

CloseGroup ==
    /\ phase = "wiring" /\ Len(scopes) > 1
    /\ scopes' = Front(scopes)
    /\ UNCHANGED <<app, set, list, calls, attached, used, phase, faults>>

Declare(c) ==
    /\ phase = "wiring" /\ Cardinality(calls) < MaxCalls
    /\ LET site == <<0, Cardinality(calls) + 1>> IN
         /\ app' = Register(app, Scope, c, site)
         /\ calls' = calls \cup {site}
    /\ UNCHANGED <<scopes, set, list, attached, used, phase, faults>>

Compose(ms) ==
    /\ phase = "wiring" /\ set = {}
    /\ set' = {Modules(ms)} /\ list' = ms
    /\ UNCHANGED <<app, scopes, calls, attached, used, phase, faults>>

Attach(s) ==
    /\ phase = "wiring" /\ attached < 2
    /\ IF s.faults # <<>>
         THEN /\ phase' = "refused" /\ faults' = s.faults
              /\ UNCHANGED <<app, attached>>
         ELSE /\ app' = FoldLeft(LAMBDA reg, probe : Merge(reg, Scope, probe), app, s.probes)
              /\ attached' = attached + 1
              /\ UNCHANGED <<phase, faults>>
    /\ UNCHANGED <<scopes, set, list, calls, used>>

Handler ==
    /\ phase = "wiring" /\ Len(scopes) = 1
    /\ faults' = HandlerFaults(app)
    /\ phase' = IF faults' = <<>> THEN "serving" ELSE "faulty"
    /\ UNCHANGED <<app, scopes, set, list, calls, attached, used>>

Next == \/ \E m \in Mws : Use(m)
        \/ \E p \in Groups : OpenGroup(p)
        \/ CloseGroup
        \/ \E c \in Calls : Declare(c)
        \/ \E ms \in Lists : Compose(ms)
        \/ \E s \in set : Attach(s)
        \/ Handler

Spec == Init /\ [][Next]_vars

-----------------------------------------------------------------------------
Typed == {i \in DOMAIN app.routes : app.routes[i].op # {}}

ModuleSites == UNION {{<<i, k>> : k \in DOMAIN list[i].calls} : i \in {j \in DOMAIN list : list[j] # NoModule}}

\* An application that starts serves every registration of its wiring and of
\* the modules that it attached: whatever the scopes, the merges and the
\* duplicates, a registration is a route of its own or it stops the start.
EveryCallServed ==
    phase = "serving" =>
        /\ \A i \in DOMAIN app.routes : app.routes[i].site \in calls \cup ModuleSites
        /\ \A site \in calls \cup ModuleSites :
              Cardinality({i \in DOMAIN app.routes : app.routes[i].site = site}) =
                IF site \in calls THEN 1 ELSE attached

\* A request that the mux sends to a mount reaches the mounted handler, which
\* the removal of the prefix would answer 404 otherwise, and it passes no
\* middleware that must act before the first byte. This holds for a mount of
\* a module too, which Merge moves below the prefix of the scope. A prefix with
\* a wildcard is the exception: StripPrefix takes its text as it is written.
MountsAreReached ==
    phase = "serving" =>
        \A r \in UNION {Matched(app.routes[i]) : i \in DOMAIN app.routes} :
            LET route == app.routes[Dispatch(app.routes, r)]
            IN /\ Wild \notin Range(route.stripped) => Serve(route, r[2])
               /\ route.mounted => \A k \in DOMAIN route.mws : ~route.mws[k].needs

\* The table of modules and the table of routes name the same registrations:
\* what `avero modules` lists and Attach merged is what the router serves,
\* whatever description a module gives of itself.
ModulesAgree ==
    phase = "serving" /\ attached > 0 =>
        \A s \in set :
            /\ Cardinality({row.name : row \in Contributions(s)}) = Len(list)
            /\ Cardinality(UNION {row.routes : row \in Contributions(s)}) * attached =
                 Cardinality({i \in DOMAIN app.routes : app.routes[i].site \in ModuleSites})

=============================================================================
