---------------------------- MODULE RoutesProofs ----------------------------
(***************************************************************************)
(* What is proved about Routes, for any segments, methods, middleware,     *)
(* groups, registrations and lists of modules: an application that starts  *)
(* serves each registration, its table agrees with its routes and its      *)
(* mounts are reached. A probe, a merge, a table and an attachment are     *)
(* folds, so each has a lemma that says what one step adds and one that    *)
(* says what the stages of the whole fold add. RoutesInv is the invariant. *)
(***************************************************************************)
EXTENDS Routes, FoldLemmas, FiniteSetTheorems

-----------------------------------------------------------------------------
(* One registration. *)

\* What a route of a registry is, beside its type: a mount strips its own prefix, or none, and runs nothing that acts
\* before the first byte.
GoodRoute(r) ==
    r.mounted => /\ r.pattern.end \in {"tree", "stuck"}
                 /\ r.stripped = IF r.keep THEN <<>> ELSE r.pattern.segs
                 /\ \A k \in DOMAIN r.mws : ~r.mws[k].needs

Segments == Seq(Lits \cup {Wild})
RouteRecords(S) == [method : Methods, pattern : Patterns, mws : Seq(Mws), site : S, mounted : BOOLEAN, keep : BOOLEAN,
                    stripped : Segments, op : SUBSET Patterns]
GoodRoutes(S) == {r \in RouteRecords(S) : GoodRoute(r)}
Whys == {"empty", "no slash", "no handler", "duplicate", "two modules", "nil module", "no name", "two modules carry the name"}
FaultRecords == [site : Nat \X Nat, why : Whys]
\* The registries whose registrations stand at the sites of S.
Registries(S) == [routes : Seq(GoodRoutes(S)), faults : Seq(FaultRecords)]

\* One registration: it is a route of its own, at the end, or a fault.
Adds(reg, next, site) ==
    next.faults = <<>> => /\ reg.faults = <<>>
                          /\ \E r : r.site = site /\ next.routes = Append(reg.routes, r)

-----------------------------------------------------------------------------
\* A prefix and a pattern join to a pattern.
LEMMA JoinIn == ASSUME NEW a \in Patterns, NEW p \in Patterns PROVE Join(a, p) \in Patterns
<1>1. a.segs \o p.segs \in Seq(Lits \cup {Wild})
  BY DEF Patterns
<1> DEFINE last == IF a.end \in {"root", "stuck"} \/ p.end = "stuck" THEN "stuck" ELSE IF p.end = "root" THEN "root" ELSE "exact"
<1>2. last \in {"exact", "tree", "root", "stuck", "empty"}
  OBVIOUS
<1>3. Join(a, p) = IF a = Empty THEN p ELSE IF p \in {Empty, Slash} THEN a
                   ELSE [segs |-> a.segs \o p.segs, rooted |-> a.rooted, end |-> last]
  BY DEF Join
<1> HIDE DEF last
<1>4. [segs |-> a.segs \o p.segs, rooted |-> a.rooted, end |-> last] \in Patterns
  BY <1>1, <1>2 DEF Patterns
<1> QED
  BY <1>3, <1>4

\* A pattern keeps its segments under the slash that a mount puts back.
LEMMA TrimmedIn ==
  ASSUME NEW p \in Patterns
  PROVE  Trimmed(p) \in Patterns /\ Trimmed(p).segs = p.segs /\ Trimmed(p).end \in {"tree", "stuck"}
<1> DEFINE last == IF p.end \in {"root", "stuck"} THEN "stuck" ELSE "tree"
           slash == p.rooted \/ p = Empty
<1>1. last \in {"tree", "stuck"} /\ slash \in BOOLEAN
  OBVIOUS
<1>2. Trimmed(p) = [p EXCEPT !.end = last, !.rooted = slash]
  BY DEF Trimmed
<1> HIDE DEF last, slash
<1> QED
  BY <1>1, <1>2 DEF Patterns

\* A list with one more member, and one that is not empty.
LEMMA AppendSome == ASSUME NEW P, NEW o \in Seq(P), NEW p \in P PROVE Append(o, p) \in Seq(P) /\ Append(o, p) # <<>>
<1>1. Append(o, p) \in Seq(P) /\ Len(Append(o, p)) = Len(o) + 1 /\ Len(o) \in Nat
  OBVIOUS
<1>2. Len(<<>>) = 0
  OBVIOUS
<1> QED
  BY <1>1, <1>2

\* The two members of a registry.
LEMMA RegistryIs ==
  ASSUME NEW S, NEW reg \in Registries(S)
  PROVE  /\ reg = [routes |-> reg.routes, faults |-> reg.faults]
         /\ reg.routes \in Seq(GoodRoutes(S)) /\ reg.faults \in Seq(FaultRecords)
BY DEF Registries

\* A registry with a fault more.
LEMMA FaultyIn ==
  ASSUME NEW S, NEW reg \in Registries(S), NEW site \in Nat \X Nat, NEW why \in Whys
  PROVE  Faulty(reg, site, why) \in Registries(S) /\ Faulty(reg, site, why).faults # <<>>
<1> DEFINE f == [site |-> site, why |-> why]
           more == Append(reg.faults, f)
<1>1. f \in FaultRecords
  BY DEF FaultRecords
<1>2. Faulty(reg, site, why) = [reg EXCEPT !.faults = more]
  BY DEF Faulty
<1> HIDE DEF f, more
<1>3. more \in Seq(FaultRecords) /\ more # <<>>
  <2>1. reg.faults \in Seq(FaultRecords)
    BY RegistryIs
  <2> QED
    BY <1>1, <2>1, AppendSome DEF more
<1>4. [reg EXCEPT !.faults = more] \in Registries(S) /\ [reg EXCEPT !.faults = more].faults = more
  BY <1>3 DEF Registries
<1> QED
  BY <1>2, <1>3, <1>4

\* Add leaves a route of its own or a fault.
LEMMA AddDoes ==
  ASSUME NEW S, S \subseteq Nat \X Nat, NEW reg \in Registries(S), NEW route \in GoodRoutes(S)
  PROVE  Add(reg, route) \in Registries(S) /\ Adds(reg, Add(reg, route), route.site)
<1>1. CASE \E i \in DOMAIN reg.routes : Key(reg.routes[i]) = Key(route)
  <2>1. route.site \in Nat \X Nat
    BY DEF GoodRoutes, RouteRecords
  <2>2. Add(reg, route) = Faulty(reg, route.site, "duplicate")
    BY <1>1 DEF Add
  <2>3. Add(reg, route) \in Registries(S) /\ Add(reg, route).faults # <<>>
    <3>1. "duplicate" \in Whys
      BY DEF Whys
    <3> QED
      BY <2>1, <2>2, <3>1, FaultyIn
  <2> QED
    BY <2>3 DEF Adds
<1>2. CASE ~\E i \in DOMAIN reg.routes : Key(reg.routes[i]) = Key(route)
  <2>1. reg.faults \in Seq(FaultRecords) /\ reg.routes \in Seq(GoodRoutes(S)) /\ reg = [routes |-> reg.routes, faults |-> reg.faults]
    BY DEF Registries
  <2>2. Append(reg.routes, route) \in Seq(GoodRoutes(S))
    BY <2>1, AppendIn
  <2>3. Add(reg, route) = [routes |-> Append(reg.routes, route), faults |-> reg.faults]
    BY <1>2, <2>1 DEF Add
  <2> QED
    BY <2>1, <2>2, <2>3 DEF Registries, Adds
<1> QED
  BY <1>1, <1>2

-----------------------------------------------------------------------------
(* The chain of a mount. *)

\* What a middleware adds to the chain of a mount.
Kept(kept, m) == IF m.needs THEN kept ELSE Append(kept, m)
MountFold(g, mws, n) == g = [s \in SUBSET (1 .. n) |-> IF s = {} THEN <<>> ELSE Kept(g[s \ {Max(s)}], mws[Max(s)])]

\* The chain of a mount is a fold.
LEMMA MountableIs ==
  ASSUME NEW mws, NEW n \in Nat, DOMAIN mws = 1 .. n
  PROVE  Mountable(mws) = (CHOOSE g : MountFold(g, mws, n))[1 .. n]
BY DEF Mountable, FoldLeft, MapThenFoldSet, MountFold, Kept

\* The chain of a mount holds middleware of its scope, and none that acts before the first byte.
LEMMA MountableHolds ==
  ASSUME NEW M, NEW mws \in Seq(M)
  PROVE  Mountable(mws) \in Seq({m \in M : ~m.needs})
<1> DEFINE n == Len(mws)
           F == {m \in M : ~m.needs}
           B == Seq(F)
           step == [ib \in (1 .. n) \X B |-> Kept(ib[2], mws[ib[1]])]
           it == CHOOSE g : MountFold(g, mws, n)
<1>1. n \in Nat /\ DOMAIN mws = 1 .. n /\ \A i \in 1 .. n : mws[i] \in M
  OBVIOUS
<1>2. <<>> \in B
  OBVIOUS
<1>3. ASSUME NEW b \in B, NEW i \in 1 .. n PROVE Kept(b, mws[i]) \in B
  <2>1. CASE mws[i].needs
    BY <2>1 DEF Kept
  <2>2. CASE ~mws[i].needs
    <3>1. mws[i] \in F
      BY <1>1, <2>2
    <3> HIDE DEF F
    <3>2. Append(b, mws[i]) \in B
      BY <3>1, AppendIn
    <3> QED
      BY <2>2, <3>2 DEF Kept
  <2> QED
    BY <2>1, <2>2
<1> HIDE DEF n, B, F
<1>4. step \in [(1 .. n) \X B -> B]
  BY <1>3
<1>5. \A i \in 1 .. n, b \in B : step[<<i, b>>] = Kept(b, mws[i])
  OBVIOUS
<1> HIDE DEF step
<1>6. PICK g \in [SUBSET (1 .. n) -> B] : IsFold(g, n, <<>>, step)
  BY <1>1, <1>2, <1>4, FoldExists
<1>7. \A s \in SUBSET (1 .. n) : s # {} => Max(s) \in 1 .. n
  BY <1>1, Greatest
<1>8. ASSUME NEW s \in SUBSET (1 .. n), s # {}
      PROVE  step[<<Max(s), g[s \ {Max(s)}]>>] = Kept(g[s \ {Max(s)}], mws[Max(s)])
  BY <1>5, <1>6, <1>7, <1>8
<1>9. MountFold(g, mws, n)
  BY <1>6, <1>8 DEF MountFold, IsFold
<1>10. MountFold(it, mws, n)
  BY <1>9
<1> HIDE DEF it
<1>11. it[{}] = <<>>
  BY <1>10 DEF MountFold
<1>12. ASSUME NEW s \in SUBSET (1 .. n), s # {}, it[s \ {Max(s)}] \in B
       PROVE  it[s] = step[<<Max(s), it[s \ {Max(s)}]>>]
  BY <1>5, <1>7, <1>10, <1>12 DEF MountFold
<1>13. n \in Nat /\ Follows(it, n, B, <<>>, step)
  BY <1>1, <1>11, <1>12 DEF Follows
<1>14. it[1 .. n] \in B
  <2>1. Staged(it, n, B, <<>>, step)
    BY <1>2, <1>4, <1>13, FoldStages
  <2> QED
    BY <1>13, <2>1 DEF StagesOf, Staged
<1>15. Mountable(mws) = it[1 .. n]
  BY <1>1, MountableIs DEF it
<1> QED
  BY <1>14, <1>15 DEF B, F

\* A mount is a route of its own, with the chain of a mount and the prefix it strips.
LEMMA MountDoes ==
  ASSUME NEW S, S \subseteq Nat \X Nat, NEW reg \in Registries(S), NEW scope \in ScopeRecords, NEW c \in CallRecords,
         NEW site \in S
  PROVE  Mount(reg, scope, c, site) \in Registries(S) /\ Adds(reg, Mount(reg, scope, c, site), site)
<1> DEFINE full == Join(scope.prefix, c.pattern)
           route == [method |-> "*", pattern |-> Trimmed(full), mws |-> Mountable(scope.mws), site |-> site,
                     mounted |-> TRUE, keep |-> c.keep, stripped |-> IF c.keep THEN <<>> ELSE full.segs, op |-> {}]
<1>1. full \in Patterns
  <2>1. scope.prefix \in Patterns /\ c.pattern \in Patterns
    BY DEF ScopeRecords, CallRecords
  <2> QED
    BY <2>1, JoinIn
<1> HIDE DEF full
<1>2. Trimmed(full) \in Patterns /\ Trimmed(full).segs = full.segs /\ Trimmed(full).end \in {"tree", "stuck"}
  BY <1>1, TrimmedIn
<1>3. full.segs \in Segments /\ <<>> \in Segments
  BY <1>1 DEF Patterns, Segments
<1>4. Mountable(scope.mws) \in Seq({m \in Mws : ~m.needs})
  <2>1. scope.mws \in Seq(Mws)
    BY DEF ScopeRecords
  <2> QED
    BY <2>1, MountableHolds
<1> DEFINE p == Trimmed(full)
           w == Mountable(scope.mws)
<1>5. w \in Seq(Mws) /\ \A k \in DOMAIN w : ~w[k].needs
  BY <1>4
<1>6. c.keep \in BOOLEAN
  BY DEF CallRecords
<1> HIDE DEF p, w
<1>7. [method |-> "*", pattern |-> p, mws |-> w, site |-> site, mounted |-> TRUE, keep |-> c.keep,
       stripped |-> IF c.keep THEN <<>> ELSE full.segs, op |-> {}] \in GoodRoutes(S)
  <2> DEFINE r == [method |-> "*", pattern |-> p, mws |-> w, site |-> site, mounted |-> TRUE, keep |-> c.keep,
       stripped |-> IF c.keep THEN <<>> ELSE full.segs, op |-> {}]
  <2>1. r \in RouteRecords(S)
    <3>1. p \in Patterns
      BY <1>2 DEF p
    <3>2. (IF c.keep THEN <<>> ELSE full.segs) \in Segments
      BY <1>3
    <3>3. "*" \in Methods
      BY DEF Methods
    <3> QED
      BY <1>5, <1>6, <3>1, <3>2, <3>3 DEF RouteRecords
  <2>2. GoodRoute(r)
    <3>1. p.end \in {"tree", "stuck"} /\ p.segs = full.segs
      BY <1>2 DEF p
    <3> QED
      BY <1>5, <3>1 DEF GoodRoute
  <2> QED
    BY <2>1, <2>2 DEF GoodRoutes
<1>8. route \in GoodRoutes(S) /\ route.site = site
  BY <1>7 DEF p, w
<1> HIDE DEF route
<1>9. Add(reg, route) \in Registries(S) /\ Adds(reg, Add(reg, route), site)
  BY <1>8, AddDoes
<1>10. Faulty(reg, site, "no handler") \in Registries(S) /\ Adds(reg, Faulty(reg, site, "no handler"), site)
  <2>1. "no handler" \in Whys /\ site \in Nat \X Nat
    BY DEF Whys
  <2>2. Faulty(reg, site, "no handler") \in Registries(S) /\ Faulty(reg, site, "no handler").faults # <<>>
    BY <2>1, FaultyIn
  <2> QED
    BY <2>2 DEF Adds
<1>11. Mount(reg, scope, c, site) = IF c.absent THEN Faulty(reg, site, "no handler") ELSE Add(reg, route)
  BY Zenon DEF Mount, full, route
<1> QED
  BY <1>9, <1>10, <1>11

-----------------------------------------------------------------------------
(* What registrations add up to. *)

\* A registration that is no mount is a route of its own or a fault.
LEMMA RegisterOpDoes ==
  ASSUME NEW S, S \subseteq Nat \X Nat, NEW reg \in Registries(S), NEW scope \in ScopeRecords, NEW c \in CallRecords,
         NEW site \in S
  PROVE  RegisterOp(reg, scope, c, site) \in Registries(S) /\ Adds(reg, RegisterOp(reg, scope, c, site), site)
<1> DEFINE full == Join(scope.prefix, c.pattern)
           operation == IF c.kind = "typed" THEN {full} ELSE {}
           route == [method |-> c.method, pattern |-> full, mws |-> scope.mws, site |-> site,
                     mounted |-> FALSE, keep |-> FALSE, stripped |-> <<>>, op |-> operation]
<1>1. full \in Patterns
  <2>1. scope.prefix \in Patterns /\ c.pattern \in Patterns
    BY DEF ScopeRecords, CallRecords
  <2> QED
    BY <2>1, JoinIn
<1> HIDE DEF full
<1>2. operation \in SUBSET Patterns
  BY <1>1
<1>3. scope.mws \in Seq(Mws) /\ c.method \in Methods /\ <<>> \in Segments
  BY DEF ScopeRecords, CallRecords, Segments
<1> HIDE DEF operation
<1>4. route \in RouteRecords(S) /\ GoodRoute(route) /\ route.site = site
  BY <1>1, <1>2, <1>3 DEF RouteRecords, GoodRoute
<1> HIDE DEF route
<1>5. Add(reg, route) \in Registries(S) /\ Adds(reg, Add(reg, route), site)
  BY <1>4, AddDoes DEF GoodRoutes
<1>6. ASSUME NEW why \in Whys
      PROVE  Faulty(reg, site, why) \in Registries(S) /\ Adds(reg, Faulty(reg, site, why), site)
  <2>1. site \in Nat \X Nat
    OBVIOUS
  <2>2. Faulty(reg, site, why) \in Registries(S) /\ Faulty(reg, site, why).faults # <<>>
    BY <2>1, FaultyIn
  <2> QED
    BY <2>2 DEF Adds
<1>7. RegisterOp(reg, scope, c, site) = IF c.pattern = Empty THEN Faulty(reg, site, "empty")
                                        ELSE IF ~c.pattern.rooted THEN Faulty(reg, site, "no slash")
                                        ELSE IF c.kind = "plain" /\ c.absent THEN Faulty(reg, site, "no handler")
                                        ELSE Add(reg, route)
  BY Zenon DEF RegisterOp, full, operation, route
<1>8. "empty" \in Whys /\ "no slash" \in Whys /\ "no handler" \in Whys
  BY DEF Whys
<1>9. RegisterOp(reg, scope, c, site) \in {Faulty(reg, site, "empty"), Faulty(reg, site, "no slash"),
                                          Faulty(reg, site, "no handler"), Add(reg, route)}
  BY <1>7
<1> QED
  BY <1>5, <1>6, <1>8, <1>9

\* Each registration is a route of its own or a fault.
LEMMA RegisterDoes ==
  ASSUME NEW S, S \subseteq Nat \X Nat, NEW reg \in Registries(S), NEW scope \in ScopeRecords, NEW c \in CallRecords,
         NEW site \in S
  PROVE  Register(reg, scope, c, site) \in Registries(S) /\ Adds(reg, Register(reg, scope, c, site), site)
BY MountDoes, RegisterOpDoes DEF Register

\* A merge moves a route below the prefix of its scope, and a mount keeps what a mount is.
LEMMA MergedIn ==
  ASSUME NEW S, NEW scope \in ScopeRecords, NEW route \in GoodRoutes(S)
  PROVE  Merged(scope, route) \in GoodRoutes(S) /\ Merged(scope, route).site = route.site
<1> DEFINE p == Join(scope.prefix, route.pattern)
           chain == scope.mws \o route.mws
           w == Mountable(chain)
           t == Trimmed(p)
           strip == IF route.keep THEN route.stripped ELSE p.segs
<1>0. route \in RouteRecords(S) /\ GoodRoute(route)
  BY DEF GoodRoutes
<1>1. p \in Patterns
  <2>1. scope.prefix \in Patterns /\ route.pattern \in Patterns
    BY <1>0 DEF ScopeRecords, RouteRecords
  <2> QED
    BY <2>1, JoinIn
<1> HIDE DEF p
<1>2. t \in Patterns /\ t.segs = p.segs /\ t.end \in {"tree", "stuck"}
  BY <1>1, TrimmedIn
<1>3. chain \in Seq(Mws)
  <2>1. scope.mws \in Seq(Mws) /\ route.mws \in Seq(Mws)
    BY <1>0 DEF ScopeRecords, RouteRecords
  <2> QED
    BY <2>1
<1> HIDE DEF chain
<1>4. w \in Seq(Mws) /\ \A k \in DOMAIN w : ~w[k].needs
  <2>1. w \in Seq({m \in Mws : ~m.needs})
    BY <1>3, MountableHolds
  <2> HIDE DEF w
  <2> QED
    BY <2>1
<1>5. strip \in Segments
  BY <1>0, <1>1 DEF Patterns, Segments, RouteRecords
<1> HIDE DEF w, t
<1>6. CASE route.mounted
  <2> DEFINE r == [route EXCEPT !.pattern = t, !.mws = w, !.stripped = strip]
  <2>1. Merged(scope, route) = r
    BY <1>6, Zenon DEF Merged, p, chain, w, t
  <2>2. strip = IF route.keep THEN <<>> ELSE t.segs
    BY <1>0, <1>2, <1>6 DEF GoodRoute
  <2> HIDE DEF strip
  <2>3. r \in RouteRecords(S) /\ r.site = route.site
    BY <1>0, <1>2, <1>4, <1>5 DEF RouteRecords
  <2>4. r.pattern = t /\ r.mws = w /\ r.stripped = strip /\ r.keep = route.keep
    BY <1>0 DEF RouteRecords
  <2> HIDE DEF r
  <2>5. GoodRoute(r)
    BY <1>2, <1>4, <2>2, <2>4 DEF GoodRoute
  <2> QED
    BY <2>1, <2>3, <2>5 DEF GoodRoutes
<1>7. CASE ~route.mounted
  <2> DEFINE r == [route EXCEPT !.pattern = p, !.mws = chain]
  <2>1. Merged(scope, route) = r
    BY <1>7, Zenon DEF Merged, p, chain
  <2>2. r \in RouteRecords(S) /\ r.site = route.site /\ r.mounted = route.mounted
    BY <1>0, <1>1, <1>3 DEF RouteRecords
  <2> HIDE DEF r
  <2>3. GoodRoute(r)
    BY <1>7, <2>2 DEF GoodRoute
  <2> QED
    BY <2>1, <2>2, <2>3 DEF GoodRoutes
<1> QED
  BY <1>6, <1>7

\* Either b holds a fault, or it has the routes of a and one more for each of the n sites of w.
Extended(a, b, n, w) ==
    b.faults = <<>> => /\ a.faults = <<>> /\ Len(b.routes) = Len(a.routes) + n
                       /\ \A x \in 1 .. Len(a.routes) : b.routes[x].site = a.routes[x].site
                       /\ \A x \in 1 .. n : b.routes[Len(a.routes) + x].site = w[x]

\* The places of a list with one more member.
LEMMA AppendIs ==
  ASSUME NEW R, NEW s \in Seq(R), NEW r
  PROVE  /\ Len(Append(s, r)) = Len(s) + 1 /\ Len(s) \in Nat /\ DOMAIN s = 1 .. Len(s)
         /\ Append(s, r)[Len(s) + 1] = r /\ \A x \in 1 .. Len(s) : Append(s, r)[x] = s[x]
OBVIOUS

\* One registration more.
LEMMA ExtendedOnce ==
  ASSUME NEW S, NEW a \in Registries(S), NEW b \in Registries(S), NEW c \in Registries(S), NEW m \in Nat, NEW w,
         Extended(a, b, m, w), Adds(b, c, w[m + 1])
  PROVE  Extended(a, c, m + 1, w)
<1> SUFFICES ASSUME c.faults = <<>>
             PROVE  /\ a.faults = <<>> /\ Len(c.routes) = Len(a.routes) + (m + 1)
                    /\ \A x \in 1 .. Len(a.routes) : c.routes[x].site = a.routes[x].site
                    /\ \A x \in 1 .. m + 1 : c.routes[Len(a.routes) + x].site = w[x]
  BY DEF Extended
<1>1. b.faults = <<>>
  BY DEF Adds
<1>2. PICK r : r.site = w[m + 1] /\ c.routes = Append(b.routes, r)
  BY DEF Adds
<1>3. /\ a.faults = <<>> /\ Len(b.routes) = Len(a.routes) + m
      /\ \A x \in 1 .. Len(a.routes) : b.routes[x].site = a.routes[x].site
      /\ \A x \in 1 .. m : b.routes[Len(a.routes) + x].site = w[x]
  BY <1>1 DEF Extended
<1> DEFINE A == a.routes
           R == b.routes
<1>4. A \in Seq(GoodRoutes(S)) /\ R \in Seq(GoodRoutes(S))
  BY RegistryIs
<1>5. Len(A) \in Nat
  BY <1>4
<1>6. /\ Len(Append(R, r)) = Len(R) + 1 /\ Len(R) \in Nat
      /\ Append(R, r)[Len(R) + 1] = r /\ \A x \in 1 .. Len(R) : Append(R, r)[x] = R[x]
  BY <1>4, AppendIs
<1> DEFINE C == Append(R, r)
           la == Len(A)
           lb == Len(R)
<1>10. la \in Nat /\ lb = la + m /\ Len(C) = lb + 1
  BY <1>3, <1>5, <1>6
<1>11. Len(C) = la + (m + 1)
  <2> HIDE DEF la, lb, C
  <2> QED
    BY <1>10
<1>7. Len(C) = Len(A) + (m + 1)
  BY <1>11
<1>8. ASSUME NEW x \in 1 .. Len(A) PROVE C[x].site = A[x].site
  <2>1. x \in 1 .. Len(R)
    BY <1>3, <1>5
  <2> QED
    BY <1>3, <1>6, <2>1
<1>9. ASSUME NEW x \in 1 .. m + 1 PROVE C[Len(A) + x].site = w[x]
  <2>1. CASE x = m + 1
    <3>1. Len(A) + x = Len(R) + 1
      <4> HIDE DEF la, lb
      <4>1. la + x = lb + 1
        BY <1>10, <2>1
      <4> QED
        BY <4>1 DEF la, lb
    <3> QED
      BY <1>2, <1>6, <2>1, <3>1
  <2>2. CASE x # m + 1
    <3>1. x \in 1 .. m /\ Len(A) + x \in 1 .. Len(R)
      BY <1>3, <1>5, <2>2
    <3> QED
      BY <1>3, <1>6, <3>1
  <2> QED
    BY <2>1, <2>2
<1> QED
  BY <1>2, <1>3, <1>7, <1>8, <1>9

\* n registrations.
LEMMA AddsUp ==
  ASSUME NEW S, NEW n \in Nat, NEW h \in [0 .. n -> Registries(S)], NEW w, \A m \in 1 .. n : Adds(h[m - 1], h[m], w[m])
  PROVE  Extended(h[0], h[n], n, w)
<1> DEFINE Has == {m \in Nat : m <= n => Extended(h[0], h[m], m, w)}
<1>1. 0 \in Has
  <2>1. h[0] \in Registries(S)
    OBVIOUS
  <2>2. Len(h[0].routes) \in Nat
    BY <2>1 DEF Registries
  <2>3. Extended(h[0], h[0], 0, w)
    BY <2>2 DEF Extended
  <2> QED
    BY <2>3
<1>2. ASSUME NEW m \in Nat, m \in Has PROVE m + 1 \in Has
  <2> SUFFICES ASSUME m + 1 <= n PROVE Extended(h[0], h[m + 1], m + 1, w)
    OBVIOUS
  <2>1. Extended(h[0], h[m], m, w)
    BY <1>2
  <2>2. m + 1 \in 1 .. n /\ (m + 1) - 1 = m
    OBVIOUS
  <2>3. Adds(h[m], h[m + 1], w[m + 1])
    BY <2>2
  <2>4. h[0] \in Registries(S) /\ h[m] \in Registries(S) /\ h[m + 1] \in Registries(S)
    OBVIOUS
  <2> QED
    BY <2>1, <2>3, <2>4, ExtendedOnce
<1>3. n \in Has
  <2> HIDE DEF Has
  <2> QED
    BY <1>1, <1>2, SetInduction
<1> QED
  BY <1>3

-----------------------------------------------------------------------------
(* A probe and a merge. *)

\* The numbers of a list of n, and the registrations of a module in their order.
Ids(n) == [k \in 1 .. n |-> k]
Sites(i, n) == [k \in 1 .. n |-> <<i, k>>]
Stated(reg, m, i, k) == Register(reg, m.scope, m.calls[k], <<i, k>>)
ProbeFold(g, m, i, n) ==
    g = [s \in SUBSET (1 .. n) |-> IF s = {} THEN NewRegistry ELSE Stated(g[s \ {Max(s)}], m, i, Ids(n)[Max(s)])]

\* A probe is a fold.
LEMMA ProbeIs ==
  ASSUME NEW m, NEW i, NEW n \in Nat, Len(m.calls) = n
  PROVE  Probe(m, i) = (CHOOSE g : ProbeFold(g, m, i, n))[1 .. n]
<1>1. DOMAIN Ids(n) = 1 .. n
  BY DEF Ids
<1>2. Probe(m, i) = FoldLeft(LAMBDA reg, k : Register(reg, m.scope, m.calls[k], <<i, k>>), NewRegistry, Ids(n))
  BY DEF Probe, Ids
<1> QED
  BY <1>1, <1>2 DEF FoldLeft, MapThenFoldSet, ProbeFold, Stated

\* An empty registry.
LEMMA NewIn == ASSUME NEW S PROVE NewRegistry \in Registries(S) /\ NewRegistry.faults = <<>> /\ Len(NewRegistry.routes) = 0
BY DEF NewRegistry, Registries

\* The probe of a module has a route for each of its calls, in their order, or a fault.
LEMMA ProbeDoes ==
  ASSUME NEW m, NEW i \in Nat, m.scope \in ScopeRecords, m.calls \in Seq(CallRecords),
         NEW S, S \subseteq Nat \X Nat, \A k \in 1 .. Len(m.calls) : <<i, k>> \in S
  PROVE  /\ Probe(m, i) \in Registries(S)
         /\ Extended(NewRegistry, Probe(m, i), Len(m.calls), Sites(i, Len(m.calls)))
<1> DEFINE n == Len(m.calls)
           B == Registries(S)
           step == [ib \in (1 .. n) \X B |-> Stated(ib[2], m, i, Ids(n)[ib[1]])]
           it == CHOOSE g : ProbeFold(g, m, i, n)
<1>1. n \in Nat /\ \A k \in 1 .. n : m.calls[k] \in CallRecords /\ <<i, k>> \in S /\ Ids(n)[k] = k
  BY DEF Ids
<1>2. NewRegistry \in B
  BY NewIn
<1> HIDE DEF n, B
<1>3. ASSUME NEW b \in B, NEW k \in 1 .. n
      PROVE  Stated(b, m, i, Ids(n)[k]) \in B /\ Adds(b, Stated(b, m, i, Ids(n)[k]), <<i, k>>)
  <2>1. m.calls[k] \in CallRecords /\ <<i, k>> \in S /\ Ids(n)[k] = k
    BY <1>1
  <2>2. b \in Registries(S)
    BY DEF B
  <2>3. /\ Register(b, m.scope, m.calls[k], <<i, k>>) \in Registries(S)
        /\ Adds(b, Register(b, m.scope, m.calls[k], <<i, k>>), <<i, k>>)
    BY <2>1, <2>2, RegisterDoes
  <2> QED
    BY <2>1, <2>3 DEF Stated, B
<1>4. step \in [(1 .. n) \X B -> B]
  BY <1>3
<1>5. \A k \in 1 .. n, b \in B : step[<<k, b>>] = Stated(b, m, i, Ids(n)[k])
  OBVIOUS
<1> HIDE DEF step
<1>6. PICK g \in [SUBSET (1 .. n) -> B] : IsFold(g, n, NewRegistry, step)
  BY <1>1, <1>2, <1>4, FoldExists
<1>7. \A s \in SUBSET (1 .. n) : s # {} => Max(s) \in 1 .. n
  BY <1>1, Greatest
<1>8. ASSUME NEW s \in SUBSET (1 .. n), s # {}
      PROVE  step[<<Max(s), g[s \ {Max(s)}]>>] = Stated(g[s \ {Max(s)}], m, i, Ids(n)[Max(s)])
  BY <1>5, <1>6, <1>7, <1>8
<1>9. ProbeFold(g, m, i, n)
  BY <1>6, <1>8 DEF ProbeFold, IsFold
<1>10. ProbeFold(it, m, i, n)
  BY <1>9
<1> HIDE DEF it
<1>11. it[{}] = NewRegistry
  BY <1>10 DEF ProbeFold
<1>12. ASSUME NEW s \in SUBSET (1 .. n), s # {}, it[s \ {Max(s)}] \in B
       PROVE  it[s] = step[<<Max(s), it[s \ {Max(s)}]>>]
  BY <1>5, <1>7, <1>10, <1>12 DEF ProbeFold
<1>13. n \in Nat /\ Follows(it, n, B, NewRegistry, step)
  BY <1>1, <1>11, <1>12 DEF Follows
<1>14. Staged(it, n, B, NewRegistry, step)
  BY <1>2, <1>4, <1>13, FoldStages
<1>15. PICK h : StagesOf(h, n, B, NewRegistry, step) /\ h[n] = it[1 .. n]
  BY <1>14 DEF Staged
<1>16. h \in [0 .. n -> B] /\ h[0] = NewRegistry /\ \A k \in 1 .. n : h[k] = step[<<k, h[k - 1]>>]
  BY <1>15 DEF StagesOf
<1>17. ASSUME NEW k \in 1 .. n PROVE Adds(h[k - 1], h[k], Sites(i, n)[k])
  <2>1. k - 1 \in 0 .. n
    BY <1>1
  <2>2. h[k - 1] \in B
    BY <1>16, <2>1
  <2>3. h[k] = Stated(h[k - 1], m, i, Ids(n)[k])
    BY <1>5, <1>16, <2>2
  <2>4. Sites(i, n)[k] = <<i, k>>
    BY DEF Sites
  <2> QED
    BY <1>3, <2>2, <2>3, <2>4
<1>18. h[n] \in B
  BY <1>1, <1>16
<1>19. Extended(h[0], h[n], n, Sites(i, n))
  BY <1>1, <1>16, <1>17, AddsUp DEF B
<1>20. Probe(m, i) = it[1 .. n]
  BY <1>1, ProbeIs DEF it, n
<1> QED
  BY <1>15, <1>16, <1>18, <1>19, <1>20 DEF B, n

-----------------------------------------------------------------------------
\* The routes of a probe, merged one by one.
Moved(reg, scope, route) == Add(reg, Merged(scope, route))
MergeFold(g, reg, scope, routes, n) ==
    g = [s \in SUBSET (1 .. n) |-> IF s = {} THEN reg ELSE Moved(g[s \ {Max(s)}], scope, routes[Max(s)])]
MergeAll(reg, scope, routes, n) == (CHOOSE g : MergeFold(g, reg, scope, routes, n))[1 .. n]

WithFaults(reg, f) == [reg EXCEPT !.faults = @ \o f]

\* A merge is a fold, with the faults of the probe behind it.
LEMMA MergeIs ==
  ASSUME NEW reg, NEW scope, NEW src, NEW n \in Nat, DOMAIN src.routes = 1 .. n
  PROVE  Merge(reg, scope, src) = WithFaults(MergeAll(reg, scope, src.routes, n), src.faults)
<1>1. FoldLeft(LAMBDA acc, route : Add(acc, Merged(scope, route)), reg, src.routes)
        = MergeAll(reg, scope, src.routes, n)
  BY DEF FoldLeft, MapThenFoldSet, MergeFold, Moved, MergeAll
<1> QED
  BY <1>1 DEF Merge, WithFaults

\* The sites of the routes of a registry, and a registry with the faults of another one.
SitesOf(reg) == [k \in 1 .. Len(reg.routes) |-> reg.routes[k].site]

\* Faults that join leave the routes alone.
LEMMA FaultsJoined ==
  ASSUME NEW S, NEW reg \in Registries(S), NEW f \in Seq(FaultRecords)
  PROVE  /\ WithFaults(reg, f) \in Registries(S)
         /\ WithFaults(reg, f).routes = reg.routes
         /\ WithFaults(reg, f).faults = <<>> => reg.faults = <<>>
<1>1. reg.faults \in Seq(FaultRecords)
  BY RegistryIs
<1> DEFINE all == reg.faults \o f
<1>2. all \in Seq(FaultRecords) /\ (all = <<>> => reg.faults = <<>>)
  <2>1. all \in Seq(FaultRecords) /\ Len(all) = Len(reg.faults) + Len(f) /\ Len(reg.faults) \in Nat /\ Len(f) \in Nat
    BY <1>1
  <2>2. Len(<<>>) = 0
    OBVIOUS
  <2>3. ASSUME all = <<>> PROVE reg.faults = <<>>
    <3>1. Len(reg.faults) = 0
      BY <2>1, <2>2, <2>3
    <3> QED
      BY <1>1, <3>1
  <2> QED
    BY <2>1, <2>3
<1> HIDE DEF all
<1>3. /\ [reg EXCEPT !.faults = all] \in Registries(S) /\ [reg EXCEPT !.faults = all].routes = reg.routes
      /\ [reg EXCEPT !.faults = all].faults = all
  BY <1>2 DEF Registries
<1> QED
  BY <1>2, <1>3 DEF all, WithFaults

\* A merge adds a route for each route of the probe, in their order, or it leaves a fault.
LEMMA MergeDoes ==
  ASSUME NEW S, S \subseteq Nat \X Nat, NEW reg \in Registries(S), NEW scope \in ScopeRecords, NEW src \in Registries(S)
  PROVE  /\ Merge(reg, scope, src) \in Registries(S)
         /\ Extended(reg, Merge(reg, scope, src), Len(src.routes), SitesOf(src))
<1> DEFINE n == Len(src.routes)
           B == Registries(S)
           q == src.routes
           step == [ib \in (1 .. n) \X B |-> Moved(ib[2], scope, q[ib[1]])]
           it == CHOOSE g : MergeFold(g, reg, scope, q, n)
<1>0. q \in Seq(GoodRoutes(S)) /\ src.faults \in Seq(FaultRecords)
  BY RegistryIs
<1>1. n \in Nat /\ DOMAIN q = 1 .. n /\ \A k \in 1 .. n : q[k] \in GoodRoutes(S)
  BY <1>0
<1>2. reg \in B
  OBVIOUS
<1> HIDE DEF n, B, q
<1>3. ASSUME NEW b \in B, NEW k \in 1 .. n
      PROVE  Moved(b, scope, q[k]) \in B /\ Adds(b, Moved(b, scope, q[k]), q[k].site)
  <2>1. q[k] \in GoodRoutes(S)
    BY <1>1
  <2>2. b \in Registries(S)
    BY DEF B
  <2>3. Merged(scope, q[k]) \in GoodRoutes(S) /\ Merged(scope, q[k]).site = q[k].site
    BY <2>1, MergedIn
  <2>4. Add(b, Merged(scope, q[k])) \in Registries(S) /\ Adds(b, Add(b, Merged(scope, q[k])), Merged(scope, q[k]).site)
    BY <2>2, <2>3, AddDoes
  <2> QED
    BY <2>3, <2>4 DEF Moved, B
<1>4. step \in [(1 .. n) \X B -> B]
  BY <1>3
<1>5. \A k \in 1 .. n, b \in B : step[<<k, b>>] = Moved(b, scope, q[k])
  OBVIOUS
<1> HIDE DEF step
<1>6. PICK f \in [SUBSET (1 .. n) -> B] : IsFold(f, n, reg, step)
  BY <1>1, <1>2, <1>4, FoldExists
<1>7. \A s \in SUBSET (1 .. n) : s # {} => Max(s) \in 1 .. n
  BY <1>1, Greatest
<1>8. ASSUME NEW s \in SUBSET (1 .. n), s # {}
      PROVE  step[<<Max(s), f[s \ {Max(s)}]>>] = Moved(f[s \ {Max(s)}], scope, q[Max(s)])
  BY <1>5, <1>6, <1>7, <1>8
<1>9. MergeFold(f, reg, scope, q, n)
  BY <1>6, <1>8 DEF MergeFold, IsFold
<1>10. MergeFold(it, reg, scope, q, n)
  BY <1>9
<1> HIDE DEF it
<1>11. it[{}] = reg
  BY <1>10 DEF MergeFold
<1>12. ASSUME NEW s \in SUBSET (1 .. n), s # {}, it[s \ {Max(s)}] \in B
       PROVE  it[s] = step[<<Max(s), it[s \ {Max(s)}]>>]
  BY <1>5, <1>7, <1>10, <1>12 DEF MergeFold
<1>13. n \in Nat /\ Follows(it, n, B, reg, step)
  BY <1>1, <1>11, <1>12 DEF Follows
<1>14. Staged(it, n, B, reg, step)
  BY <1>2, <1>4, <1>13, FoldStages
<1>15. PICK h : StagesOf(h, n, B, reg, step) /\ h[n] = it[1 .. n]
  BY <1>14 DEF Staged
<1>16. h \in [0 .. n -> B] /\ h[0] = reg /\ \A k \in 1 .. n : h[k] = step[<<k, h[k - 1]>>]
  BY <1>15 DEF StagesOf
<1> DEFINE w == SitesOf(src)
<1>17. ASSUME NEW k \in 1 .. n PROVE Adds(h[k - 1], h[k], w[k])
  <2>1. k - 1 \in 0 .. n
    BY <1>1
  <2>2. h[k - 1] \in B
    BY <1>16, <2>1
  <2>3. h[k] = Moved(h[k - 1], scope, q[k])
    BY <1>5, <1>16, <2>2
  <2>4. w[k] = q[k].site
    BY DEF SitesOf, n, q
  <2> QED
    BY <1>3, <2>2, <2>3, <2>4
<1>18. h[n] \in B
  BY <1>1, <1>16
<1> HIDE DEF w
<1>19. Extended(h[0], h[n], n, w)
  BY <1>1, <1>16, <1>17, AddsUp DEF B
<1> DEFINE all == it[1 .. n]
           merged == WithFaults(all, src.faults)
<1>20. Merge(reg, scope, src) = merged
  <2>1. DOMAIN src.routes = 1 .. n /\ n \in Nat
    BY <1>1 DEF q
  <2>2. Merge(reg, scope, src) = WithFaults(MergeAll(reg, scope, src.routes, n), src.faults)
    BY <2>1, MergeIs
  <2>3. MergeAll(reg, scope, src.routes, n) = it[1 .. n]
    BY DEF MergeAll, it, q
  <2> QED
    BY <2>2, <2>3
<1>21. all \in Registries(S) /\ Extended(reg, all, n, w)
  BY <1>15, <1>16, <1>18, <1>19 DEF B
<1> HIDE DEF all
<1>22. merged \in Registries(S) /\ merged.routes = all.routes /\ (merged.faults = <<>> => all.faults = <<>>)
  BY <1>0, <1>21, FaultsJoined
<1> HIDE DEF merged
<1>23. Extended(reg, merged, n, w)
  BY <1>21, <1>22 DEF Extended
<1> QED
  BY <1>20, <1>22, <1>23 DEF n, w

-----------------------------------------------------------------------------
(* Counting the routes of some sites. *)

\* How many routes of a registry stand at a site of T.
At(reg, T) == {x \in DOMAIN reg.routes : reg.routes[x].site \in T}
Count(reg, T) == Cardinality(At(reg, T))

\* Two sets that share nothing.
LEMMA CountBoth ==
  ASSUME NEW X, IsFiniteSet(X), NEW Y, IsFiniteSet(Y), X \cap Y = {}
  PROVE  Cardinality(X \cup Y) = Cardinality(X) + Cardinality(Y) /\ IsFiniteSet(X \cup Y)
<1>1. /\ IsFiniteSet(X \cup Y)
      /\ Cardinality(X \cup Y) = Cardinality(X) + Cardinality(Y) - Cardinality(X \cap Y)
  BY FS_Union
<1>2. Cardinality(X \cap Y) = 0
  BY FS_EmptySet
<1>3. Cardinality(X) \in Nat /\ Cardinality(Y) \in Nat
  BY FS_CardinalityType
<1> QED
  BY <1>1, <1>2, <1>3

\* A set of numbers moved by d.
LEMMA CountShifted ==
  ASSUME NEW n \in Nat, NEW d \in Nat, NEW Y \in SUBSET (1 .. n)
  PROVE  IsFiniteSet({d + y : y \in Y}) /\ Cardinality({d + y : y \in Y}) = Cardinality(Y) /\ IsFiniteSet(Y)
<1> DEFINE Z == {d + y : y \in Y}
           f == [y \in Y |-> d + y]
<1>1. IsFiniteSet(Y)
  <2>1. 1 \in Int /\ n \in Int
    OBVIOUS
  <2>2. IsFiniteSet(1 .. n)
    BY <2>1, FS_Interval
  <2> QED
    BY <2>2, FS_Subset
<1>2. f \in Bijection(Y, Z)
  <2>1. f \in Injection(Y, Z)
    BY DEF Injection, IsInjective
  <2>2. f \in Surjection(Y, Z)
    BY DEF Surjection
  <2> QED
    BY <2>1, <2>2 DEF Bijection
<1>3. ExistsBijection(Y, Z)
  BY <1>2 DEF ExistsBijection
<1> QED
  BY <1>1, <1>3, FS_Bijection

\* The routes of a registry are finite, however they are picked.
LEMMA AtFinite ==
  ASSUME NEW S, NEW reg \in Registries(S), NEW T
  PROVE  /\ IsFiniteSet(At(reg, T)) /\ Count(reg, T) \in Nat /\ At(reg, T) \subseteq 1 .. Len(reg.routes)
         /\ At(reg, T) = {x \in 1 .. Len(reg.routes) : reg.routes[x].site \in T} /\ Len(reg.routes) \in Nat
<1>1. reg.routes \in Seq(GoodRoutes(S))
  BY RegistryIs
<1>2. DOMAIN reg.routes = 1 .. Len(reg.routes) /\ Len(reg.routes) \in Nat
  BY <1>1
<1>3. /\ At(reg, T) \subseteq 1 .. Len(reg.routes)
      /\ At(reg, T) = {x \in 1 .. Len(reg.routes) : reg.routes[x].site \in T}
  BY <1>2 DEF At
<1>4. IsFiniteSet(1 .. Len(reg.routes))
  BY <1>2, FS_Interval
<1>5. IsFiniteSet(At(reg, T))
  BY <1>3, <1>4, FS_Subset
<1> QED
  BY <1>2, <1>3, <1>5, FS_CardinalityType DEF Count

\* A registry that was extended without a fault counts what it counted and what the new sites add.
Picked(w, n, T) == {x \in 1 .. n : w[x] \in T}

\* And that is what it counts.
LEMMA CountExtended ==
  ASSUME NEW S, NEW a \in Registries(S), NEW b \in Registries(S), NEW n \in Nat, NEW w, Extended(a, b, n, w),
         b.faults = <<>>, NEW T
  PROVE  Count(b, T) = Count(a, T) + Cardinality(Picked(w, n, T))
<1> DEFINE la == Len(a.routes)
           X == At(a, T)
           Y == Picked(w, n, T)
           Z == {la + y : y \in Y}
<1>1. /\ Len(b.routes) = la + n
      /\ \A x \in 1 .. la : b.routes[x].site = a.routes[x].site
      /\ \A x \in 1 .. n : b.routes[la + x].site = w[x]
  BY DEF Extended
<1>2. /\ la \in Nat /\ X = {x \in 1 .. la : a.routes[x].site \in T} /\ IsFiniteSet(X)
      /\ At(b, T) = {x \in 1 .. Len(b.routes) : b.routes[x].site \in T}
  BY AtFinite
<1> HIDE DEF la
<1>3. IsFiniteSet(Z) /\ Cardinality(Z) = Cardinality(Y) /\ Y \subseteq 1 .. n
  <2>1. Y \in SUBSET (1 .. n)
    BY DEF Picked
  <2> HIDE DEF Y
  <2> QED
    BY <1>2, <2>1, CountShifted
<1>4. X \cap Z = {}
  BY <1>2, <1>3
<1>5. At(b, T) = X \cup Z
  <2>1. ASSUME NEW x \in At(b, T) PROVE x \in X \cup Z
    <3>1. x \in 1 .. la + n /\ b.routes[x].site \in T
      BY <1>1, <1>2
    <3>2. CASE x <= la
      BY <1>1, <1>2, <3>1, <3>2
    <3>3. CASE ~(x <= la)
      <4>1. x - la \in 1 .. n /\ la + (x - la) = x
        BY <1>2, <3>1, <3>3
      <4>2. w[x - la] \in T
        BY <1>1, <3>1, <4>1
      <4>3. x - la \in Y
        BY <4>1, <4>2 DEF Picked
      <4> HIDE DEF Y
      <4> QED
        BY <4>1, <4>3
    <3> QED
      BY <3>2, <3>3
  <2>2. ASSUME NEW x \in X PROVE x \in At(b, T)
    <3>1. x \in 1 .. la /\ x \in 1 .. la + n
      BY <1>2
    <3> QED
      BY <1>1, <1>2, <3>1
  <2>3. ASSUME NEW y \in Y PROVE la + y \in At(b, T)
    <3>1. y \in 1 .. n /\ w[y] \in T /\ la + y \in 1 .. la + n
      BY <1>2 DEF Picked
    <3> QED
      BY <1>1, <1>2, <3>1
  <2> HIDE DEF X, Y
  <2> QED
    BY <2>1, <2>2, <2>3
<1> HIDE DEF X, Y, Z
<1>6. Cardinality(X \cup Z) = Cardinality(X) + Cardinality(Z)
  BY <1>2, <1>3, <1>4, CountBoth
<1> QED
  BY <1>3, <1>5, <1>6 DEF Count, X, Y

\* What the registrations of module j add: one at the site of each, nothing at a site of another module, n in all.
LEMMA PickedOne ==
  ASSUME NEW j, NEW n \in Nat, NEW k \in 1 .. n
  PROVE  Cardinality(Picked(Sites(j, n), n, {<<j, k>>})) = 1
<1>1. Picked(Sites(j, n), n, {<<j, k>>}) = {k}
  BY DEF Picked, Sites
<1> QED
  BY <1>1, FS_Singleton

\* A site of another module is none of its.
LEMMA PickedOther ==
  ASSUME NEW j, NEW n \in Nat, NEW i, i # j, NEW k
  PROVE  Cardinality(Picked(Sites(j, n), n, {<<i, k>>})) = 0
<1>1. Picked(Sites(j, n), n, {<<i, k>>}) = {}
  BY DEF Picked, Sites
<1> QED
  BY <1>1, FS_EmptySet

\* A set that holds every site of a module picks all of them.
LEMMA PickedAll ==
  ASSUME NEW j, NEW n \in Nat, NEW T, \A k \in 1 .. n : <<j, k>> \in T
  PROVE  Cardinality(Picked(Sites(j, n), n, T)) = n
<1>1. Picked(Sites(j, n), n, T) = 1 .. n
  BY DEF Picked, Sites
<1>2. Cardinality(1 .. n) = n
  BY FS_Interval
<1> QED
  BY <1>1, <1>2

-----------------------------------------------------------------------------
(* Reading a probe into the table. *)

\* A set of modules, with rows of R, probes of P and parts of D; the keys that it owns are finite.
Keys == Methods \X Patterns
SetsOf(R, P, D) == [rows : R, probes : P, faults : Seq(FaultRecords), owned : {o \in SUBSET Keys : IsFiniteSet(o)}, parts : D]

\* A set of modules has a fault more, and owns no key less.
LEMMA SetFaulty ==
  ASSUME NEW R, NEW P, NEW D, NEW s \in SetsOf(R, P, D), NEW site \in Nat \X Nat, NEW why \in Whys
  PROVE  /\ Faulty(s, site, why) \in SetsOf(R, P, D) /\ Faulty(s, site, why).faults # <<>>
         /\ Faulty(s, site, why).owned = s.owned
<1> DEFINE f == [site |-> site, why |-> why]
           more == Append(s.faults, f)
<1>1. f \in FaultRecords
  BY DEF FaultRecords
<1>2. Faulty(s, site, why) = [s EXCEPT !.faults = more]
  BY DEF Faulty
<1> HIDE DEF f, more
<1>3. more \in Seq(FaultRecords) /\ more # <<>>
  <2>1. s.faults \in Seq(FaultRecords)
    BY DEF SetsOf
  <2> QED
    BY <1>1, <2>1, AppendSome DEF more
<1>4. /\ [s EXCEPT !.faults = more] \in SetsOf(R, P, D) /\ [s EXCEPT !.faults = more].faults = more
      /\ [s EXCEPT !.faults = more].owned = s.owned
  BY <1>3 DEF SetsOf
<1> QED
  BY <1>2, <1>3, <1>4

\* The table reads one route of a probe: it owns one key more, or there is a fault.
ReadOne(s, route) ==
    IF Key(route) \in s.owned THEN Faulty(s, route.site, "two modules") ELSE [s EXCEPT !.owned = @ \cup {Key(route)}]
Owns(s, next) ==
    /\ s.owned \subseteq next.owned
    /\ next.faults = <<>> => s.faults = <<>> /\ Cardinality(next.owned) = Cardinality(s.owned) + 1

\* A route read adds a key, or it leaves a fault.
LEMMA ReadOneDoes ==
  ASSUME NEW S, S \subseteq Nat \X Nat, NEW R, NEW P, NEW D, NEW s \in SetsOf(R, P, D), NEW route \in GoodRoutes(S)
  PROVE  ReadOne(s, route) \in SetsOf(R, P, D) /\ Owns(s, ReadOne(s, route))
<1>0. /\ s.owned \in SUBSET Keys /\ IsFiniteSet(s.owned)
      /\ s = [rows |-> s.rows, probes |-> s.probes, faults |-> s.faults, owned |-> s.owned, parts |-> s.parts]
      /\ s.rows \in R /\ s.probes \in P /\ s.faults \in Seq(FaultRecords) /\ s.parts \in D
  BY DEF SetsOf
<1>1. CASE Key(route) \in s.owned
  <2> DEFINE site == route.site
             why == "two modules"
             next == Faulty(s, site, why)
  <2>1. why \in Whys /\ site \in Nat \X Nat
    BY DEF Whys, GoodRoutes, RouteRecords
  <2>2. next \in SetsOf(R, P, D) /\ next.faults # <<>> /\ next.owned = s.owned
    <3> HIDE DEF site, why
    <3> QED
      BY <2>1, SetFaulty
  <2>3. ReadOne(s, route) = next
    BY <1>1 DEF ReadOne
  <2> HIDE DEF next
  <2> QED
    BY <2>2, <2>3 DEF Owns
<1>2. CASE Key(route) \notin s.owned
  <2> DEFINE more == s.owned \cup {Key(route)}
             next == [s EXCEPT !.owned = more]
  <2>1. Key(route) \in Keys
    BY DEF Key, Keys, GoodRoutes, RouteRecords
  <2>2. IsFiniteSet(more) /\ Cardinality(more) = Cardinality(s.owned) + 1
    BY <1>0, <1>2, FS_AddElement
  <2>3. more \in SUBSET Keys /\ s.owned \subseteq more
    BY <1>0, <2>1
  <2>4. ReadOne(s, route) = next
    BY <1>2 DEF ReadOne
  <2> HIDE DEF more
  <2>5. next \in SetsOf(R, P, D) /\ next.owned = more /\ next.faults = s.faults
    BY <2>2, <2>3 DEF SetsOf
  <2> QED
    BY <2>2, <2>3, <2>4, <2>5 DEF Owns
<1> QED
  BY <1>1, <1>2

\* The reading of a probe is a fold.
ReadFold(g, base, routes, n) ==
    g = [s \in SUBSET (1 .. n) |-> IF s = {} THEN base ELSE ReadOne(g[s \ {Max(s)}], routes[Max(s)])]

\* A fold it is.
LEMMA ReadIs ==
  ASSUME NEW s, NEW probe, NEW n \in Nat, DOMAIN probe.routes = 1 .. n
  PROVE  ReadRoutes(s, probe) = (CHOOSE g : ReadFold(g, WithFaults(s, probe.faults), probe.routes, n))[1 .. n]
BY DEF ReadRoutes, FoldLeft, MapThenFoldSet, ReadFold, ReadOne, WithFaults

\* n routes of a probe, and n keys.
LEMMA OwnsUp ==
  ASSUME NEW R, NEW P, NEW D, NEW n \in Nat, NEW h \in [0 .. n -> SetsOf(R, P, D)], \A m \in 1 .. n : Owns(h[m - 1], h[m])
  PROVE  /\ h[0].owned \subseteq h[n].owned
         /\ h[n].faults = <<>> => h[0].faults = <<>> /\ Cardinality(h[n].owned) = Cardinality(h[0].owned) + n
<1> DEFINE Good(m) == /\ h[0].owned \subseteq h[m].owned
                      /\ h[m].faults = <<>> => h[0].faults = <<>> /\ Cardinality(h[m].owned) = Cardinality(h[0].owned) + m
           Has == {m \in Nat : m <= n => Good(m)}
<1>0. ASSUME NEW m \in 0 .. n PROVE Cardinality(h[m].owned) \in Nat
  <2>1. h[m] \in SetsOf(R, P, D)
    OBVIOUS
  <2>2. IsFiniteSet(h[m].owned)
    BY <2>1 DEF SetsOf
  <2> QED
    BY <2>2, FS_CardinalityType
<1>1. 0 \in Has
  BY <1>0
<1>2. ASSUME NEW m \in Nat, m \in Has PROVE m + 1 \in Has
  <2> SUFFICES ASSUME m + 1 <= n PROVE Good(m + 1)
    <3> HIDE DEF Good
    <3> QED
      OBVIOUS
  <2>1. Good(m)
    <3> HIDE DEF Good
    <3> QED
      BY <1>2
  <2>2. m + 1 \in 1 .. n /\ (m + 1) - 1 = m /\ m \in 0 .. n /\ 0 \in 0 .. n
    OBVIOUS
  <2>3. Owns(h[m], h[m + 1])
    BY <2>2
  <2>4. h[0].owned \subseteq h[m + 1].owned
    BY <2>1, <2>3 DEF Owns
  <2>5. ASSUME h[m + 1].faults = <<>>
        PROVE  h[0].faults = <<>> /\ Cardinality(h[m + 1].owned) = Cardinality(h[0].owned) + (m + 1)
    <3>1. h[m].faults = <<>> /\ Cardinality(h[m + 1].owned) = Cardinality(h[m].owned) + 1
      BY <2>3, <2>5 DEF Owns
    <3>2. h[0].faults = <<>> /\ Cardinality(h[m].owned) = Cardinality(h[0].owned) + m
      BY <2>1, <3>1
    <3>3. Cardinality(h[0].owned) \in Nat
      BY <1>0, <2>2
    <3> DEFINE c == Cardinality(h[0].owned)
    <3>4. Cardinality(h[m + 1].owned) = (c + m) + 1 /\ c \in Nat
      BY <3>1, <3>2, <3>3
    <3> HIDE DEF c
    <3>5. (c + m) + 1 = c + (m + 1)
      BY <3>4
    <3> QED
      BY <3>2, <3>4, <3>5 DEF c
  <2> QED
    BY <2>4, <2>5
<1>3. n \in Has
  <2> HIDE DEF Has
  <2> QED
    BY <1>1, <1>2, SetInduction
<1>4. Good(n)
  <2> HIDE DEF Good
  <2> QED
    BY <1>3
<1> QED
  BY <1>4

-----------------------------------------------------------------------------
(* One module of the table. *)

\* A set of modules with the faults of a probe.
LEMMA SetJoined ==
  ASSUME NEW R, NEW P, NEW D, NEW s \in SetsOf(R, P, D), NEW f \in Seq(FaultRecords)
  PROVE  /\ WithFaults(s, f) \in SetsOf(R, P, D) /\ WithFaults(s, f).owned = s.owned
         /\ WithFaults(s, f).faults = <<>> => s.faults = <<>> /\ f = <<>>
<1>1. s.faults \in Seq(FaultRecords)
  BY DEF SetsOf
<1> DEFINE all == s.faults \o f
<1>2. all \in Seq(FaultRecords) /\ (all = <<>> => s.faults = <<>> /\ f = <<>>)
  <2>1. all \in Seq(FaultRecords) /\ Len(all) = Len(s.faults) + Len(f) /\ Len(s.faults) \in Nat /\ Len(f) \in Nat
    BY <1>1
  <2>2. Len(<<>>) = 0
    OBVIOUS
  <2>3. ASSUME all = <<>> PROVE s.faults = <<>> /\ f = <<>>
    <3>1. Len(s.faults) = 0 /\ Len(f) = 0
      BY <2>1, <2>2, <2>3
    <3> QED
      BY <1>1, <3>1
  <2> QED
    BY <2>1, <2>3
<1> HIDE DEF all
<1>3. /\ [s EXCEPT !.faults = all] \in SetsOf(R, P, D) /\ [s EXCEPT !.faults = all].owned = s.owned
      /\ [s EXCEPT !.faults = all].faults = all
  BY <1>2 DEF SetsOf
<1> QED
  BY <1>2, <1>3 DEF all, WithFaults

\* A table that reads a probe owns a key more for each of its routes, or it has a fault.
ReadsAll(s, next, probe) ==
    /\ s.owned \subseteq next.owned
    /\ next.faults = <<>> => /\ s.faults = <<>> /\ probe.faults = <<>>
                             /\ Cardinality(next.owned) = Cardinality(s.owned) + Len(probe.routes)

\* A probe without a fault adds as many keys as it has routes.
LEMMA ReadDoes ==
  ASSUME NEW S, S \subseteq Nat \X Nat, NEW R, NEW P, NEW D, NEW s \in SetsOf(R, P, D), NEW probe \in Registries(S)
  PROVE  ReadRoutes(s, probe) \in SetsOf(R, P, D) /\ ReadsAll(s, ReadRoutes(s, probe), probe)
<1> DEFINE n == Len(probe.routes)
           q == probe.routes
           B == SetsOf(R, P, D)
           base == WithFaults(s, probe.faults)
           step == [ib \in (1 .. n) \X B |-> ReadOne(ib[2], q[ib[1]])]
           it == CHOOSE g : ReadFold(g, base, q, n)
<1>0. q \in Seq(GoodRoutes(S)) /\ probe.faults \in Seq(FaultRecords)
  BY RegistryIs
<1>1. n \in Nat /\ DOMAIN q = 1 .. n /\ \A k \in 1 .. n : q[k] \in GoodRoutes(S)
  BY <1>0
<1>2. base \in B /\ base.owned = s.owned /\ (base.faults = <<>> => s.faults = <<>> /\ probe.faults = <<>>)
  BY <1>0, SetJoined
<1>20. ReadRoutes(s, probe) = it[1 .. n]
  <2>1. n \in Nat /\ DOMAIN probe.routes = 1 .. n
    BY <1>1
  <2>2. ReadRoutes(s, probe) = (CHOOSE g : ReadFold(g, WithFaults(s, probe.faults), probe.routes, n))[1 .. n]
    BY <2>1, ReadIs
  <2> QED
    BY <2>2
<1> HIDE DEF n, B, q, base
<1>3. ASSUME NEW b \in B, NEW k \in 1 .. n
      PROVE  ReadOne(b, q[k]) \in B /\ Owns(b, ReadOne(b, q[k]))
  <2>1. q[k] \in GoodRoutes(S) /\ b \in SetsOf(R, P, D)
    BY <1>1 DEF B
  <2> QED
    BY <2>1, ReadOneDoes DEF B
<1>4. step \in [(1 .. n) \X B -> B]
  BY <1>3
<1>5. \A k \in 1 .. n, b \in B : step[<<k, b>>] = ReadOne(b, q[k])
  OBVIOUS
<1> HIDE DEF step
<1>6. PICK g \in [SUBSET (1 .. n) -> B] : IsFold(g, n, base, step)
  BY <1>1, <1>2, <1>4, FoldExists
<1>7. \A s1 \in SUBSET (1 .. n) : s1 # {} => Max(s1) \in 1 .. n
  BY <1>1, Greatest
<1>8. ASSUME NEW s1 \in SUBSET (1 .. n), s1 # {}
      PROVE  step[<<Max(s1), g[s1 \ {Max(s1)}]>>] = ReadOne(g[s1 \ {Max(s1)}], q[Max(s1)])
  BY <1>5, <1>6, <1>7, <1>8
<1>9. ReadFold(g, base, q, n)
  BY <1>6, <1>8 DEF ReadFold, IsFold
<1>10. ReadFold(it, base, q, n)
  BY <1>9
<1> HIDE DEF it
<1>11. it[{}] = base
  BY <1>10 DEF ReadFold
<1>12. ASSUME NEW s1 \in SUBSET (1 .. n), s1 # {}, it[s1 \ {Max(s1)}] \in B
       PROVE  it[s1] = step[<<Max(s1), it[s1 \ {Max(s1)}]>>]
  BY <1>5, <1>7, <1>10, <1>12 DEF ReadFold
<1>13. n \in Nat /\ Follows(it, n, B, base, step)
  BY <1>1, <1>11, <1>12 DEF Follows
<1>14. Staged(it, n, B, base, step)
  BY <1>2, <1>4, <1>13, FoldStages
<1>15. PICK h : StagesOf(h, n, B, base, step) /\ h[n] = it[1 .. n]
  BY <1>14 DEF Staged
<1>16. h \in [0 .. n -> B] /\ h[0] = base /\ \A k \in 1 .. n : h[k] = step[<<k, h[k - 1]>>]
  BY <1>15 DEF StagesOf
<1>17. ASSUME NEW k \in 1 .. n PROVE Owns(h[k - 1], h[k])
  <2>1. k - 1 \in 0 .. n
    BY <1>1
  <2>2. h[k - 1] \in B
    BY <1>16, <2>1
  <2>3. h[k] = ReadOne(h[k - 1], q[k])
    BY <1>5, <1>16, <2>2
  <2> QED
    BY <1>3, <2>2, <2>3
<1>18. h[n] \in B
  BY <1>1, <1>16
<1>19. /\ h[0].owned \subseteq h[n].owned
       /\ h[n].faults = <<>> => h[0].faults = <<>> /\ Cardinality(h[n].owned) = Cardinality(h[0].owned) + n
  BY <1>1, <1>16, <1>17, OwnsUp DEF B
<1>21. ReadRoutes(s, probe) = h[n]
  BY <1>15, <1>20
<1> QED
  BY <1>2, <1>16, <1>18, <1>19, <1>21 DEF ReadsAll, B, n

-----------------------------------------------------------------------------
\* The row of a module that registered the keys r.
RowOf(m, r) == [name |-> m.name, routes |-> r, desc |-> Describe(m, r)]

\* What one module adds to a set without a fault: its probe, its row and the keys of its calls.
Inspected(s, next, m, i) ==
    next.faults = <<>> =>
        /\ s.faults = <<>> /\ m # NoModule /\ Probe(m, i).faults = <<>>
        /\ next.probes = Append(s.probes, Probe(m, i))
        /\ next.rows = Append(s.rows, RowOf(m, next.owned \ s.owned))
        /\ \A k \in DOMAIN s.rows : s.rows[k].name # m.name
        /\ s.owned \subseteq next.owned
        /\ Cardinality(next.owned) = Cardinality(s.owned) + Len(m.calls)

\* What a module is, and the rows R, the parts X and the sites S that hold what it adds.
ModuleOf(m, i, S, R, X) ==
    /\ m.scope \in ScopeRecords /\ m.calls \in Seq(CallRecords) /\ m.parts \in Seq(Range(m.parts))
    /\ \A k \in 1 .. Len(m.calls) : <<i, k>> \in S
    /\ \A k \in Nat : <<m.parts[k], m.name>> \in X
    /\ \A r \in SUBSET Keys : RowOf(m, r) \in R

\* The name of a module is a fault or it is new.
LEMMA NamedDoes ==
  ASSUME NEW R, NEW P, NEW D, NEW s \in SetsOf(R, P, D), NEW m, NEW i \in Nat
  PROVE  /\ Named(s, m, i) \in SetsOf(R, P, D) /\ Named(s, m, i).owned = s.owned
         /\ Named(s, m, i).faults = <<>> => Named(s, m, i) = s /\ \A k \in DOMAIN s.rows : s.rows[k].name # m.name
<1>1. <<i, 0>> \in Nat \X Nat /\ "no name" \in Whys /\ "two modules carry the name" \in Whys
  BY DEF Whys
<1> DEFINE site == <<i, 0>>
           no == "no name"
           two == "two modules carry the name"
           dup == \E k \in DOMAIN s.rows : s.rows[k].name = m.name
<1>2. site \in Nat \X Nat /\ no \in Whys /\ two \in Whys
  BY <1>1
<1>3. Named(s, m, i) = IF m.name = "" THEN Faulty(s, site, no) ELSE IF dup THEN Faulty(s, site, two) ELSE s
  BY DEF Named
<1> HIDE DEF site, no, two
<1>4. \A why \in {no, two} : /\ Faulty(s, site, why) \in SetsOf(R, P, D) /\ Faulty(s, site, why).faults # <<>>
                             /\ Faulty(s, site, why).owned = s.owned
  BY <1>2, SetFaulty
<1> QED
  BY <1>3, <1>4

\* The parts of a module, each with its name.
PartsOf(m) == [k \in 1 .. Len(m.parts) |-> <<m.parts[k], m.name>>]

\* A table with other probes, parts and rows.
Rewrite(r, a, b, c) == [r EXCEPT !.probes = a, !.parts = b, !.rows = c]

\* A table rewritten stays a table.
LEMMA RewriteIn ==
  ASSUME NEW R, NEW P, NEW D, NEW r \in SetsOf(R, P, D), NEW P2, NEW a \in P2, NEW D2, NEW b \in D2, NEW R2, NEW c \in R2
  PROVE  Rewrite(r, a, b, c) \in SetsOf(R2, P2, D2)
BY DEF SetsOf, Rewrite

\* Its rows and probes are the new ones, its faults and its keys the old ones.
LEMMA RewriteIs ==
  ASSUME NEW R, NEW P, NEW D, NEW r \in SetsOf(R, P, D), NEW a, NEW b, NEW c
  PROVE  /\ Rewrite(r, a, b, c).rows = c /\ Rewrite(r, a, b, c).probes = a
         /\ Rewrite(r, a, b, c).faults = r.faults /\ Rewrite(r, a, b, c).owned = r.owned
BY DEF SetsOf, Rewrite

\* One module of the set: its probe, its row and its keys, or a fault.
LEMMA InspectDoes ==
  ASSUME NEW S, S \subseteq Nat \X Nat, NEW R, NEW X, NEW m, NEW i \in Nat,
         NEW s \in SetsOf(Seq(R), Seq(Registries(S)), Seq(X)), m # NoModule => ModuleOf(m, i, S, R, X)
  PROVE  /\ Inspect(s, m, i) \in SetsOf(Seq(R), Seq(Registries(S)), Seq(X))
         /\ Inspected(s, Inspect(s, m, i), m, i)
<1> DEFINE B == SetsOf(Seq(R), Seq(Registries(S)), Seq(X))
<1>1. CASE m = NoModule
  <2> DEFINE site == <<i, 0>>
             why == "nil module"
             next == Faulty(s, site, why)
  <2>1. why \in Whys /\ site \in Nat \X Nat
    BY DEF Whys
  <2>2. Inspect(s, m, i) = next
    BY <1>1 DEF Inspect
  <2> HIDE DEF why, site
  <2>3. next \in B /\ next.faults # <<>>
    BY <2>1, SetFaulty
  <2> HIDE DEF next
  <2> QED
    BY <2>2, <2>3 DEF Inspected
<1>2. CASE m # NoModule
  <2> DEFINE probe == Probe(m, i)
             named == Named(s, m, i)
             read == ReadRoutes(named, probe)
             row == RowOf(m, read.owned \ named.owned)
             parts == PartsOf(m)
             next == [read EXCEPT !.probes = Append(@, probe), !.parts = @ \o parts, !.rows = Append(@, row)]
  <2>0. ModuleOf(m, i, S, R, X)
    BY <1>2
  <2>1. Inspect(s, m, i) = next
    BY <1>2, Zenon DEF Inspect, RowOf, PartsOf
  <2>2. probe \in Registries(S) /\ Extended(NewRegistry, probe, Len(m.calls), Sites(i, Len(m.calls)))
    BY <2>0, ProbeDoes DEF ModuleOf
  <2>3. named \in SetsOf({s.rows}, {s.probes}, {s.parts}) /\ named.owned = s.owned
        /\ (named.faults = <<>> => named = s /\ \A k \in DOMAIN s.rows : s.rows[k].name # m.name)
    <3>1. s \in SetsOf({s.rows}, {s.probes}, {s.parts})
      BY DEF SetsOf
    <3> QED
      BY <3>1, NamedDoes
  <2> HIDE DEF named, probe
  <2>4. read \in SetsOf({s.rows}, {s.probes}, {s.parts}) /\ ReadsAll(named, read, probe)
    BY <2>2, <2>3, ReadDoes
  <2> HIDE DEF read
  <2>5. /\ s.rows \in Seq(R) /\ s.probes \in Seq(Registries(S)) /\ s.parts \in Seq(X) /\ s.owned \in SUBSET Keys
        /\ read.rows = s.rows /\ read.probes = s.probes /\ read.parts = s.parts /\ read.owned \in SUBSET Keys
        /\ IsFiniteSet(read.owned) /\ read.faults \in Seq(FaultRecords)
        /\ read = [rows |-> read.rows, probes |-> read.probes, faults |-> read.faults, owned |-> read.owned,
                   parts |-> read.parts]
    BY <2>4 DEF SetsOf
  <2>6. row \in R
    <3>1. read.owned \ named.owned \in SUBSET Keys
      BY <2>5
    <3> QED
      BY <2>0, <3>1 DEF ModuleOf
  <2>7. parts \in Seq(X)
    <3>1. Len(m.parts) \in Nat
      BY <2>0 DEF ModuleOf
    <3>2. \A k \in 1 .. Len(m.parts) : <<m.parts[k], m.name>> \in X
      BY <2>0, <3>1 DEF ModuleOf
    <3> QED
      BY <3>1, <3>2 DEF PartsOf
  <2> HIDE DEF row, parts
  <2> DEFINE rows == Append(s.rows, row)
             probes == Append(s.probes, probe)
             all == s.parts \o parts
  <2>8. rows \in Seq(R) /\ probes \in Seq(Registries(S)) /\ all \in Seq(X)
    BY <2>2, <2>5, <2>6, <2>7
  <2>9. next = Rewrite(read, probes, all, rows)
    <3>1. Append(read.probes, probe) = probes /\ read.parts \o parts = all /\ Append(read.rows, row) = rows
      BY <2>5
    <3> HIDE DEF probes, all, rows
    <3> QED
      BY <3>1 DEF Rewrite
  <2> HIDE DEF rows, probes, all, next
  <2>10. next \in B
    BY <2>4, <2>8, <2>9, RewriteIn
  <2>11. next.rows = rows /\ next.probes = probes /\ next.faults = read.faults /\ next.owned = read.owned
    BY <2>4, <2>9, RewriteIs
  <2>12. ASSUME next.faults = <<>>
         PROVE  /\ named = s /\ s.faults = <<>> /\ probe.faults = <<>> /\ s.owned \subseteq read.owned
                /\ Cardinality(read.owned) = Cardinality(s.owned) + Len(m.calls)
                /\ \A k \in DOMAIN s.rows : s.rows[k].name # m.name
    <3>1. read.faults = <<>>
      BY <2>11, <2>12
    <3>2. /\ named.faults = <<>> /\ probe.faults = <<>> /\ named.owned \subseteq read.owned
          /\ Cardinality(read.owned) = Cardinality(named.owned) + Len(probe.routes)
      BY <2>4, <3>1 DEF ReadsAll
    <3>3. named = s /\ \A k \in DOMAIN s.rows : s.rows[k].name # m.name
      BY <2>3, <3>2
    <3>4. Len(probe.routes) = Len(m.calls)
      <4>1. Len(probe.routes) = Len(NewRegistry.routes) + Len(m.calls)
        BY <2>2, <3>2 DEF Extended
      <4>2. Len(NewRegistry.routes) = 0
        BY NewIn
      <4>3. Len(m.calls) \in Nat
        BY <2>0 DEF ModuleOf
      <4> QED
        BY <4>1, <4>2, <4>3
    <3> QED
      BY <3>2, <3>3, <3>4
  <2>13. Inspected(s, next, m, i)
    <3> SUFFICES ASSUME next.faults = <<>>
                 PROVE  /\ s.faults = <<>> /\ m # NoModule /\ Probe(m, i).faults = <<>>
                        /\ next.probes = Append(s.probes, Probe(m, i))
                        /\ next.rows = Append(s.rows, RowOf(m, next.owned \ s.owned))
                        /\ \A k \in DOMAIN s.rows : s.rows[k].name # m.name
                        /\ s.owned \subseteq next.owned
                        /\ Cardinality(next.owned) = Cardinality(s.owned) + Len(m.calls)
      BY DEF Inspected
    <3>1. next.probes = Append(s.probes, Probe(m, i)) /\ Probe(m, i).faults = <<>>
      BY <2>11, <2>12 DEF probes, probe
    <3>2. next.rows = Append(s.rows, RowOf(m, next.owned \ s.owned))
      BY <2>11, <2>12 DEF rows, row
    <3> QED
      BY <1>2, <2>11, <2>12, <3>1, <3>2
  <2> QED
    BY <2>1, <2>10, <2>13
<1> QED
  BY <1>1, <1>2

-----------------------------------------------------------------------------
(* The table of all modules. *)

\* A list of modules that the wiring passes, and the sites of their calls.
ListOf(ms) ==
    /\ ms \in Seq(Range(ms))
    /\ \A m \in Range(ms) \ {NoModule} :
          m.scope \in ScopeRecords /\ m.calls \in Seq(CallRecords) /\ m.parts \in Seq(Range(m.parts))
SitesIn(ms) == UNION {{<<i, k>> : k \in DOMAIN ms[i].calls} : i \in {j \in DOMAIN ms : ms[j] # NoModule}}

\* The names and the keys that the rows of a table give.
Names(s) == {s.rows[k].name : k \in DOMAIN s.rows}
Listed(s) == UNION {s.rows[k].routes : k \in DOMAIN s.rows}

\* The table of the first j modules, with no fault.
Table(ms, s, j) ==
    /\ Len(s.probes) = j /\ Len(s.rows) = j
    /\ \A k \in 1 .. j : ms[k] # NoModule /\ s.probes[k] = Probe(ms[k], k) /\ Probe(ms[k], k).faults = <<>>
    /\ IsFiniteSet(Names(s)) /\ Cardinality(Names(s)) = j
    /\ Listed(s) = s.owned

\* One module more.
LEMMA TableGrows ==
  ASSUME NEW S, NEW R, NEW X, NEW s \in SetsOf(Seq(R), Seq(Registries(S)), Seq(X)), NEW next, NEW ms, NEW j \in Nat,
         s.faults = <<>> => Table(ms, s, j), Inspected(s, next, ms[j + 1], j + 1), next.faults = <<>>
  PROVE  Table(ms, next, j + 1)
<1> DEFINE m == ms[j + 1]
           p == Probe(m, j + 1)
           row == RowOf(m, next.owned \ s.owned)
<1>1. /\ s.faults = <<>> /\ m # NoModule /\ p.faults = <<>> /\ next.probes = Append(s.probes, p)
      /\ next.rows = Append(s.rows, row) /\ s.owned \subseteq next.owned
      /\ \A k \in DOMAIN s.rows : s.rows[k].name # m.name
  BY DEF Inspected
<1>2. /\ Len(s.probes) = j /\ Len(s.rows) = j
      /\ \A k \in 1 .. j : ms[k] # NoModule /\ s.probes[k] = Probe(ms[k], k) /\ Probe(ms[k], k).faults = <<>>
      /\ IsFiniteSet(Names(s)) /\ Cardinality(Names(s)) = j
      /\ Listed(s) = s.owned
  BY <1>1 DEF Table
<1>3. s.rows \in Seq(R) /\ s.probes \in Seq(Registries(S))
  BY DEF SetsOf
<1>4. row.name = m.name /\ row.routes = next.owned \ s.owned
  BY DEF RowOf
<1> HIDE DEF row, p
<1>5. /\ Len(next.rows) = Len(s.rows) + 1 /\ DOMAIN s.rows = 1 .. Len(s.rows)
      /\ next.rows[Len(s.rows) + 1] = row /\ \A x \in 1 .. Len(s.rows) : next.rows[x] = s.rows[x]
  BY <1>1, <1>3, AppendIs
<1>6. DOMAIN next.rows = 1 .. j + 1
  BY <1>1, <1>2, <1>3
<1>7. /\ Len(next.probes) = Len(s.probes) + 1
      /\ next.probes[Len(s.probes) + 1] = p /\ \A x \in 1 .. Len(s.probes) : next.probes[x] = s.probes[x]
  BY <1>1, <1>3, AppendIs
<1>8. Len(next.rows) = j + 1 /\ Len(next.probes) = j + 1 /\ next.rows[j + 1] = row /\ next.probes[j + 1] = p
  BY <1>2, <1>5, <1>7
<1>9. ASSUME NEW k \in 1 .. j + 1
      PROVE  ms[k] # NoModule /\ next.probes[k] = Probe(ms[k], k) /\ Probe(ms[k], k).faults = <<>>
  <2>1. CASE k = j + 1
    BY <1>1, <1>8, <2>1 DEF p
  <2>2. CASE k # j + 1
    <3>1. k \in 1 .. j
      BY <2>2
    <3> QED
      BY <1>2, <1>7, <3>1
  <2> QED
    BY <2>1, <2>2
<1>10. \A k \in 1 .. j : k \in DOMAIN s.rows /\ k \in DOMAIN next.rows /\ next.rows[k] = s.rows[k]
  BY <1>2, <1>5, <1>6
<1>11. j + 1 \in DOMAIN next.rows /\ \A k \in DOMAIN next.rows : k \in 1 .. j \/ k = j + 1
  BY <1>6
<1>12. \A k \in DOMAIN s.rows : k \in 1 .. j
  BY <1>2, <1>5
<1>13. Names(next) = Names(s) \cup {m.name}
  <2>1. ASSUME NEW x \in Names(next) PROVE x \in Names(s) \cup {m.name}
    <3>1. PICK k \in DOMAIN next.rows : x = next.rows[k].name
      BY DEF Names
    <3>2. CASE k \in 1 .. j
      BY <1>10, <3>1, <3>2 DEF Names
    <3>3. CASE k = j + 1
      BY <1>4, <1>8, <3>1, <3>3
    <3> QED
      BY <1>11, <3>2, <3>3
  <2>2. ASSUME NEW x \in Names(s) PROVE x \in Names(next)
    <3>1. PICK k \in DOMAIN s.rows : x = s.rows[k].name
      BY DEF Names
    <3> QED
      BY <1>10, <1>12, <3>1 DEF Names
  <2>3. m.name \in Names(next)
    BY <1>4, <1>8, <1>11 DEF Names
  <2> QED
    BY <2>1, <2>2, <2>3
<1>14. m.name \notin Names(s)
  BY <1>1 DEF Names
<1>15. IsFiniteSet(Names(next)) /\ Cardinality(Names(next)) = j + 1
  BY <1>2, <1>13, <1>14, FS_AddElement
<1>16. Listed(next) = next.owned
  <2>1. ASSUME NEW x \in Listed(next) PROVE x \in next.owned
    <3>1. PICK k \in DOMAIN next.rows : x \in next.rows[k].routes
      BY DEF Listed
    <3>2. CASE k \in 1 .. j
      <4>1. x \in Listed(s)
        BY <1>10, <3>1, <3>2 DEF Listed
      <4> QED
        BY <1>1, <1>2, <4>1
    <3>3. CASE k = j + 1
      BY <1>4, <1>8, <3>1, <3>3
    <3> QED
      BY <1>11, <3>2, <3>3
  <2>2. ASSUME NEW x \in next.owned PROVE x \in Listed(next)
    <3>1. CASE x \in s.owned
      <4>1. PICK k \in DOMAIN s.rows : x \in s.rows[k].routes
        BY <1>2, <3>1 DEF Listed
      <4> QED
        BY <1>10, <1>12, <4>1 DEF Listed
    <3>2. CASE x \notin s.owned
      <4>1. x \in row.routes
        BY <1>4, <3>2
      <4> QED
        BY <1>8, <1>11, <4>1 DEF Listed
    <3> QED
      BY <3>1, <3>2
  <2> QED
    BY <2>1, <2>2
<1> QED
  BY <1>8, <1>9, <1>15, <1>16 DEF Table

\* How many calls the first j modules state.
TotalsOf(tot, ms, n) ==
    tot \in [0 .. n -> Nat] /\ tot[0] = 0 /\ \A j \in 1 .. n : tot[j] = tot[j - 1] + Len(ms[j].calls)
Totalled(s, ms, n) == \E tot : TotalsOf(tot, ms, n) /\ Cardinality(s.owned) = tot[n]

\* The set is a fold.
Took(s, ms, i) == Inspect(s, ms[i], i)
SetFold(g, ms, n) == g = [s \in SUBSET (1 .. n) |-> IF s = {} THEN NewSet ELSE Took(g[s \ {Max(s)}], ms, Ids(n)[Max(s)])]

\* And that fold it is.
LEMMA ModulesIs ==
  ASSUME NEW ms, NEW n \in Nat, Len(ms) = n
  PROVE  Modules(ms) = (CHOOSE g : SetFold(g, ms, n))[1 .. n]
<1>1. DOMAIN Ids(n) = 1 .. n
  BY DEF Ids
<1>2. Modules(ms) = FoldLeft(LAMBDA s, i : Inspect(s, ms[i], i), NewSet, Ids(n))
  BY DEF Modules, Ids
<1> QED
  BY <1>1, <1>2 DEF FoldLeft, MapThenFoldSet, SetFold, Took

\* n modules, taken one by one.
LEMMA TablesUp ==
  ASSUME NEW S, NEW R, NEW X, NEW n \in Nat, NEW ms, NEW h \in [0 .. n -> SetsOf(Seq(R), Seq(Registries(S)), Seq(X))],
         h[0] = NewSet, \A i \in 1 .. n : Inspected(h[i - 1], h[i], ms[i], i), h[n].faults = <<>>,
         \A i \in 1 .. n : ms[i] # NoModule => Len(ms[i].calls) \in Nat
  PROVE  Table(ms, h[n], n) /\ Totalled(h[n], ms, n)
<1> DEFINE Has == {m \in Nat : m <= n => (h[m].faults = <<>> => Table(ms, h[m], m) /\ \A j \in 0 .. m : h[j].faults = <<>>)}
<1>1. 0 \in Has
  <2>1. NewSet.probes = <<>> /\ NewSet.rows = <<>> /\ NewSet.owned = {}
    BY DEF NewSet
  <2>2. Len(<<>>) = 0 /\ DOMAIN <<>> = {}
    OBVIOUS
  <2>3. Names(NewSet) = {} /\ Listed(NewSet) = {}
    BY <2>1, <2>2 DEF Names, Listed
  <2>4. IsFiniteSet({}) /\ Cardinality({}) = 0
    BY FS_EmptySet
  <2>5. Table(ms, NewSet, 0)
    BY <2>1, <2>2, <2>3, <2>4 DEF Table
  <2>6. \A j \in 0 .. 0 : j = 0
    OBVIOUS
  <2> QED
    BY <2>5, <2>6
<1>2. ASSUME NEW m \in Nat, m \in Has PROVE m + 1 \in Has
  <2> SUFFICES ASSUME m + 1 <= n, h[m + 1].faults = <<>>
               PROVE  Table(ms, h[m + 1], m + 1) /\ \A j \in 0 .. m + 1 : h[j].faults = <<>>
    OBVIOUS
  <2>1. h[m].faults = <<>> => Table(ms, h[m], m) /\ \A j \in 0 .. m : h[j].faults = <<>>
    BY <1>2
  <2>2. m + 1 \in 1 .. n /\ (m + 1) - 1 = m /\ m \in 0 .. n
    OBVIOUS
  <2>3. Inspected(h[m], h[m + 1], ms[m + 1], m + 1)
    BY <2>2
  <2>4. h[m] \in SetsOf(Seq(R), Seq(Registries(S)), Seq(X))
    BY <2>2
  <2>5. Table(ms, h[m + 1], m + 1)
    BY <2>1, <2>3, <2>4, TableGrows
  <2>6. h[m].faults = <<>>
    BY <2>3 DEF Inspected
  <2>7. \A j \in 0 .. m + 1 : j \in 0 .. m \/ j = m + 1
    OBVIOUS
  <2> QED
    BY <2>1, <2>5, <2>6, <2>7
<1>3. n \in Has
  <2> HIDE DEF Has
  <2> QED
    BY <1>1, <1>2, SetInduction
<1>4. Table(ms, h[n], n) /\ \A j \in 0 .. n : h[j].faults = <<>>
  BY <1>3
<1> DEFINE tot == [j \in 0 .. n |-> Cardinality(h[j].owned)]
<1>5. tot \in [0 .. n -> Nat]
  <2>1. ASSUME NEW j \in 0 .. n PROVE Cardinality(h[j].owned) \in Nat
    <3>1. h[j] \in SetsOf(Seq(R), Seq(Registries(S)), Seq(X))
      OBVIOUS
    <3>2. IsFiniteSet(h[j].owned)
      BY <3>1 DEF SetsOf
    <3> QED
      BY <3>2, FS_CardinalityType
  <2> QED
    BY <2>1
<1>6. tot[0] = 0
  <2>1. h[0].owned = {}
    BY DEF NewSet
  <2>2. tot[0] = Cardinality(h[0].owned)
    <3>1. 0 \in 0 .. n
      OBVIOUS
    <3> QED
      BY <3>1
  <2>3. Cardinality({}) = 0
    BY FS_EmptySet
  <2> QED
    BY <2>1, <2>2, <2>3
<1>7. ASSUME NEW j \in 1 .. n PROVE tot[j] = tot[j - 1] + Len(ms[j].calls)
  <2>1. j \in 0 .. n /\ j - 1 \in 0 .. n
    OBVIOUS
  <2>2. h[j].faults = <<>>
    BY <1>4, <2>1
  <2>3. Cardinality(h[j].owned) = Cardinality(h[j - 1].owned) + Len(ms[j].calls)
    BY <2>2 DEF Inspected
  <2> QED
    BY <2>1, <2>3
<1>8. Cardinality(h[n].owned) = tot[n]
  BY DEF tot
<1>9. TotalsOf(tot, ms, n)
  BY <1>5, <1>6, <1>7 DEF TotalsOf
<1> HIDE DEF tot
<1>10. Totalled(h[n], ms, n)
  BY <1>8, <1>9 DEF Totalled
<1> QED
  BY <1>4, <1>10

\* A list of modules: each of them is nil, or it has a scope, calls and parts.
LEMMA ModuleIn ==
  ASSUME NEW ms, ListOf(ms), NEW i \in DOMAIN ms, ms[i] # NoModule
  PROVE  /\ ms[i].scope \in ScopeRecords /\ ms[i].calls \in Seq(CallRecords) /\ ms[i].parts \in Seq(Range(ms[i].parts))
         /\ ms[i] \in Range(ms) /\ Len(ms[i].calls) \in Nat /\ DOMAIN ms[i].calls = 1 .. Len(ms[i].calls)
<1>1. ms[i] \in Range(ms)
  BY InRange
<1>2. ms[i].scope \in ScopeRecords /\ ms[i].calls \in Seq(CallRecords) /\ ms[i].parts \in Seq(Range(ms[i].parts))
  BY <1>1 DEF ListOf
<1>3. Len(ms[i].calls) \in Nat /\ DOMAIN ms[i].calls = 1 .. Len(ms[i].calls)
  BY <1>2
<1> QED
  BY <1>1, <1>2, <1>3

\* The set of a list of modules: without a fault it is the table of them all.
LEMMA ModulesDoes ==
  ASSUME NEW ms, ListOf(ms), NEW S, S \subseteq Nat \X Nat, SitesIn(ms) \subseteq S
  PROVE  /\ \E R, X : Modules(ms) \in SetsOf(Seq(R), Seq(Registries(S)), Seq(X))
         /\ Modules(ms).faults = <<>> => Table(ms, Modules(ms), Len(ms)) /\ Totalled(Modules(ms), ms, Len(ms))
<1> DEFINE n == Len(ms)
           R == {RowOf(m, r) : m \in Range(ms), r \in SUBSET Keys}
           X == {<<m.parts[k], m.name>> : m \in Range(ms), k \in Nat}
           B == SetsOf(Seq(R), Seq(Registries(S)), Seq(X))
           step == [ib \in (1 .. n) \X B |-> Took(ib[2], ms, Ids(n)[ib[1]])]
           it == CHOOSE g : SetFold(g, ms, n)
<1>1. n \in Nat /\ DOMAIN ms = 1 .. n
  BY DEF ListOf
<1>2. NewSet \in B
  <2>1. IsFiniteSet({}) /\ {} \in SUBSET Keys
    BY FS_EmptySet
  <2>2. NewSet = [rows |-> <<>>, probes |-> <<>>, faults |-> <<>>, owned |-> {}, parts |-> <<>>]
    BY DEF NewSet
  <2>3. <<>> \in Seq(R) /\ <<>> \in Seq(Registries(S)) /\ <<>> \in Seq(X) /\ <<>> \in Seq(FaultRecords)
    OBVIOUS
  <2> HIDE DEF R, X
  <2> QED
    BY <2>1, <2>2, <2>3 DEF SetsOf
<1>20. Modules(ms) = it[1 .. n]
  BY <1>1, ModulesIs
<1>21. ASSUME NEW i \in 1 .. n, ms[i] # NoModule PROVE ModuleOf(ms[i], i, S, R, X)
  <2>1. i \in DOMAIN ms
    BY <1>1
  <2>2. /\ ms[i].scope \in ScopeRecords /\ ms[i].calls \in Seq(CallRecords) /\ ms[i].parts \in Seq(Range(ms[i].parts))
        /\ ms[i] \in Range(ms) /\ DOMAIN ms[i].calls = 1 .. Len(ms[i].calls)
    BY <1>21, <2>1, ModuleIn
  <2>3. \A k \in 1 .. Len(ms[i].calls) : <<i, k>> \in S
    <3>1. \A k \in DOMAIN ms[i].calls : <<i, k>> \in SitesIn(ms)
      BY <1>21, <2>1 DEF SitesIn
    <3> QED
      BY <2>2, <3>1
  <2>4. \A k \in Nat : <<ms[i].parts[k], ms[i].name>> \in X
    BY <2>2
  <2>5. ASSUME NEW r \in SUBSET Keys PROVE RowOf(ms[i], r) \in R
    <3>1. \A m \in Range(ms) : RowOf(m, r) \in R
      OBVIOUS
    <3> HIDE DEF R
    <3> QED
      BY <2>2, <3>1
  <2> HIDE DEF R, X
  <2> QED
    BY <2>2, <2>3, <2>4, <2>5 DEF ModuleOf
<1> HIDE DEF n, B, R, X
<1>3. ASSUME NEW b \in B, NEW k \in 1 .. n
      PROVE  Took(b, ms, Ids(n)[k]) \in B /\ Inspected(b, Took(b, ms, Ids(n)[k]), ms[k], k)
  <2>1. Ids(n)[k] = k /\ k \in Nat
    BY <1>1 DEF Ids
  <2>2. b \in SetsOf(Seq(R), Seq(Registries(S)), Seq(X))
    BY DEF B
  <2> DEFINE m == ms[k]
  <2>3. m # NoModule => ModuleOf(m, k, S, R, X)
    BY <1>21
  <2> HIDE DEF m
  <2>4. Inspect(b, m, k) \in SetsOf(Seq(R), Seq(Registries(S)), Seq(X)) /\ Inspected(b, Inspect(b, m, k), m, k)
    BY <2>1, <2>2, <2>3, InspectDoes
  <2> QED
    BY <2>1, <2>4 DEF Took, B, m
<1>4. step \in [(1 .. n) \X B -> B]
  BY <1>3
<1>5. \A k \in 1 .. n, b \in B : step[<<k, b>>] = Took(b, ms, Ids(n)[k])
  OBVIOUS
<1> HIDE DEF step
<1>6. PICK g \in [SUBSET (1 .. n) -> B] : IsFold(g, n, NewSet, step)
  BY <1>1, <1>2, <1>4, FoldExists
<1>7. \A s \in SUBSET (1 .. n) : s # {} => Max(s) \in 1 .. n
  BY <1>1, Greatest
<1>8. ASSUME NEW s \in SUBSET (1 .. n), s # {}
      PROVE  step[<<Max(s), g[s \ {Max(s)}]>>] = Took(g[s \ {Max(s)}], ms, Ids(n)[Max(s)])
  BY <1>5, <1>6, <1>7, <1>8
<1>9. SetFold(g, ms, n)
  BY <1>6, <1>8 DEF SetFold, IsFold
<1>10. SetFold(it, ms, n)
  BY <1>9
<1> HIDE DEF it
<1>11. it[{}] = NewSet
  BY <1>10 DEF SetFold
<1>12. ASSUME NEW s \in SUBSET (1 .. n), s # {}, it[s \ {Max(s)}] \in B
       PROVE  it[s] = step[<<Max(s), it[s \ {Max(s)}]>>]
  BY <1>5, <1>7, <1>10, <1>12 DEF SetFold
<1>13. n \in Nat /\ Follows(it, n, B, NewSet, step)
  BY <1>1, <1>11, <1>12 DEF Follows
<1>14. Staged(it, n, B, NewSet, step)
  BY <1>2, <1>4, <1>13, FoldStages
<1>15. PICK h : StagesOf(h, n, B, NewSet, step) /\ h[n] = it[1 .. n]
  BY <1>14 DEF Staged
<1>16. h \in [0 .. n -> B] /\ h[0] = NewSet /\ \A k \in 1 .. n : h[k] = step[<<k, h[k - 1]>>]
  BY <1>15 DEF StagesOf
<1>17. ASSUME NEW k \in 1 .. n PROVE Inspected(h[k - 1], h[k], ms[k], k)
  <2>1. k - 1 \in 0 .. n
    BY <1>1
  <2>2. h[k - 1] \in B
    BY <1>16, <2>1
  <2>3. h[k] = Took(h[k - 1], ms, Ids(n)[k])
    BY <1>5, <1>16, <2>2
  <2> QED
    BY <1>3, <2>2, <2>3
<1>18. h[n] \in B
  BY <1>1, <1>16
<1>19. \A i \in 1 .. n : ms[i] # NoModule => Len(ms[i].calls) \in Nat
  BY <1>1, ModuleIn
<1>22. ASSUME h[n].faults = <<>> PROVE Table(ms, h[n], n) /\ Totalled(h[n], ms, n)
  <2>1. h \in [0 .. n -> SetsOf(Seq(R), Seq(Registries(S)), Seq(X))]
    BY <1>16 DEF B
  <2>2. h[0] = NewSet /\ n \in Nat
    BY <1>1, <1>16
  <2> QED
    BY <1>17, <1>19, <1>22, <2>1, <2>2, TablesUp
<1>23. Modules(ms) = h[n]
  BY <1>15, <1>20
<1> QED
  BY <1>18, <1>22, <1>23 DEF B, n

-----------------------------------------------------------------------------
(* Attaching a table to a router. *)

\* The merge of every probe of a set into one scope is a fold.
AttachAll(reg, scope, ps) == FoldLeft(LAMBDA acc, probe : Merge(acc, scope, probe), reg, ps)
AttachFold(g, reg, scope, ps, n) ==
    g = [s \in SUBSET (1 .. n) |-> IF s = {} THEN reg ELSE Merge(g[s \ {Max(s)}], scope, ps[Max(s)])]

\* And that fold it is.
LEMMA AttachIs ==
  ASSUME NEW reg, NEW scope, NEW ps, NEW n \in Nat, DOMAIN ps = 1 .. n
  PROVE  AttachAll(reg, scope, ps) = (CHOOSE g : AttachFold(g, reg, scope, ps, n))[1 .. n]
BY DEF AttachAll, FoldLeft, MapThenFoldSet, AttachFold

\* The stages from one registry to another one that took the routes of n probes.
Stages(h, S, a, b, ps, n) ==
    /\ h \in [0 .. n -> Registries(S)] /\ h[0] = a /\ h[n] = b
    /\ \A k \in 1 .. n : Extended(h[k - 1], h[k], Len(ps[k].routes), SitesOf(ps[k]))
Joins(S, a, b, ps, n) == \E h : Stages(h, S, a, b, ps, n)

\* The router takes the routes of every probe, in their order, or it leaves a fault.
LEMMA AttachDoes ==
  ASSUME NEW S, S \subseteq Nat \X Nat, NEW reg \in Registries(S), NEW scope \in ScopeRecords,
         NEW ps \in Seq(Registries(S))
  PROVE  /\ AttachAll(reg, scope, ps) \in Registries(S)
         /\ Joins(S, reg, AttachAll(reg, scope, ps), ps, Len(ps))
<1> DEFINE n == Len(ps)
           B == Registries(S)
           step == [ib \in (1 .. n) \X B |-> Merge(ib[2], scope, ps[ib[1]])]
           it == CHOOSE g : AttachFold(g, reg, scope, ps, n)
<1>1. n \in Nat /\ DOMAIN ps = 1 .. n /\ \A k \in 1 .. n : ps[k] \in Registries(S)
  OBVIOUS
<1>2. reg \in B
  OBVIOUS
<1>20. AttachAll(reg, scope, ps) = it[1 .. n]
  BY <1>1, AttachIs
<1> HIDE DEF n, B
<1>3. ASSUME NEW b \in B, NEW k \in 1 .. n
      PROVE  /\ Merge(b, scope, ps[k]) \in B
             /\ Extended(b, Merge(b, scope, ps[k]), Len(ps[k].routes), SitesOf(ps[k]))
  <2>1. ps[k] \in Registries(S) /\ b \in Registries(S)
    BY <1>1 DEF B
  <2> DEFINE p == ps[k]
  <2> HIDE DEF p
  <2>2. p \in Registries(S)
    BY <2>1 DEF p
  <2>3. Merge(b, scope, p) \in Registries(S) /\ Extended(b, Merge(b, scope, p), Len(p.routes), SitesOf(p))
    BY <2>1, <2>2, MergeDoes
  <2> QED
    BY <2>3 DEF B, p
<1>4. step \in [(1 .. n) \X B -> B]
  BY <1>3
<1>5. \A k \in 1 .. n, b \in B : step[<<k, b>>] = Merge(b, scope, ps[k])
  OBVIOUS
<1> HIDE DEF step
<1>6. PICK g \in [SUBSET (1 .. n) -> B] : IsFold(g, n, reg, step)
  BY <1>1, <1>2, <1>4, FoldExists
<1>7. \A s \in SUBSET (1 .. n) : s # {} => Max(s) \in 1 .. n
  BY <1>1, Greatest
<1>8. ASSUME NEW s \in SUBSET (1 .. n), s # {}
      PROVE  step[<<Max(s), g[s \ {Max(s)}]>>] = Merge(g[s \ {Max(s)}], scope, ps[Max(s)])
  BY <1>5, <1>6, <1>7, <1>8
<1>9. AttachFold(g, reg, scope, ps, n)
  BY <1>6, <1>8 DEF AttachFold, IsFold
<1>10. AttachFold(it, reg, scope, ps, n)
  BY <1>9
<1> HIDE DEF it
<1>11. it[{}] = reg
  BY <1>10 DEF AttachFold
<1>12. ASSUME NEW s \in SUBSET (1 .. n), s # {}, it[s \ {Max(s)}] \in B
       PROVE  it[s] = step[<<Max(s), it[s \ {Max(s)}]>>]
  BY <1>5, <1>7, <1>10, <1>12 DEF AttachFold
<1>13. n \in Nat /\ Follows(it, n, B, reg, step)
  BY <1>1, <1>11, <1>12 DEF Follows
<1>14. Staged(it, n, B, reg, step)
  BY <1>2, <1>4, <1>13, FoldStages
<1>15. PICK h : StagesOf(h, n, B, reg, step) /\ h[n] = it[1 .. n]
  BY <1>14 DEF Staged
<1>16. h \in [0 .. n -> B] /\ h[0] = reg /\ \A k \in 1 .. n : h[k] = step[<<k, h[k - 1]>>]
  BY <1>15 DEF StagesOf
<1>17. ASSUME NEW k \in 1 .. n PROVE Extended(h[k - 1], h[k], Len(ps[k].routes), SitesOf(ps[k]))
  <2>1. k - 1 \in 0 .. n
    BY <1>1
  <2>2. h[k - 1] \in B
    BY <1>16, <2>1
  <2>3. h[k] = Merge(h[k - 1], scope, ps[k])
    BY <1>5, <1>16, <2>2
  <2> QED
    BY <1>3, <2>2, <2>3
<1>18. h[n] \in B
  BY <1>1, <1>16
<1> DEFINE b == AttachAll(reg, scope, ps)
<1>19. h[n] = b
  BY <1>15, <1>20
<1> HIDE DEF b
<1>21. Stages(h, S, reg, b, ps, n)
  BY <1>16, <1>17, <1>19 DEF Stages, B
<1>22. Joins(S, reg, b, ps, n)
  BY <1>21 DEF Joins
<1> QED
  BY <1>18, <1>19, <1>22 DEF B, b, n

\* The probe of a module, without a fault, has its calls as its sites.
LEMMA SitesOfProbe ==
  ASSUME NEW S, NEW p \in Registries(S), NEW j, NEW n \in Nat, Extended(NewRegistry, p, n, Sites(j, n)), p.faults = <<>>
  PROVE  Len(p.routes) = n /\ SitesOf(p) = Sites(j, n)
<1>1. Len(NewRegistry.routes) = 0
  BY NewIn
<1> DEFINE w == Sites(j, n)
<1>2. Len(p.routes) = 0 + n /\ \A x \in 1 .. n : p.routes[0 + x].site = w[x]
  BY <1>1 DEF Extended
<1>3. Len(p.routes) = n
  BY <1>2
<1>4. \A x \in 1 .. n : p.routes[x].site = w[x]
  BY <1>2
<1>5. w = [k \in 1 .. n |-> w[k]]
  BY DEF Sites
<1> HIDE DEF w
<1>6. SitesOf(p) = w
  BY <1>3, <1>4, <1>5 DEF SitesOf
<1> QED
  BY <1>3, <1>6 DEF w

\* tally counts what each of n probes adds at the sites of T.
Tally(tally, ps, n, T) ==
    /\ tally \in [0 .. n -> Nat] /\ tally[0] = 0
    /\ \A j \in 1 .. n : tally[j] = tally[j - 1] + Cardinality(Picked(SitesOf(ps[j]), Len(ps[j].routes), T))

\* A router that took the probes without a fault counts what it counted before and the tally.
LEMMA TallyDoes ==
  ASSUME NEW S, NEW n \in Nat, NEW a, NEW b, NEW ps, \A k \in 1 .. n : Len(ps[k].routes) \in Nat,
         Joins(S, a, b, ps, n), b.faults = <<>>, NEW T, NEW tally, Tally(tally, ps, n, T)
  PROVE  Count(b, T) = Count(a, T) + tally[n] /\ a.faults = <<>>
<1>1. PICK h : Stages(h, S, a, b, ps, n)
  BY DEF Joins
<1>2. /\ h \in [0 .. n -> Registries(S)] /\ h[0] = a /\ h[n] = b
      /\ \A k \in 1 .. n : Extended(h[k - 1], h[k], Len(ps[k].routes), SitesOf(ps[k]))
  BY <1>1 DEF Stages
<1>3. /\ tally \in [0 .. n -> Nat] /\ tally[0] = 0
      /\ \A j \in 1 .. n : tally[j] = tally[j - 1] + Cardinality(Picked(SitesOf(ps[j]), Len(ps[j].routes), T))
  BY DEF Tally
<1> DEFINE c == Count(a, T)
           Has == {m \in Nat : m <= n => (h[m].faults = <<>> => Count(h[m], T) = c + tally[m] /\ a.faults = <<>>)}
<1>4. c \in Nat
  <2>1. a \in Registries(S)
    BY <1>2
  <2> QED
    BY <2>1, AtFinite
<1>5. 0 \in Has
  <2> HIDE DEF c
  <2>1. c + 0 = c
    BY <1>4
  <2>2. Count(h[0], T) = c
    BY <1>2 DEF c
  <2> QED
    BY <1>2, <1>3, <2>1, <2>2
<1>6. ASSUME NEW m \in Nat, m \in Has PROVE m + 1 \in Has
  <2> SUFFICES ASSUME m + 1 <= n, h[m + 1].faults = <<>> PROVE Count(h[m + 1], T) = c + tally[m + 1] /\ a.faults = <<>>
    OBVIOUS
  <2>1. m + 1 \in 1 .. n /\ (m + 1) - 1 = m /\ m \in 0 .. n /\ m + 1 \in 0 .. n /\ m <= n
    OBVIOUS
  <2> DEFINE w == SitesOf(ps[m + 1])
             q == Len(ps[m + 1].routes)
             y == h[m + 1]
             x == h[m]
  <2>2. Extended(x, y, q, w) /\ q \in Nat /\ x \in Registries(S) /\ y \in Registries(S)
    BY <1>2, <2>1
  <2>3. tally[m + 1] = tally[m] + Cardinality(Picked(w, q, T)) /\ tally[m] \in Nat /\ tally[m + 1] \in Nat
    BY <1>3, <2>1
  <2>4. y.faults = <<>>
    OBVIOUS
  <2>5. x.faults = <<>> => Count(x, T) = c + tally[m] /\ a.faults = <<>>
    BY <1>6, <2>1
  <2> HIDE DEF w, q, x, c
  <2>6. x.faults = <<>>
    BY <2>2, <2>4 DEF Extended
  <2> HIDE DEF y
  <2>7. Count(y, T) = Count(x, T) + Cardinality(Picked(w, q, T))
    BY <2>2, <2>4, CountExtended
  <2>8. Cardinality(Picked(w, q, T)) \in Nat
    <3>1. Picked(w, q, T) \subseteq 1 .. q
      BY DEF Picked
    <3>3. 1 \in Int /\ q \in Int
      BY <2>2
    <3>2. IsFiniteSet(1 .. q)
      BY <3>3, FS_Interval
    <3> QED
      BY <3>1, <3>2, FS_Subset, FS_CardinalityType
  <2> DEFINE u == Cardinality(Picked(w, q, T))
             v == Count(x, T)
             z == Count(y, T)
             t == tally[m]
             r == tally[m + 1]
  <2>9. u \in Nat /\ t \in Nat /\ z = v + u /\ r = t + u /\ v = c + t /\ a.faults = <<>>
    BY <2>3, <2>5, <2>6, <2>7, <2>8
  <2> HIDE DEF u, v, z, t, r
  <2>10. z = c + r
    BY <1>4, <2>9
  <2> QED
    BY <2>9, <2>10 DEF z, r, y
<1>7. n \in Has
  <2> HIDE DEF Has
  <2> QED
    BY <1>5, <1>6, SetInduction
<1> QED
  BY <1>2, <1>7

\* A list of n modules and the probes of their table: probe k has the calls of module k.
Probed(ms, ps, n) ==
    \A k \in 1 .. n : /\ ms[k] # NoModule /\ Len(ms[k].calls) \in Nat /\ DOMAIN ms[k].calls = 1 .. Len(ms[k].calls)
                      /\ Len(ps[k].routes) = Len(ms[k].calls) /\ SitesOf(ps[k]) = Sites(k, Len(ms[k].calls))

\* A table without a fault has the probes of its modules.
LEMMA ProbedAll ==
  ASSUME NEW ms, ListOf(ms), NEW s, Table(ms, s, Len(ms)), NEW S, S \subseteq Nat \X Nat, SitesIn(ms) \subseteq S
  PROVE  Probed(ms, s.probes, Len(ms))
<1> DEFINE n == Len(ms)
<1>1. n \in Nat /\ DOMAIN ms = 1 .. n
  BY DEF ListOf
<1>2. \A k \in 1 .. n : ms[k] # NoModule /\ s.probes[k] = Probe(ms[k], k) /\ Probe(ms[k], k).faults = <<>>
  BY DEF Table
<1> HIDE DEF n
<1>3. ASSUME NEW k \in 1 .. n
      PROVE  /\ ms[k] # NoModule /\ Len(ms[k].calls) \in Nat /\ DOMAIN ms[k].calls = 1 .. Len(ms[k].calls)
             /\ Len(s.probes[k].routes) = Len(ms[k].calls) /\ SitesOf(s.probes[k]) = Sites(k, Len(ms[k].calls))
  <2> DEFINE m == ms[k]
             l == Len(m.calls)
             p == s.probes[k]
  <2>1. m # NoModule /\ p = Probe(m, k) /\ p.faults = <<>>
    BY <1>2
  <2>2. /\ k \in Nat /\ m.scope \in ScopeRecords /\ m.calls \in Seq(CallRecords)
        /\ l \in Nat /\ DOMAIN m.calls = 1 .. l
    <3>1. k \in DOMAIN ms /\ k \in Nat
      BY <1>1
    <3> QED
      BY <2>1, <3>1, ModuleIn
  <2>3. \A x \in 1 .. l : <<k, x>> \in S
    <3>1. \A x \in DOMAIN m.calls : <<k, x>> \in SitesIn(ms)
      BY <1>1, <2>1 DEF SitesIn
    <3> QED
      BY <2>2, <3>1
  <2> HIDE DEF m, p
  <2>4. Probe(m, k) \in Registries(S) /\ Extended(NewRegistry, Probe(m, k), l, Sites(k, l))
    BY <2>2, <2>3, ProbeDoes
  <2>5. p \in Registries(S) /\ Extended(NewRegistry, p, l, Sites(k, l))
    BY <2>1, <2>4
  <2> HIDE DEF l
  <2>6. Len(p.routes) = l /\ SitesOf(p) = Sites(k, l)
    BY <2>1, <2>2, <2>5, SitesOfProbe
  <2> QED
    BY <2>1, <2>2, <2>6 DEF m, p, l
<1> QED
  BY <1>3 DEF Probed, n

\* The n probes add c routes at the sites of T.
Tallied(ps, n, T, c) == \E tally : Tally(tally, ps, n, T) /\ tally[n] = c

\* A registration of module i counts once.
LEMMA TallyOne ==
  ASSUME NEW n \in Nat, NEW ms, NEW ps, Probed(ms, ps, n), NEW i \in 1 .. n, NEW k \in 1 .. Len(ms[i].calls)
  PROVE  Tallied(ps, n, {<<i, k>>}, 1)
<1> DEFINE tally == [j \in 0 .. n |-> IF j < i THEN 0 ELSE 1]
<1>1. tally \in [0 .. n -> Nat] /\ tally[0] = 0 /\ tally[n] = 1
  OBVIOUS
<1>2. ASSUME NEW j \in 1 .. n
      PROVE  tally[j] = tally[j - 1] + Cardinality(Picked(SitesOf(ps[j]), Len(ps[j].routes), {<<i, k>>}))
  <2> DEFINE l == Len(ms[j].calls)
  <2>1. l \in Nat /\ Len(ps[j].routes) = l /\ SitesOf(ps[j]) = Sites(j, l)
    BY DEF Probed
  <2>2. k \in Nat /\ (j = i => k \in 1 .. l)
    <3>1. Len(ms[i].calls) \in Nat
      BY DEF Probed
    <3> QED
      BY <3>1
  <2> HIDE DEF l
  <2>3. Cardinality(Picked(Sites(j, l), l, {<<i, k>>})) = IF i = j THEN 1 ELSE 0
    <3>1. l \in Nat
      BY <2>1
    <3>2. CASE i = j
      <4>1. k \in 1 .. l
        BY <2>2, <3>2
      <4>2. Cardinality(Picked(Sites(j, l), l, {<<j, k>>})) = 1
        BY <3>1, <4>1, PickedOne
      <4> QED
        BY <3>2, <4>2
    <3>3. CASE i # j
      <4>1. Cardinality(Picked(Sites(j, l), l, {<<i, k>>})) = 0
        BY <3>1, <3>3, PickedOther
      <4> QED
        BY <3>3, <4>1
    <3> QED
      BY <3>2, <3>3
  <2>4. j \in 0 .. n /\ j - 1 \in 0 .. n
    OBVIOUS
  <2>5. tally[j] = (IF j < i THEN 0 ELSE 1) /\ tally[j - 1] = IF j - 1 < i THEN 0 ELSE 1
    BY <2>4
  <2> DEFINE u == Cardinality(Picked(Sites(j, l), l, {<<i, k>>}))
  <2>6. u = IF i = j THEN 1 ELSE 0
    BY <2>3
  <2> HIDE DEF u, tally
  <2>7. tally[j] = tally[j - 1] + u
    BY <2>5, <2>6
  <2> QED
    BY <2>1, <2>7 DEF u
<1> HIDE DEF tally
<1>3. Tally(tally, ps, n, {<<i, k>>})
  BY <1>1, <1>2 DEF Tally
<1> QED
  BY <1>1, <1>3 DEF Tallied

\* A registration of the wiring is not of a module.
LEMMA TallyNone ==
  ASSUME NEW n \in Nat, NEW ms, NEW ps, Probed(ms, ps, n), NEW k \in Nat
  PROVE  Tallied(ps, n, {<<0, k>>}, 0)
<1> DEFINE tally == [j \in 0 .. n |-> 0]
<1>1. tally \in [0 .. n -> Nat] /\ tally[0] = 0 /\ tally[n] = 0
  OBVIOUS
<1>2. ASSUME NEW j \in 1 .. n
      PROVE  tally[j] = tally[j - 1] + Cardinality(Picked(SitesOf(ps[j]), Len(ps[j].routes), {<<0, k>>}))
  <2> DEFINE l == Len(ms[j].calls)
  <2>1. l \in Nat /\ Len(ps[j].routes) = l /\ SitesOf(ps[j]) = Sites(j, l)
    BY DEF Probed
  <2> HIDE DEF l
  <2>2. 0 # j /\ j \in 0 .. n /\ j - 1 \in 0 .. n
    OBVIOUS
  <2>4. Cardinality(Picked(Sites(j, l), l, {<<0, k>>})) = 0
    <3>1. l \in Nat
      BY <2>1
    <3> QED
      BY <2>2, <3>1, PickedOther
  <2>5. tally[j] = 0 /\ tally[j - 1] = 0
    BY <2>2
  <2> HIDE DEF tally
  <2> QED
    BY <2>1, <2>4, <2>5
<1> HIDE DEF tally
<1>3. Tally(tally, ps, n, {<<0, k>>})
  BY <1>1, <1>2 DEF Tally
<1> QED
  BY <1>1, <1>3 DEF Tallied

\* The registrations of the modules count as many as their calls.
LEMMA TallyTotal ==
  ASSUME NEW ms, ListOf(ms), NEW ps, Probed(ms, ps, Len(ms)), NEW tot, TotalsOf(tot, ms, Len(ms))
  PROVE  Tally(tot, ps, Len(ms), SitesIn(ms))
<1> DEFINE n == Len(ms)
           T == SitesIn(ms)
<1>1. n \in Nat /\ DOMAIN ms = 1 .. n
  BY DEF ListOf
<1>2. tot \in [0 .. n -> Nat] /\ tot[0] = 0 /\ \A j \in 1 .. n : tot[j] = tot[j - 1] + Len(ms[j].calls)
  BY DEF TotalsOf
<1> HIDE DEF n
<1>3. ASSUME NEW j \in 1 .. n
      PROVE  tot[j] = tot[j - 1] + Cardinality(Picked(SitesOf(ps[j]), Len(ps[j].routes), T))
  <2> DEFINE l == Len(ms[j].calls)
  <2>1. /\ l \in Nat /\ Len(ps[j].routes) = l /\ SitesOf(ps[j]) = Sites(j, l)
        /\ ms[j] # NoModule /\ DOMAIN ms[j].calls = 1 .. l
    BY DEF Probed, n
  <2>2. tot[j] = tot[j - 1] + l
    BY <1>2
  <2>3. \A x \in 1 .. l : <<j, x>> \in T
    BY <1>1, <2>1 DEF SitesIn
  <2> HIDE DEF l, T
  <2>4. Cardinality(Picked(Sites(j, l), l, T)) = l
    BY <2>1, <2>3, PickedAll
  <2> QED
    BY <2>1, <2>2, <2>4
<1> HIDE DEF T
<1>4. Tally(tot, ps, n, T)
  BY <1>2, <1>3 DEF Tally
<1> QED
  BY <1>4 DEF T, n

-----------------------------------------------------------------------------
\* What a set adds to the router that took it: a route for each registration, as many as the keys of its table.
Gained(ms, s, a, b) ==
    /\ a.faults = <<>>
    /\ \A site \in SitesIn(ms) : Count(b, {site}) = Count(a, {site}) + 1
    /\ \A k \in Nat : Count(b, {<<0, k>>}) = Count(a, {<<0, k>>}) + 0
    /\ Count(b, SitesIn(ms)) = Count(a, SitesIn(ms)) + Cardinality(s.owned)

\* A router that took a set without a fault gained its registrations.
LEMMA AttachCounts ==
  ASSUME NEW ms, ListOf(ms), NEW s, Table(ms, s, Len(ms)), Totalled(s, ms, Len(ms)),
         NEW S, S \subseteq Nat \X Nat, SitesIn(ms) \subseteq S, NEW a, NEW b, Joins(S, a, b, s.probes, Len(ms)),
         b.faults = <<>>
  PROVE  Gained(ms, s, a, b)
<1> DEFINE n == Len(ms)
           ps == s.probes
           T == SitesIn(ms)
<1>1. n \in Nat /\ DOMAIN ms = 1 .. n
  BY DEF ListOf
<1>2. Probed(ms, ps, n)
  BY ProbedAll
<1> HIDE DEF n, ps, T
<1>3. Joins(S, a, b, ps, n)
  BY DEF n, ps
<1>4. \A k \in 1 .. n : Len(ps[k].routes) \in Nat
  BY <1>2 DEF Probed
<1>5. ASSUME NEW site \in T PROVE Count(b, {site}) = Count(a, {site}) + 1
  <2>1. PICK i \in DOMAIN ms : ms[i] # NoModule /\ \E k \in DOMAIN ms[i].calls : site = <<i, k>>
    BY DEF SitesIn, T
  <2>2. PICK k \in DOMAIN ms[i].calls : site = <<i, k>>
    BY <2>1
  <2>3. i \in 1 .. n /\ k \in 1 .. Len(ms[i].calls)
    BY <1>1, <1>2, <2>2 DEF Probed
  <2>8. Tallied(ps, n, {<<i, k>>}, 1)
    BY <1>1, <1>2, <2>3, TallyOne
  <2>4. PICK tally : Tally(tally, ps, n, {<<i, k>>}) /\ tally[n] = 1
    BY <2>8 DEF Tallied
  <2> DEFINE one == {<<i, k>>}
  <2>5. one = {site}
    BY <2>2
  <2>6. Tally(tally, ps, n, one)
    BY <2>4
  <2> HIDE DEF one
  <2>7. Count(b, one) = Count(a, one) + tally[n]
    BY <1>1, <1>3, <1>4, <2>6, TallyDoes
  <2> QED
    BY <2>4, <2>5, <2>7
<1>6. ASSUME NEW k \in Nat PROVE Count(b, {<<0, k>>}) = Count(a, {<<0, k>>}) + 0
  <2>8. Tallied(ps, n, {<<0, k>>}, 0)
    BY <1>1, <1>2, TallyNone
  <2>4. PICK tally : Tally(tally, ps, n, {<<0, k>>}) /\ tally[n] = 0
    BY <2>8 DEF Tallied
  <2> DEFINE one == {<<0, k>>}
  <2>6. Tally(tally, ps, n, one)
    BY <2>4
  <2> HIDE DEF one
  <2>7. Count(b, one) = Count(a, one) + tally[n]
    BY <1>1, <1>3, <1>4, <2>6, TallyDoes
  <2> QED
    BY <2>4, <2>7 DEF one
<1>7. PICK tot : TotalsOf(tot, ms, n) /\ Cardinality(s.owned) = tot[n]
  BY DEF Totalled, n
<1>8. Tally(tot, ps, n, T)
  BY <1>2, <1>7, TallyTotal DEF n, T
<1>9. Count(b, T) = Count(a, T) + tot[n] /\ a.faults = <<>>
  BY <1>1, <1>3, <1>4, <1>8, TallyDoes
<1> QED
  BY <1>5, <1>6, <1>7, <1>9 DEF T, Gained

\* A registry is one of more sites, too.
LEMMA RegistriesGrow ==
  ASSUME NEW S, NEW W, S \subseteq W, NEW reg \in Registries(S)
  PROVE  reg \in Registries(W)
<1>1. GoodRoutes(S) \subseteq GoodRoutes(W)
  <2>1. RouteRecords(S) \subseteq RouteRecords(W)
    BY DEF RouteRecords
  <2> QED
    BY <2>1 DEF GoodRoutes
<1>2. reg.routes \in Seq(GoodRoutes(S)) /\ reg.faults \in Seq(FaultRecords) /\ reg = [routes |-> reg.routes, faults |-> reg.faults]
  BY RegistryIs
<1>3. reg.routes \in Seq(GoodRoutes(W))
  BY <1>1, <1>2
<1> QED
  BY <1>2, <1>3 DEF Registries

\* Each route of a registry is a good one, at a site of it.
LEMMA RouteIs ==
  ASSUME NEW S, NEW reg \in Registries(S), NEW x \in DOMAIN reg.routes
  PROVE  reg.routes[x] \in GoodRoutes(S) /\ reg.routes[x].site \in S
<1>1. reg.routes \in Seq(GoodRoutes(S))
  BY RegistryIs
<1>2. reg.routes[x] \in GoodRoutes(S)
  BY <1>1
<1> QED
  BY <1>2 DEF GoodRoutes, RouteRecords

\* A registry counts nothing elsewhere.
LEMMA CountOut ==
  ASSUME NEW S, NEW reg \in Registries(S), NEW T, S \cap T = {}
  PROVE  Count(reg, T) = 0
<1>1. At(reg, T) = {}
  BY RouteIs DEF At
<1> QED
  BY <1>1, FS_EmptySet DEF Count

\* What one registration does to a registry.
LEMMA DeclareDoes ==
  ASSUME NEW S, S \subseteq Nat \X Nat, NEW reg \in Registries(S), NEW scope \in ScopeRecords, NEW c \in CallRecords,
         NEW site \in Nat \X Nat
  PROVE  /\ Register(reg, scope, c, site) \in Registries(S \cup {site})
         /\ Adds(reg, Register(reg, scope, c, site), site)
<1> DEFINE W == S \cup {site}
<1>1. S \subseteq W /\ W \subseteq Nat \X Nat /\ site \in W
  OBVIOUS
<1> HIDE DEF W
<1>2. reg \in Registries(W)
  BY <1>1, RegistriesGrow
<1>3. Register(reg, scope, c, site) \in Registries(W) /\ Adds(reg, Register(reg, scope, c, site), site)
  BY <1>1, <1>2, RegisterDoes
<1> QED
  BY <1>3 DEF W

\* What one registration adds to a count.
LEMMA AddsOne ==
  ASSUME NEW W, NEW a \in Registries(W), NEW b \in Registries(W), NEW site, Adds(a, b, site), b.faults = <<>>, NEW T
  PROVE  a.faults = <<>> /\ Count(b, T) = Count(a, T) + IF site \in T THEN 1 ELSE 0
<1> DEFINE w == [k \in 1 .. 1 |-> site]
<1>1. w[0 + 1] = site
  OBVIOUS
<1>2. Picked(w, 1, T) = IF site \in T THEN {1} ELSE {}
  <2>1. 1 .. 1 = {1}
    OBVIOUS
  <2> QED
    BY <2>1 DEF Picked
<1> HIDE DEF w
<1>3. Extended(a, a, 0, w)
  <2>1. Len(a.routes) \in Nat
    BY AtFinite
  <2>2. Len(a.routes) = Len(a.routes) + 0
    BY <2>1
  <2>3. \A x \in 1 .. 0 : FALSE
    OBVIOUS
  <2> QED
    BY <2>2, <2>3 DEF Extended
<1>4. Extended(a, b, 0 + 1, w)
  <2>1. 0 \in Nat
    OBVIOUS
  <2>2. Adds(a, b, w[0 + 1])
    BY <1>1
  <2> QED
    BY <1>3, <2>1, <2>2, ExtendedOnce
<1>5. 1 \in Nat /\ Extended(a, b, 1, w)
  <2>1. 0 + 1 = 1
    OBVIOUS
  <2> QED
    BY <1>4, <2>1
<1>6. Count(b, T) = Count(a, T) + Cardinality(Picked(w, 1, T))
  BY <1>5, CountExtended
<1>7. Cardinality(Picked(w, 1, T)) = IF site \in T THEN 1 ELSE 0
  BY <1>2, FS_EmptySet, FS_Singleton
<1>8. a.faults = <<>>
  BY DEF Adds
<1> QED
  BY <1>6, <1>7, <1>8

\* The sites of modules are none of the wiring itself.
LEMMA SitesApart ==
  ASSUME NEW ms, ListOf(ms)
  PROVE  SitesIn(ms) \subseteq Nat \X Nat /\ \A k : <<0, k>> \notin SitesIn(ms)
<1>1. DOMAIN ms = 1 .. Len(ms) /\ Len(ms) \in Nat
  BY DEF ListOf
<1>2. ASSUME NEW site \in SitesIn(ms) PROVE site \in Nat \X Nat /\ site[1] # 0
  <2>1. PICK i \in DOMAIN ms : ms[i] # NoModule /\ \E k \in DOMAIN ms[i].calls : site = <<i, k>>
    BY DEF SitesIn
  <2>2. PICK k \in DOMAIN ms[i].calls : site = <<i, k>>
    BY <2>1
  <2>3. DOMAIN ms[i].calls = 1 .. Len(ms[i].calls) /\ Len(ms[i].calls) \in Nat
    BY <2>1, ModuleIn
  <2>4. i \in Nat /\ i # 0 /\ k \in Nat
    BY <1>1, <2>3
  <2> QED
    BY <2>2, <2>4
<1>3. ASSUME NEW k, <<0, k>> \in SitesIn(ms) PROVE FALSE
  BY <1>2, <1>3
<1> QED
  BY <1>2, <1>3

\* A set of modules owns finitely many keys.
LEMMA OwnedFinite ==
  ASSUME NEW ms, ListOf(ms)
  PROVE  Cardinality(Modules(ms).owned) \in Nat
<1> DEFINE W == SitesIn(ms)
<1>1. W \subseteq Nat \X Nat /\ SitesIn(ms) \subseteq W
  BY SitesApart
<1> HIDE DEF W
<1>2. \E R, X : Modules(ms) \in SetsOf(Seq(R), Seq(Registries(W)), Seq(X))
  BY <1>1, ModulesDoes
<1>3. IsFiniteSet(Modules(ms).owned)
  BY <1>2 DEF SetsOf
<1> QED
  BY <1>3, FS_CardinalityType

\* What the merge of a whole set does to a registry.
LEMMA AttachStep ==
  ASSUME NEW ms, ListOf(ms), Modules(ms).faults = <<>>, NEW S, S \subseteq Nat \X Nat, SitesIn(ms) \subseteq S,
         NEW reg \in Registries(S), NEW scope \in ScopeRecords
  PROVE  /\ AttachAll(reg, scope, Modules(ms).probes) \in Registries(S)
         /\ Joins(S, reg, AttachAll(reg, scope, Modules(ms).probes), Modules(ms).probes, Len(ms))
<1>1. \E R, X : Modules(ms) \in SetsOf(Seq(R), Seq(Registries(S)), Seq(X))
  BY ModulesDoes
<1>2. Table(ms, Modules(ms), Len(ms))
  BY ModulesDoes
<1> DEFINE ps == Modules(ms).probes
<1>3. ps \in Seq(Registries(S))
  BY <1>1 DEF SetsOf
<1>4. Len(ps) = Len(ms)
  BY <1>2 DEF Table
<1> HIDE DEF ps
<1>5. AttachAll(reg, scope, ps) \in Registries(S) /\ Joins(S, reg, AttachAll(reg, scope, ps), ps, Len(ps))
  BY <1>3, AttachDoes
<1> QED
  BY <1>4, <1>5 DEF ps

\* What that merge adds.
LEMMA AttachAdds ==
  ASSUME NEW ms, ListOf(ms), Modules(ms).faults = <<>>, NEW S, S \subseteq Nat \X Nat, SitesIn(ms) \subseteq S,
         NEW a, NEW b, Joins(S, a, b, Modules(ms).probes, Len(ms)), b.faults = <<>>
  PROVE  Gained(ms, Modules(ms), a, b)
<1>1. Table(ms, Modules(ms), Len(ms)) /\ Totalled(Modules(ms), ms, Len(ms))
  BY ModulesDoes
<1> DEFINE s == Modules(ms)
<1> HIDE DEF s
<1>2. Table(ms, s, Len(ms)) /\ Totalled(s, ms, Len(ms)) /\ Joins(S, a, b, s.probes, Len(ms))
  BY <1>1 DEF s
<1>3. Gained(ms, s, a, b)
  BY <1>2, AttachCounts
<1> QED
  BY <1>3 DEF s

-----------------------------------------------------------------------------
(* The invariant, and each action. *)

\* What the wiring has at hand: registrations at sites of their own, scopes, and the set that a list gave.
AllSites == calls \cup ModuleSites
Composed ==
    /\ set = {} => list = <<>> /\ attached = 0
    /\ set # {} => list \in Lists /\ set = {Modules(list)}
    /\ attached \in {0, 1, 2}
    /\ attached # 0 => Modules(list).faults = <<>>
Scoped == scopes \in Seq(ScopeRecords) /\ Len(scopes) >= 1
Numbered == Cardinality(calls) \in Nat /\ calls = {<<0, k>> : k \in 1 .. Cardinality(calls)}

\* A router without a fault has a route for each registration: one for a call
\* of the wiring, and one for each merge of the set that a module's call is in.
Counted ==
    app.faults = <<>> =>
        /\ \A site \in calls : Count(app, {site}) = 1
        /\ \A site \in ModuleSites : Count(app, {site}) = attached
        /\ set # {} => Count(app, ModuleSites) = attached * Cardinality(Modules(list).owned)

\* Only a router without a fault serves, and no two of its routes conflict.
Started == phase = "serving" => app.faults = <<>> /\ Refused(app.routes) = {}

RoutesInv == Numbered /\ Scoped /\ Composed /\ app \in Registries(AllSites) /\ Counted /\ Started

\* The sites of the wiring and of the modules.
LEMMA ListedIs ==
  ASSUME Composed
  PROVE  ListOf(list) /\ ModuleSites = SitesIn(list)
<1>1. list = <<>> \/ list \in Lists
  BY DEF Composed
<1>2. ListOf(<<>>)
  <2>1. <<>> \in Seq(Range(<<>>)) /\ Range(<<>>) = {}
    BY DEF Range
  <2> QED
    BY <2>1 DEF ListOf
<1>3. \A ms \in Lists : ListOf(ms)
  BY ListsAssumption DEF ListOf
<1>4. ListOf(list)
  BY <1>1, <1>2, <1>3
<1>5. ModuleSites = SitesIn(list)
  BY DEF ModuleSites, SitesIn
<1> QED
  BY <1>4, <1>5

\* The sites of the wiring and of the modules are pairs, and no module has one of the wiring.
LEMMA SitesAre ==
  ASSUME Composed, Numbered
  PROVE  AllSites \subseteq Nat \X Nat /\ \A k : <<0, k>> \notin ModuleSites
<1>1. ListOf(list) /\ ModuleSites = SitesIn(list)
  BY ListedIs
<1> DEFINE ms == list
<1> HIDE DEF ms
<1>2. ListOf(ms)
  BY <1>1 DEF ms
<1>3. SitesIn(ms) \subseteq Nat \X Nat /\ \A k : <<0, k>> \notin SitesIn(ms)
  BY <1>2, SitesApart
<1>4. calls \subseteq Nat \X Nat
  BY DEF Numbered
<1> QED
  BY <1>1, <1>3, <1>4 DEF AllSites, ms

\* What the steps that leave the routes alone keep.
LEMMA SameRoutes ==
  ASSUME RoutesInv, UNCHANGED <<app, set, list, calls, attached>>, Scoped', phase' # "serving"
  PROVE  RoutesInv'
<1>1. app' = app /\ set' = set /\ list' = list /\ calls' = calls /\ attached' = attached
  OBVIOUS
<1>2. ModuleSites' = ModuleSites
  BY <1>1 DEF ModuleSites
<1>3. Numbered' /\ Composed' /\ Counted' /\ (app \in Registries(AllSites))'
  BY <1>1, <1>2 DEF RoutesInv, Numbered, Composed, Counted, AllSites
<1> QED
  BY <1>3 DEF RoutesInv, Started

\* The innermost scope.
LEMMA ScopeIn == ASSUME Scoped PROVE Scope \in ScopeRecords /\ Len(scopes) \in Nat /\ Len(scopes) \in DOMAIN scopes
BY DEF Scoped, Scope

\* Use adds to the chain of the innermost scope.
LEMMA UseKeeps == ASSUME RoutesInv, NEW m \in Mws, Use(m) PROVE RoutesInv'
<1>1. phase' = "wiring" /\ UNCHANGED <<app, set, list, calls, attached>>
  BY DEF Use
<1>2. Scoped
  BY DEF RoutesInv
<1>3. /\ scopes \in Seq(ScopeRecords) /\ Len(scopes) >= 1 /\ Len(scopes) \in DOMAIN scopes /\ Len(scopes) \in Nat
      /\ scopes[Len(scopes)] \in ScopeRecords
  BY <1>2, ScopeIn DEF Scoped, Scope
<1> DEFINE chain == IF m.absent THEN scopes[Len(scopes)].mws ELSE Append(scopes[Len(scopes)].mws, m)
           inner == [scopes[Len(scopes)] EXCEPT !.mws = chain]
<1>4. chain \in Seq(Mws)
  BY <1>3 DEF ScopeRecords
<1>5. scopes' = [scopes EXCEPT ![Len(scopes)] = inner]
  BY DEF Use
<1> HIDE DEF chain
<1>6. inner \in ScopeRecords
  BY <1>3, <1>4 DEF ScopeRecords
<1> HIDE DEF inner
<1>7. scopes' \in Seq(ScopeRecords) /\ Len(scopes') = Len(scopes)
  BY <1>3, <1>5, <1>6
<1>8. Scoped'
  BY <1>3, <1>7 DEF Scoped
<1> QED
  BY <1>1, <1>8, SameRoutes

\* OpenGroup joins its prefix to the innermost scope.
LEMMA OpenGroupKeeps == ASSUME RoutesInv, NEW p \in Groups, OpenGroup(p) PROVE RoutesInv'
<1>1. phase' = "wiring" /\ UNCHANGED <<app, set, list, calls, attached>>
  BY DEF OpenGroup
<1>2. Scoped
  BY DEF RoutesInv
<1>3. Scope \in ScopeRecords /\ scopes \in Seq(ScopeRecords) /\ Len(scopes) >= 1
  BY <1>2, ScopeIn DEF Scoped
<1> DEFINE prefix == Join(Scope.prefix, p)
           inner == [prefix |-> prefix, mws |-> Scope.mws]
<1>4. prefix \in Patterns
  <2>1. p \in Patterns /\ Scope.prefix \in Patterns
    BY <1>3, WiringAssumption DEF ScopeRecords
  <2> QED
    BY <2>1, JoinIn
<1>5. scopes' = Append(scopes, inner)
  BY DEF OpenGroup
<1> HIDE DEF prefix
<1>6. inner \in ScopeRecords
  BY <1>3, <1>4 DEF ScopeRecords
<1> HIDE DEF inner
<1>7. scopes' \in Seq(ScopeRecords) /\ Len(scopes') >= 1
  BY <1>3, <1>5, <1>6
<1>8. Scoped'
  BY <1>7 DEF Scoped
<1> QED
  BY <1>1, <1>8, SameRoutes

\* CloseGroup leaves the innermost scope.
LEMMA CloseGroupKeeps == ASSUME RoutesInv, CloseGroup PROVE RoutesInv'
<1>1. phase' = "wiring" /\ UNCHANGED <<app, set, list, calls, attached>>
  BY DEF CloseGroup
<1>2. Scoped
  BY DEF RoutesInv
<1>3. scopes \in Seq(ScopeRecords) /\ Len(scopes) > 1 /\ scopes' = SubSeq(scopes, 1, Len(scopes) - 1)
  BY <1>2 DEF Scoped, CloseGroup, Front
<1>4. scopes' \in Seq(ScopeRecords) /\ Len(scopes') >= 1
  BY <1>3
<1>5. Scoped'
  BY <1>4 DEF Scoped
<1> QED
  BY <1>1, <1>5, SameRoutes

\* Handler serves a router without a fault and without a conflict.
LEMMA HandlerKeeps == ASSUME RoutesInv, Handler PROVE RoutesInv'
<1>1. UNCHANGED <<app, scopes, set, list, calls, attached>> /\ phase' = IF HandlerFaults(app) = <<>> THEN "serving" ELSE "faulty"
  BY DEF Handler
<1>2. app' = app /\ scopes' = scopes /\ set' = set /\ list' = list /\ calls' = calls /\ attached' = attached
  BY <1>1
<1>3. ModuleSites' = ModuleSites
  BY <1>2 DEF ModuleSites
<1>4. Numbered' /\ Composed' /\ Counted' /\ (app \in Registries(AllSites))' /\ Scoped'
  BY <1>2, <1>3 DEF RoutesInv, Numbered, Composed, Counted, AllSites, Scoped
<1>5. ASSUME HandlerFaults(app) = <<>> PROVE app.faults = <<>> /\ Refused(app.routes) = {}
  <2>1. app.faults = <<>>
    BY <1>5 DEF HandlerFaults
  <2>2. Refused(app.routes) = {}
    BY <1>5, <2>1, OneIsSome DEF HandlerFaults
  <2> QED
    BY <2>1, <2>2
<1>6. Started'
  BY <1>1, <1>2, <1>5 DEF Started
<1> QED
  BY <1>4, <1>6 DEF RoutesInv

\* Compose takes a list whose sites no route has yet.
LEMMA ComposeKeeps == ASSUME RoutesInv, NEW ms \in Lists, Compose(ms) PROVE RoutesInv'
<1>1. /\ phase = "wiring" /\ set = {} /\ set' = {Modules(ms)} /\ list' = ms
      /\ app' = app /\ scopes' = scopes /\ calls' = calls /\ attached' = attached /\ phase' = phase
  <2>1. UNCHANGED <<app, scopes, calls, attached, used, phase, faults>>
    BY DEF Compose
  <2> QED
    BY <2>1 DEF Compose
<1>2. list = <<>> /\ attached = 0
  BY <1>1 DEF RoutesInv, Composed
<1>3. ListOf(ms)
  BY ListsAssumption DEF ListOf
<1>4. ModuleSites = {} /\ AllSites = calls
  BY <1>2 DEF ModuleSites, AllSites
<1>5. ModuleSites' = SitesIn(ms)
  BY <1>1 DEF ModuleSites, SitesIn
<1>6. SitesIn(ms) \subseteq Nat \X Nat /\ \A k : <<0, k>> \notin SitesIn(ms)
  BY <1>3, SitesApart
<1>7. calls \cap SitesIn(ms) = {}
  <2>1. \A c \in calls : \E k : c = <<0, k>>
    BY DEF RoutesInv, Numbered
  <2> QED
    BY <1>6, <2>1
<1> DEFINE a == app
           C == calls
           T == SitesIn(ms)
           owned == Modules(ms).owned
<1>8. a \in Registries(C)
  BY <1>4 DEF RoutesInv
<1>9. Cardinality(owned) \in Nat
  BY <1>3, OwnedFinite
<1> HIDE DEF a, C, owned
<1>10. a \in Registries(C \cup T)
  BY <1>8, RegistriesGrow
<1>11. Count(a, T) = 0
  BY <1>7, <1>8, CountOut DEF C
<1>12. ASSUME NEW site \in T PROVE Count(a, {site}) = 0
  <2>1. C \cap {site} = {}
    BY <1>7, <1>12 DEF C
  <2> QED
    BY <1>8, <2>1, CountOut
<1>13. (app \in Registries(AllSites))'
  BY <1>1, <1>5, <1>10 DEF AllSites, a, C
<1>14. Numbered' /\ Scoped' /\ Composed' /\ Started'
  BY <1>1, <1>2 DEF RoutesInv, Numbered, Scoped, Composed, Started
<1>15. 0 * Cardinality(owned) = 0
  BY <1>9
<1>16. Counted'
  <2> SUFFICES ASSUME app.faults = <<>>
               PROVE  /\ \A site \in calls : Count(app, {site}) = 1
                      /\ \A site \in T : Count(app, {site}) = 0
                      /\ Count(app, T) = 0 * Cardinality(owned)
    BY <1>1, <1>2, <1>5 DEF Counted, owned
  <2>1. \A site \in calls : Count(app, {site}) = 1
    BY DEF RoutesInv, Counted
  <2> QED
    BY <1>11, <1>12, <1>15, <2>1 DEF a
<1> QED
  BY <1>13, <1>14, <1>16 DEF RoutesInv

\* The next call of the wiring has a site that none had before.
LEMMA NumbersGrow ==
  ASSUME NEW C, NEW n \in Nat, C = {<<0, k>> : k \in 1 .. n}, Cardinality(C) = n
  PROVE  /\ <<0, n + 1>> \notin C /\ Cardinality(C \cup {<<0, n + 1>>}) = n + 1
         /\ C \cup {<<0, n + 1>>} = {<<0, k>> : k \in 1 .. n + 1}
<1>1. <<0, n + 1>> \notin C
  OBVIOUS
<1>2. C \cup {<<0, n + 1>>} = {<<0, k>> : k \in 1 .. n + 1}
  <2>1. 1 .. n + 1 = (1 .. n) \cup {n + 1}
    OBVIOUS
  <2> QED
    BY <2>1
<1>3. IsFiniteSet(C)
  <2>1. IsFiniteSet(1 .. n)
    <3>1. 1 \in Int /\ n \in Int
      OBVIOUS
    <3> QED
      BY <3>1, FS_Interval
  <2> DEFINE f == [k \in 1 .. n |-> <<0, k>>]
  <2>2. f \in Surjection(1 .. n, C)
    BY DEF Surjection
  <2> QED
    BY <2>1, <2>2, FS_Surjection
<1>4. Cardinality(C \cup {<<0, n + 1>>}) = n + 1
  <2> DEFINE x == <<0, n + 1>>
  <2>1. x \notin C
    BY <1>1
  <2> HIDE DEF x
  <2> QED
    BY <1>3, <2>1, FS_AddElement DEF x
<1> QED
  BY <1>1, <1>2, <1>4

\* Declare adds a route at a site of its own, or a fault.
LEMMA DeclareKeeps == ASSUME RoutesInv, NEW c \in Calls, Declare(c) PROVE RoutesInv'
<1> DEFINE n == Cardinality(calls)
           site == <<0, n + 1>>
<1>1. /\ phase = "wiring" /\ app' = Register(app, Scope, c, site) /\ calls' = calls \cup {site}
      /\ scopes' = scopes /\ set' = set /\ list' = list /\ attached' = attached /\ phase' = phase
  <2>1. UNCHANGED <<scopes, set, list, attached, used, phase, faults>>
    BY DEF Declare
  <2> QED
    BY <2>1 DEF Declare
<1>2. n \in Nat /\ calls = {<<0, k>> : k \in 1 .. n} /\ site \in Nat \X Nat
  BY DEF RoutesInv, Numbered
<1>3. Composed /\ Numbered /\ Scoped /\ app \in Registries(AllSites) /\ Counted
  BY DEF RoutesInv
<1>4. ListOf(list) /\ ModuleSites = SitesIn(list) /\ AllSites \subseteq Nat \X Nat /\ site \notin ModuleSites
  BY <1>3, ListedIs, SitesAre
<1>5. ModuleSites' = ModuleSites
  BY <1>1 DEF ModuleSites
<1>6. Scope \in ScopeRecords /\ c \in CallRecords
  BY <1>3, ScopeIn, WiringAssumption
<1>7. Numbered' /\ site \notin calls
  <2> DEFINE C == calls
  <2> HIDE DEF n, C
  <2>1. n \in Nat /\ C = {<<0, k>> : k \in 1 .. n} /\ Cardinality(C) = n
    BY <1>2 DEF n, C
  <2>2. /\ <<0, n + 1>> \notin C /\ Cardinality(C \cup {<<0, n + 1>>}) = n + 1
        /\ C \cup {<<0, n + 1>>} = {<<0, k>> : k \in 1 .. n + 1}
    BY <2>1, NumbersGrow
  <2>3. calls' = C \cup {<<0, n + 1>>}
    BY <1>1 DEF C
  <2>4. Cardinality(calls') = n + 1 /\ n + 1 \in Nat
    BY <2>1, <2>2, <2>3
  <2>5. calls' = {<<0, k>> : k \in 1 .. Cardinality(calls')}
    BY <2>2, <2>3, <2>4
  <2> QED
    BY <2>2, <2>4, <2>5 DEF Numbered, C
<1> DEFINE a == app
           S == AllSites
           scope == Scope
           x == site
           b == app'
           owned == Modules(list).owned
           M == ModuleSites
           C == calls
<1> HIDE DEF n, site
<1>8. /\ a \in Registries(S) /\ S \subseteq Nat \X Nat /\ scope \in ScopeRecords /\ x \in Nat \X Nat
      /\ b = Register(a, scope, c, x) /\ S = C \cup M /\ x \notin C /\ x \notin M
  BY <1>1, <1>2, <1>3, <1>4, <1>6, <1>7 DEF AllSites
<1>9. app' = b /\ calls' = C \cup {x} /\ ModuleSites' = M /\ AllSites' = S \cup {x}
  BY <1>1, <1>5 DEF AllSites
<1>10. /\ a.faults = <<>> => /\ \A z \in C : Count(a, {z}) = 1
                             /\ \A z \in M : Count(a, {z}) = attached
                             /\ set # {} => Count(a, M) = attached * Cardinality(owned)
  BY <1>3 DEF Counted
<1> HIDE DEF a, S, scope, x, b, owned, M, C
<1>11. b \in Registries(S \cup {x}) /\ Adds(a, b, x)
  BY <1>6, <1>8, DeclareDoes
<1> DEFINE W == S \cup {x}
<1>12. a \in Registries(W) /\ b \in Registries(W)
  <2>1. S \subseteq W
    OBVIOUS
  <2> QED
    BY <1>8, <1>11, <2>1, RegistriesGrow
<1> HIDE DEF W
<1>13. ASSUME b.faults = <<>>
       PROVE  /\ \A z \in C \cup {x} : Count(b, {z}) = 1
              /\ \A z \in M : Count(b, {z}) = attached
              /\ set # {} => Count(b, M) = attached * Cardinality(owned)
  <2>1. ASSUME NEW T PROVE Count(a, T) \in Nat /\ Count(b, T) = Count(a, T) + (IF x \in T THEN 1 ELSE 0) /\ a.faults = <<>>
    <3>1. a.faults = <<>> /\ Count(b, T) = Count(a, T) + IF x \in T THEN 1 ELSE 0
      BY <1>11, <1>12, <1>13, AddsOne
    <3>2. Count(a, T) \in Nat
      BY <1>12, AtFinite
    <3> QED
      BY <3>1, <3>2
  <2>2. ASSUME NEW T, x \notin T PROVE Count(b, T) = Count(a, T)
    <3> DEFINE u == Count(a, T)
               v == Count(b, T)
    <3>1. u \in Nat /\ v = u + 0
      BY <2>1, <2>2
    <3> HIDE DEF u, v
    <3>2. v = u
      BY <3>1
    <3> QED
      BY <3>2 DEF u, v
  <2>3. a.faults = <<>>
    BY <2>1
  <2>4. Count(b, {x}) = 1
    <3>1. S \cap {x} = {}
      BY <1>8
    <3>2. Count(a, {x}) = 0
      BY <1>8, <3>1, CountOut
    <3>3. x \in {x}
      OBVIOUS
    <3>4. Count(b, {x}) = 0 + 1
      BY <2>1, <3>2, <3>3
    <3> QED
      BY <3>4
  <2>5. ASSUME NEW z \in C PROVE Count(b, {z}) = 1
    <3>1. x \notin {z}
      BY <1>8
    <3> QED
      BY <1>10, <2>2, <2>3, <3>1
  <2>6. ASSUME NEW z \in M PROVE Count(b, {z}) = attached
    <3>1. x \notin {z}
      BY <1>8
    <3> QED
      BY <1>10, <2>2, <2>3, <3>1
  <2>7. ASSUME set # {} PROVE Count(b, M) = attached * Cardinality(owned)
    BY <1>8, <1>10, <2>2, <2>3, <2>7
  <2> QED
    BY <2>4, <2>5, <2>6, <2>7
<1>14. Counted'
  BY <1>1, <1>9, <1>13 DEF Counted, owned
<1>15. (app \in Registries(AllSites))'
  BY <1>9, <1>11
<1>16. Scoped' /\ Composed' /\ Started'
  BY <1>1, <1>3 DEF Scoped, Composed, Started
<1> QED
  BY <1>7, <1>14, <1>15, <1>16 DEF RoutesInv

\* A number of merges and one more.
LEMMA OnceMore ==
  ASSUME NEW n \in {0, 1}, NEW c \in Nat, NEW u, u = n * c
  PROVE  u + c = (n + 1) * c /\ n + 1 \in {0, 1, 2}
<1>1. CASE n = 0
  BY <1>1
<1>2. CASE n = 1
  BY <1>2
<1> QED
  BY <1>1, <1>2

\* Attach adds a route for each registration of the modules, or it leaves a fault.
LEMMA AttachKeeps == ASSUME RoutesInv, NEW s \in set, Attach(s) PROVE RoutesInv'
<1>1. /\ phase = "wiring" /\ attached \in {0, 1, 2} /\ attached < 2
      /\ scopes' = scopes /\ set' = set /\ list' = list /\ calls' = calls
  <2>1. UNCHANGED <<scopes, set, list, calls, used>>
    BY DEF Attach
  <2> QED
    BY <2>1 DEF Attach, RoutesInv, Composed
<1>2. Composed /\ Numbered /\ Scoped /\ app \in Registries(AllSites) /\ Counted
  BY DEF RoutesInv
<1>3. set # {} /\ list \in Lists /\ set = {Modules(list)} /\ s = Modules(list)
  BY <1>2 DEF Composed
<1>4. CASE s.faults # <<>>
  <2>1. app' = app /\ attached' = attached /\ phase' = "refused"
    BY <1>4 DEF Attach
  <2> QED
    BY <1>1, <1>2, <2>1, SameRoutes DEF Scoped
<1>5. CASE s.faults = <<>>
  <2>1. app' = AttachAll(app, Scope, s.probes) /\ attached' = attached + 1 /\ phase' = phase
    BY <1>5 DEF Attach, AttachAll
  <2>2. ListOf(list) /\ ModuleSites = SitesIn(list) /\ AllSites \subseteq Nat \X Nat
    BY <1>2, ListedIs, SitesAre
  <2>3. ModuleSites' = ModuleSites
    BY <1>1 DEF ModuleSites
  <2>4. Scope \in ScopeRecords
    BY <1>2, ScopeIn
  <2> DEFINE a == app
             S == AllSites
             scope == Scope
             b == app'
             ms == list
             owned == Modules(list).owned
             M == ModuleSites
             C == calls
             n == attached
  <2>5. /\ a \in Registries(S) /\ S \subseteq Nat \X Nat /\ scope \in ScopeRecords /\ S = C \cup M
        /\ b = AttachAll(a, scope, Modules(ms).probes) /\ ListOf(ms) /\ Modules(ms).faults = <<>> /\ SitesIn(ms) = M
    BY <1>2, <1>3, <1>5, <2>1, <2>2, <2>4 DEF AllSites
  <2>6. /\ a.faults = <<>> => /\ \A z \in C : Count(a, {z}) = 1
                              /\ \A z \in M : Count(a, {z}) = n
                              /\ Count(a, M) = n * Cardinality(owned)
    BY <1>2, <1>3 DEF Counted
  <2>7. n \in {0, 1}
    BY <1>1
  <2>8. /\ app' = b /\ calls' = C /\ ModuleSites' = M /\ AllSites' = S /\ attached' = n + 1
        /\ Modules(list').owned = owned /\ set' # {}
    BY <1>1, <1>3, <2>1, <2>3 DEF AllSites
  <2>9. \A z \in C : \E k \in Nat : z = <<0, k>>
    BY <1>2 DEF Numbered
  <2>10. owned = Modules(ms).owned
    OBVIOUS
  <2> HIDE DEF a, S, scope, b, ms, owned, M, C, n
  <2>11. Cardinality(owned) \in Nat
    BY <2>5, <2>10, OwnedFinite
  <2>12. SitesIn(ms) \subseteq S
    BY <2>5
  <2>13. b \in Registries(S) /\ Joins(S, a, b, Modules(ms).probes, Len(ms))
    BY <2>5, <2>12, AttachStep
  <2>14. ASSUME b.faults = <<>>
         PROVE  /\ \A z \in C : Count(b, {z}) = 1
                /\ \A z \in M : Count(b, {z}) = n + 1
                /\ Count(b, M) = (n + 1) * Cardinality(owned)
    <3>1. Gained(ms, Modules(ms), a, b)
      BY <2>5, <2>12, <2>13, <2>14, AttachAdds
    <3>2. /\ a.faults = <<>>
          /\ \A z \in M : Count(b, {z}) = Count(a, {z}) + 1
          /\ \A k \in Nat : Count(b, {<<0, k>>}) = Count(a, {<<0, k>>}) + 0
          /\ Count(b, M) = Count(a, M) + Cardinality(owned)
      BY <2>5, <2>10, <3>1 DEF Gained
    <3>3. ASSUME NEW z \in C PROVE Count(b, {z}) = 1
      <4>1. PICK k \in Nat : z = <<0, k>>
        BY <2>9
      <4>2. Count(b, {z}) = Count(a, {z}) + 0
        BY <3>2, <4>1
      <4>3. Count(a, {z}) = 1
        BY <2>6, <3>2
      <4> QED
        BY <4>2, <4>3
    <3>4. ASSUME NEW z \in M PROVE Count(b, {z}) = n + 1
      BY <2>6, <3>2
    <3>5. Count(b, M) = (n + 1) * Cardinality(owned)
      <4> DEFINE c == Cardinality(owned)
                 u == Count(a, M)
      <4>1. c \in Nat /\ u = n * c /\ Count(b, M) = u + c
        BY <2>6, <2>11, <3>2
      <4> HIDE DEF c, u
      <4>2. u + c = (n + 1) * c
        BY <2>7, <4>1, OnceMore
      <4> QED
        BY <4>1, <4>2 DEF c
    <3> QED
      BY <3>3, <3>4, <3>5
  <2>15. Counted'
    <3>1. b.faults = <<>> => /\ \A z \in C : Count(b, {z}) = 1
                             /\ \A z \in M : Count(b, {z}) = attached'
                             /\ Count(b, M) = attached' * Cardinality(owned)
      BY <2>8, <2>14
    <3> QED
      BY <2>8, <3>1 DEF Counted
  <2>16. (app \in Registries(AllSites))'
    BY <2>8, <2>13
  <2>17. Numbered' /\ Scoped' /\ Started'
    BY <1>1, <1>2, <2>1 DEF Numbered, Scoped, Started
  <2>18. Composed'
    <3>1. attached' \in {0, 1, 2}
      BY <2>7, <2>8
    <3> QED
      BY <1>1, <1>3, <1>5, <3>1 DEF Composed
  <2> QED
    BY <2>15, <2>16, <2>17, <2>18 DEF RoutesInv
<1> QED
  BY <1>4, <1>5

-----------------------------------------------------------------------------
(* The theorems. *)

\* The invariant holds at first.
LEMMA InitRoutes == Init => RoutesInv
<1> SUFFICES ASSUME Init PROVE RoutesInv
  OBVIOUS
<1>1. /\ app = NewRegistry /\ scopes = <<NoScope>> /\ set = {} /\ list = <<>> /\ calls = {} /\ attached = 0
      /\ phase = "wiring"
  BY DEF Init
<1>2. ModuleSites = {}
  BY <1>1 DEF ModuleSites
<1>3. Scoped
  <2>1. NoScope \in ScopeRecords
    BY DEF NoScope, ScopeRecords, Patterns, Empty
  <2> QED
    BY <1>1, <2>1 DEF Scoped
<1>4. Numbered
  <2>1. Cardinality({}) = 0 /\ 1 .. 0 = {}
    BY FS_EmptySet
  <2> QED
    BY <1>1, <2>1 DEF Numbered
<1>5. app \in Registries(AllSites)
  BY <1>1, NewIn
<1> QED
  BY <1>1, <1>2, <1>3, <1>4, <1>5 DEF RoutesInv, Composed, Counted, Started

\* It holds over each step.
LEMMA NextRoutes == RoutesInv /\ [Next]_vars => RoutesInv'
<1> SUFFICES ASSUME RoutesInv, [Next]_vars PROVE RoutesInv'
  OBVIOUS
<1>1. CASE UNCHANGED vars
  <2>1. /\ app' = app /\ scopes' = scopes /\ set' = set /\ list' = list /\ calls' = calls /\ attached' = attached
        /\ phase' = phase
    BY <1>1 DEF vars
  <2>2. ModuleSites' = ModuleSites
    BY <2>1 DEF ModuleSites
  <2> QED
    BY <2>1, <2>2 DEF RoutesInv, Numbered, Scoped, Composed, Counted, Started, AllSites
<1>2. ASSUME NEW m \in Mws, Use(m) PROVE RoutesInv'
  BY <1>2, UseKeeps
<1>3. ASSUME NEW p \in Groups, OpenGroup(p) PROVE RoutesInv'
  BY <1>3, OpenGroupKeeps
<1>4. CASE CloseGroup
  BY <1>4, CloseGroupKeeps
<1>5. ASSUME NEW c \in Calls, Declare(c) PROVE RoutesInv'
  BY <1>5, DeclareKeeps
<1>6. ASSUME NEW ms \in Lists, Compose(ms) PROVE RoutesInv'
  BY <1>6, ComposeKeeps
<1>7. ASSUME NEW s \in set, Attach(s) PROVE RoutesInv'
  BY <1>7, AttachKeeps
<1>8. CASE Handler
  BY <1>8, HandlerKeeps
<1> QED
  BY <1>1, <1>2, <1>3, <1>4, <1>5, <1>6, <1>7, <1>8 DEF Next

\* It holds always.
LEMMA AlwaysRoutes == Spec => []RoutesInv
<1> QED
  BY InitRoutes, NextRoutes, PTL DEF Spec

-----------------------------------------------------------------------------
\* Each registration is served once, or as often as its set was attached.
LEMMA ServedOnce == RoutesInv => EveryCallServed
<1> SUFFICES ASSUME RoutesInv, phase = "serving"
             PROVE  /\ \A i \in DOMAIN app.routes : app.routes[i].site \in calls \cup ModuleSites
                    /\ \A site \in calls \cup ModuleSites :
                          Cardinality({i \in DOMAIN app.routes : app.routes[i].site = site}) =
                            IF site \in calls THEN 1 ELSE attached
  BY DEF EveryCallServed
<1> DEFINE a == app
           S == AllSites
<1>1. a \in Registries(S)
  BY DEF RoutesInv
<1>2. /\ \A site \in calls : Count(a, {site}) = 1
      /\ \A site \in ModuleSites : Count(a, {site}) = attached
  BY DEF RoutesInv, Started, Counted
<1>3. ASSUME NEW site PROVE Cardinality({i \in DOMAIN app.routes : app.routes[i].site = site}) = Count(a, {site})
  <2>1. {i \in DOMAIN app.routes : app.routes[i].site = site} = At(a, {site})
    BY DEF At
  <2> QED
    BY <2>1 DEF Count
<1> HIDE DEF a, S
<1>4. \A i \in DOMAIN a.routes : a.routes[i].site \in S
  BY <1>1, RouteIs
<1> QED
  BY <1>2, <1>3, <1>4 DEF a, S, AllSites

\* An application that starts serves each registration of its wiring once, and each of its modules once for each
\* merge: for any wiring, any modules and any scopes (router.go, merge.go, inspect.go).
THEOREM CallsServed == Spec => []EveryCallServed
BY AlwaysRoutes, ServedOnce, PTL

-----------------------------------------------------------------------------
\* The rows that `avero modules` lists are those of the table.
LEMMA TableAgrees == RoutesInv => ModulesAgree
<1> SUFFICES ASSUME RoutesInv, phase = "serving", attached > 0, NEW s \in set
             PROVE  /\ Cardinality({row.name : row \in Contributions(s)}) = Len(list)
                    /\ Cardinality(UNION {row.routes : row \in Contributions(s)}) * attached =
                         Cardinality({i \in DOMAIN app.routes : app.routes[i].site \in ModuleSites})
  BY DEF ModulesAgree
<1>1. /\ set # {} /\ s = Modules(list) /\ attached \in {1, 2} /\ s.faults = <<>>
      /\ Count(app, ModuleSites) = attached * Cardinality(s.owned)
  BY DEF RoutesInv, Composed, Started, Counted
<1>2. ListOf(list)
  BY ListedIs DEF RoutesInv
<1> DEFINE ms == list
<1>3. Table(ms, s, Len(ms))
  <2> HIDE DEF ms
  <2>1. ListOf(ms) /\ Modules(ms).faults = <<>> /\ s = Modules(ms)
    BY <1>1, <1>2 DEF ms
  <2> DEFINE W == SitesIn(ms)
  <2>2. W \subseteq Nat \X Nat /\ SitesIn(ms) \subseteq W
    BY <2>1, SitesApart
  <2> HIDE DEF W
  <2>3. Table(ms, Modules(ms), Len(ms))
    BY <2>1, <2>2, ModulesDoes
  <2> QED
    BY <2>1, <2>3
<1>4. Contributions(s) = {s.rows[k] : k \in DOMAIN s.rows}
  BY <1>1 DEF Contributions
<1>5. {row.name : row \in Contributions(s)} = Names(s)
  BY <1>4 DEF Names
<1>6. UNION {row.routes : row \in Contributions(s)} = Listed(s)
  BY <1>4 DEF Listed
<1>7. Cardinality(Names(s)) = Len(list) /\ Listed(s) = s.owned
  BY <1>3 DEF Table
<1>8. Cardinality({i \in DOMAIN app.routes : app.routes[i].site \in ModuleSites}) = Count(app, ModuleSites)
  BY DEF Count, At
<1>9. Cardinality(s.owned) \in Nat
  <2> HIDE DEF ms
  <2>1. ListOf(ms) /\ s = Modules(ms)
    BY <1>1, <1>2 DEF ms
  <2> QED
    BY <2>1, OwnedFinite
<1>10. Cardinality(s.owned) * attached = attached * Cardinality(s.owned)
  BY <1>1, <1>9
<1> QED
  BY <1>1, <1>5, <1>6, <1>7, <1>8, <1>10

\* What `avero modules` lists is what the router serves: each module has a row of its own name, and the routes of
\* the rows are as many as the routes that one merge added.
THEOREM TablesAgree == Spec => []ModulesAgree
BY AlwaysRoutes, TableAgrees, PTL

-----------------------------------------------------------------------------
\* Of finitely many routes that all lie within each other, one is within all.
LEMMA MostSpecific ==
  ASSUME NEW n \in Nat, NEW f, NEW H \in SUBSET (1 .. n), H # {},
         \A i \in H, j \in H : f[i] \subseteq f[j] \/ f[j] \subseteq f[i]
  PROVE  \E i \in H : \A j \in H : f[i] \subseteq f[j]
<1> DEFINE Chain(G) == \A i \in G, j \in G : f[i] \subseteq f[j] \/ f[j] \subseteq f[i]
           Has == {m \in Nat : \A G \in SUBSET (1 .. m) : G # {} /\ Chain(G) => \E i \in G : \A j \in G : f[i] \subseteq f[j]}
<1>1. 0 \in Has
  <2>1. 1 .. 0 = {}
    OBVIOUS
  <2> QED
    BY <2>1
<1>2. ASSUME NEW m \in Nat, m \in Has PROVE m + 1 \in Has
  <2> SUFFICES ASSUME NEW G \in SUBSET (1 .. m + 1), G # {}, Chain(G) PROVE \E i \in G : \A j \in G : f[i] \subseteq f[j]
    OBVIOUS
  <2>1. \A F \in SUBSET (1 .. m) : F # {} /\ Chain(F) => \E i \in F : \A j \in F : f[i] \subseteq f[j]
    BY <1>2
  <2> DEFINE F == G \ {m + 1}
  <2>2. F \in SUBSET (1 .. m) /\ Chain(F)
    <3>1. 1 .. m + 1 = (1 .. m) \cup {m + 1}
      OBVIOUS
    <3> QED
      BY <3>1
  <2>3. CASE F = {}
    <3>1. G = {m + 1}
      BY <2>3
    <3> QED
      BY <3>1
  <2>4. CASE F # {}
    <3> HIDE DEF Chain
    <3>1. PICK i \in F : \A j \in F : f[i] \subseteq f[j]
      BY <2>1, <2>2, <2>4
    <3>2. CASE m + 1 \notin G
      BY <3>1, <3>2
    <3>3. CASE m + 1 \in G
      <4>1. f[i] \subseteq f[m + 1] \/ f[m + 1] \subseteq f[i]
        BY <3>1, <3>3 DEF Chain
      <4>2. CASE f[i] \subseteq f[m + 1]
        BY <3>1, <4>2
      <4>3. CASE f[m + 1] \subseteq f[i]
        BY <3>1, <3>3, <4>3
      <4> QED
        BY <4>1, <4>2, <4>3
    <3> QED
      BY <3>2, <3>3
  <2> QED
    BY <2>3, <2>4
<1>3. n \in Has
  <2> HIDE DEF Has
  <2> QED
    BY <1>1, <1>2, SetInduction
<1> QED
  BY <1>3

\* A mux that refused no route picks one that matches the request.
LEMMA DispatchPicks ==
  ASSUME NEW routes, NEW n \in Nat, DOMAIN routes = 1 .. n, Refused(routes) = {}, NEW r,
         NEW x \in 1 .. n, r \in Matched(routes[x])
  PROVE  Dispatch(routes, r) \in 1 .. n /\ r \in Matched(routes[Dispatch(routes, r)])
<1> DEFINE H == {i \in DOMAIN routes : r \in Matched(routes[i])}
           f == [i \in 1 .. n |-> Matched(routes[i])]
<1>1. H \in SUBSET (1 .. n) /\ H # {}
  OBVIOUS
<1>2. ASSUME NEW i \in H, NEW j \in H, j < i PROVE f[i] \subseteq f[j] \/ f[j] \subseteq f[i]
  <2>1. i \in 1 .. n /\ j \in 1 .. n /\ j \in 1 .. (i - 1) /\ r \in Matched(routes[i]) /\ r \in Matched(routes[j])
    BY <1>2
  <2>2. ~Conflict(routes[j], routes[i])
    BY <2>1 DEF Refused
  <2> QED
    BY <2>1, <2>2 DEF Conflict
<1>3. \A i \in H, j \in H : f[i] \subseteq f[j] \/ f[j] \subseteq f[i]
  <2>1. \A i \in H, j \in H : i = j \/ i < j \/ j < i
    BY <1>1
  <2> HIDE DEF H, f
  <2> QED
    BY <1>2, <2>1
<1>4. \E i \in H : \A j \in H : f[i] \subseteq f[j]
  <2> HIDE DEF H, f
  <2> QED
    BY <1>1, <1>3, MostSpecific
<1>5. \E i \in H : \A j \in H : Matched(routes[i]) \subseteq Matched(routes[j])
  BY <1>1, <1>4
<1>6. Dispatch(routes, r) \in H
  BY <1>5 DEF Dispatch
<1> QED
  BY <1>6

\* A request below a prefix without a wildcard starts with its segments.
LEMMA PrefixMatches ==
  ASSUME NEW p \in Patterns, NEW q \in Paths, PathMatches(p, q), p.end = "tree", Wild \notin Range(p.segs)
  PROVE  IsPrefix(p.segs, q.segs)
<1>1. p.segs \in Seq(Lits \cup {Wild})
  BY DEF Patterns
<1>2. q.segs \in Seq(Lits)
  <2>1. PICK n \in 0 .. MaxSegs : q.segs \in [1 .. n -> Lits]
    BY DEF Paths
  <2>2. n \in Nat
    BY <2>1, BoundsAssumption
  <2> QED
    BY <2>1, <2>2
<1>3. Len(q.segs) >= Len(p.segs) /\ \A i \in 1 .. Len(p.segs) : p.segs[i] \in {Wild, q.segs[i]}
  BY DEF PathMatches, SegmentsMatch
<1>4. \A i \in 1 .. Len(p.segs) : p.segs[i] = q.segs[i]
  <2>1. \A i \in 1 .. Len(p.segs) : p.segs[i] \in Range(p.segs)
    BY <1>1 DEF Range
  <2> QED
    BY <1>3, <2>1
<1> DEFINE s == p.segs
           t == q.segs
<1> HIDE DEF s, t
<1>5. s \in Seq(Lits \cup {Wild}) /\ t \in Seq(Lits) /\ Len(t) >= Len(s) /\ \A i \in 1 .. Len(s) : s[i] = t[i]
  BY <1>1, <1>2, <1>3, <1>4 DEF s, t
<1>6. SubSeq(s, 1, Len(s)) = SubSeq(t, 1, Len(s))
  BY <1>5
<1> QED
  BY <1>5, <1>6 DEF IsPrefix, s, t

\* A mount that a request matches takes it.
LEMMA MountTakes ==
  ASSUME NEW S, NEW route \in GoodRoutes(S), NEW r, r \in Matched(route)
  PROVE  /\ Wild \notin Range(route.stripped) => Serve(route, r[2])
         /\ route.mounted => \A k \in DOMAIN route.mws : ~route.mws[k].needs
<1>1. r[2] \in Paths /\ PathMatches(route.pattern, r[2])
  BY DEF Matched, Requests
<1>2. route.pattern \in Patterns /\ GoodRoute(route)
  BY DEF GoodRoutes, RouteRecords
<1>3. ASSUME Wild \notin Range(route.stripped), route.mounted PROVE Stripped(route.stripped, r[2])
  <2>1. route.pattern.end = "tree" /\ route.stripped = IF route.keep THEN <<>> ELSE route.pattern.segs
    BY <1>1, <1>2, <1>3 DEF GoodRoute, PathMatches
  <2>2. CASE route.keep
    BY <2>1, <2>2 DEF Stripped
  <2>3. CASE ~route.keep
    <3> DEFINE p == route.pattern
               q == r[2]
    <3>1. p \in Patterns /\ q \in Paths /\ PathMatches(p, q) /\ p.end = "tree" /\ Wild \notin Range(p.segs) /\ route.stripped = p.segs
      BY <1>1, <1>2, <1>3, <2>1, <2>3
    <3> HIDE DEF p, q
    <3>2. IsPrefix(p.segs, q.segs)
      BY <3>1, PrefixMatches
    <3> QED
      BY <3>1, <3>2 DEF Stripped, q
  <2> QED
    BY <2>2, <2>3
<1> QED
  BY <1>2, <1>3 DEF Serve, GoodRoute

\* The mux picks a route that matches, since no two conflict, and a mount of it takes the request.
LEMMA MountsTake == RoutesInv => MountsAreReached
<1> DEFINE picked(r) == app.routes[Dispatch(app.routes, r)]
<1> SUFFICES ASSUME RoutesInv, phase = "serving", NEW x \in DOMAIN app.routes, NEW r \in Matched(app.routes[x])
             PROVE  /\ Wild \notin Range(picked(r).stripped) => Serve(picked(r), r[2])
                    /\ picked(r).mounted => \A k \in DOMAIN picked(r).mws : ~picked(r).mws[k].needs
  BY DEF MountsAreReached
<1> DEFINE a == app
           S == AllSites
<1>1. a \in Registries(S) /\ Refused(a.routes) = {} /\ x \in DOMAIN a.routes /\ r \in Matched(a.routes[x])
  BY DEF RoutesInv, Started
<1>2. picked(r) = a.routes[Dispatch(a.routes, r)]
  OBVIOUS
<1> HIDE DEF a, S
<1> DEFINE routes == a.routes
           n == Len(routes)
<1>3. n \in Nat /\ DOMAIN routes = 1 .. n
  <2>1. routes \in Seq(GoodRoutes(S))
    BY <1>1, RegistryIs
  <2> QED
    BY <2>1
<1>4. Refused(routes) = {} /\ x \in 1 .. n /\ r \in Matched(routes[x])
  BY <1>1, <1>3
<1> HIDE DEF routes, n
<1>5. Dispatch(routes, r) \in 1 .. n /\ r \in Matched(routes[Dispatch(routes, r)])
  BY <1>3, <1>4, DispatchPicks
<1> DEFINE d == Dispatch(routes, r)
<1>6. d \in DOMAIN a.routes /\ r \in Matched(a.routes[d]) /\ picked(r) = a.routes[d]
  BY <1>2, <1>3, <1>5 DEF routes
<1> HIDE DEF d
<1>7. a.routes[d] \in GoodRoutes(S)
  BY <1>1, <1>6, RouteIs
<1> DEFINE route == picked(r)
<1>8. route \in GoodRoutes(S) /\ r \in Matched(route)
  BY <1>6, <1>7
<1> HIDE DEF route
<1>9. /\ Wild \notin Range(route.stripped) => Serve(route, r[2])
      /\ route.mounted => \A k \in DOMAIN route.mws : ~route.mws[k].needs
  BY <1>8, MountTakes
<1> QED
  BY <1>9 DEF route

\* A request that the mux sends to a mount reaches its handler, below any groups and any merges, and it passes no
\* middleware that acts before the first byte.
THEOREM MountsReached == Spec => []MountsAreReached
BY AlwaysRoutes, MountsTake, PTL
=============================================================================
