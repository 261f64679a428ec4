----------------------------- MODULE Generators -----------------------------
(***************************************************************************)
(* The files of one application and what reads them: drel, templ, the two  *)
(* generators of Avero, the description of the API, the check of the       *)
(* generated files and the gate.  A tree maps each file that is present to *)
(* its text; a text is a sequence of the few words that a command tells    *)
(* apart, and <<>> is a file that a write emptied and never filled.        *)
(***************************************************************************)
EXTENDS SequencesExt

CONSTANTS Slices,  \* the feature slices that may be, in the order of their directories
          Dashed,  \* those of them whose name holds a dash
          Digits   \* those of them whose name begins with a digit

None == <<"", "">>
App(name) == <<"app", name>>
Web(name) == <<"web", name>>
Has(t, f) == f \in DOMAIN t
Text(t, f) == IF Has(t, f) THEN t[f] ELSE <<>>
Parses(text) == text # <<>> /\ ~Contains(text, "broken")

\* One file with its text, and the files of one tree over those of another one.
File(f, text) == [g \in {f} |-> text]
Over(w, t) == [f \in DOMAIN w \cup DOMAIN t |-> IF f \in DOMAIN w THEN w[f] ELSE t[f]]

\* The words of a text that are among the given ones, in their order.
Only(text, words) == FoldLeft(LAMBDA kept, w : IF w \in words THEN Append(kept, w) ELSE kept, <<>>, text)

\* What one step of a command does: a fault ends the command, writes change the tree, more runs before the rest of
\* it, last leaves the rest out, told says that the command prints what a person must do.
Does == [fault |-> "none", at |-> None, writes |-> <<>>, more |-> <<>>, last |-> FALSE, told |-> FALSE]
Nothing == Does
Writes(w) == [Does EXCEPT !.writes = w]
Then(steps) == [Does EXCEPT !.more = steps]
Fault(kind, f) == [Does EXCEPT !.fault = kind, !.at = f]
Refuse == Fault("refused", None)
Op(name) == [op |-> name, file |-> None, text |-> <<>>]
Write(f, text) == [op |-> "write", file |-> f, text |-> text]

-----------------------------------------------------------------------------
\* avero.json, and the front end that an external bundler owns.
Project(t) == IF Has(t, App("avero.json")) THEN t[App("avero.json")] ELSE <<"ssr", "entries">>
Shape(t) == IF Project(t) = <<>> THEN "ssr" ELSE Project(t)[1]
LoadProject(t) == IF Has(t, App("avero.json")) /\ t[App("avero.json")] = <<>> THEN Fault("tool", App("avero.json"))
                  ELSE Nothing
External(t) == Contains(Project(t), "external")
Entries(t) == Contains(Project(t), "entries")
NodeTool(t) == IF Contains(Project(t), "manager") THEN Fault("manager", App("avero.json")) ELSE Nothing
HasScript(t) == Contains(Text(t, Web("package.json")), "api")

Modules(t) == Only(Text(t, App("drel.yaml")), ToSet(Slices))
Embeds(t, s) == Has(t, <<s, "migration">>)

\* drel reads the model of each module, and writes its columns, its migration set and the package of all of them.
Drel(t) ==
    LET entries == ToSet(Modules(t))
        broken == {s \in entries : ~Parses(Text(t, <<s, "model">>))}
    IN IF entries = {} THEN Nothing
       ELSE IF broken # {} THEN Fault("tool", <<CHOOSE s \in broken : TRUE, "model">>)
       ELSE LET columns == [f \in {<<s, "columns">> : s \in entries} |-> t[<<f[1], "model">>]]
                sets == [f \in {<<s, "set">> : s \in {s \in entries : Embeds(t, s)}} |-> t[<<f[1], "migration">>]]
            IN Writes(Over(columns, Over(sets, File(App("db"), Modules(t)))))

\* `drel migrate new` of one module: without drel.yaml no step runs.
Migration(t, s) ==
    IF ~Has(t, App("drel.yaml")) THEN Nothing
    ELSE IF ~Contains(Modules(t), s) THEN Fault("tool", App("drel.yaml"))
    ELSE Writes(File(<<s, "migration">>, Text(t, <<s, "model">>)))

Templates == {App("layout.templ"), App("toaster.templ")}
GoOf(f) == IF f = App("layout.templ") THEN App("layout_templ.go") ELSE App("toaster_templ.go")
Templ(t) ==
    LET files == {f \in Templates : Has(t, f)}
        broken == {f \in files : t[f] = <<>>}
    IN IF broken # {} THEN Fault("tool", CHOOSE f \in broken : TRUE)
       ELSE Writes([g \in {GoOf(f) : f \in files} |-> t[CHOOSE f \in files : GoOf(f) = g]])

-----------------------------------------------------------------------------
GoKinds == {"wire.go", "handlers", "model", "module", "columns", "set", "db", "client", "zz_generated.go",
            "zz_generated_client.go", "layout_templ.go", "toaster_templ.go"}
GoFiles(t) == {f \in DOMAIN t : f[2] \in GoKinds}

\* Each generator skips the file that it writes itself, and reads every other one, generated or not.
IsSource(f, own) == f[2] # own
Parsed(t, own) == {f \in GoFiles(t) : IsSource(f, own)}
Broken(t, own) == {f \in Parsed(t, own) : ~Parses(t[f])}

Dirs == <<"payments">> \o Slices
InputOf(own) == IF own = "zz_generated.go" THEN "handlers" ELSE "client"
HasInput(t, d, own) == Text(t, <<d, InputOf(own)>>) \notin {<<>>, <<"none">>}
Tagged(t, own) == {f \in Parsed(t, own) : f[2] = InputOf(own) /\ t[f] = <<"fault">>}

\* The handlers with the model package that stands beside them, or the interface of a client.
Emit(t, d, own) == t[<<d, InputOf(own)>>] \o (IF own = "zz_generated.go" THEN Text(t, <<d, "model">>) ELSE <<>>)

\* A file that does not parse ends the build; the faults of the tags are collected. Either one writes nothing.
Build(t, own) ==
    IF Broken(t, own) # {} THEN Fault("code", CHOOSE f \in Broken(t, own) : TRUE)
    ELSE IF Tagged(t, own) # {} THEN Fault("code", CHOOSE f \in Tagged(t, own) : TRUE)
    ELSE LET with == Only(Dirs, {d \in ToSet(Dirs) : HasInput(t, d, own)})
         IN Then([i \in DOMAIN with |-> Write(<<with[i], own>>, Emit(t, with[i], own))])

Stale(t, own) ==
    LET b == Build(t, own)
    IN b.fault # "none" \/ \E i \in DOMAIN b.more : ~Has(t, b.more[i].file) \/ t[b.more[i].file] # b.more[i].text

Codegen == "zz_generated.go"
Client == "zz_generated_client.go"
GenerateCheck(t) == ~Stale(t, Codegen) /\ ~Stale(t, Client)

-----------------------------------------------------------------------------
\* The Go compiler, as far as a command can break what it reads: every file parses, a slice stands with its migration
\* set and its generated files, and the ui package defines Toasts one time.
Registered(t) == Only(Text(t, App("wire.go")), ToSet(Slices))
Whole(t, s) == /\ \A k \in {"handlers", "model", "module", "columns", "set"} : Has(t, <<s, k>>)
               /\ HasInput(t, s, Codegen) <=> Has(t, <<s, Codegen>>)
Toasts(t) == (IF Text(t, App("layout_templ.go")) \in {<<"scaffold">>, <<"own">>} THEN 1 ELSE 0)
             + (IF Has(t, App("toaster_templ.go")) THEN 1 ELSE 0)

\* What the root package is made of: the wiring, the ui package and the modules that the wiring names.  Any other
\* package, and every test, is read by ./... alone.
Imported(t, f) == f[1] \in ToSet(Registered(t)) \/ f \in {App(k) : k \in {"wire.go", "layout_templ.go", "toaster_templ.go"}}
Compiles(t) ==
    /\ Has(t, App("go.mod")) /\ Has(t, App("wire.go"))
    /\ \A f \in GoFiles(t) : Imported(t, f) => Parses(t[f])
    /\ \A s \in ToSet(Registered(t)) : s \notin Dashed /\ Whole(t, s)
    /\ Has(t, App("layout_templ.go")) <=> Has(t, App("layout.templ"))
    /\ Has(t, App("layout.templ")) => Toasts(t) = 1

\* A Go file that parses, in a slice that is whole.
Stands(t, f) == Parses(t[f]) /\ (f[1] \in ToSet(Slices) => Whole(t, f[1]))
Tests(t) == {App("toaster_test.go")} \cap DOMAIN t
Builds(t) == Compiles(t) /\ \A f \in GoFiles(t) : Stands(t, f)
Vets(t) == Builds(t) /\ \A f \in Tests(t) : Stands(t, f)

\* The application states its routes itself, so the description needs a build.
Describes(t) == <<"paths">> \o FlattenSeq([i \in DOMAIN Registered(t) |->
                               <<Registered(t)[i]>> \o Text(t, <<Registered(t)[i], "handlers">>)])
WantsDescription(t) == \/ Has(t, App("openapi.json"))
                       \/ External(t) /\ (Has(t, Web("openapi-ts.config.ts")) \/ (NodeTool(t) = Nothing /\ HasScript(t)))
CheckDescription(t) ==
    WantsDescription(t) => Compiles(t) /\ Has(t, App("openapi.json")) /\ t[App("openapi.json")] = Describes(t)

\* Install reads the dependencies one time; a directory that is there counts as read.
Install(t) == IF ~External(t) \/ ~Has(t, Web("package.json")) \/ Has(t, Web("node_modules")) THEN Nothing
              ELSE IF NodeTool(t) # Nothing THEN NodeTool(t)
              ELSE Writes(File(Web("node_modules"), <<"read">>))
ClientOf(t) == IF Text(t, Web("node_modules")) = <<>> THEN Fault("tool", Web("node_modules"))
               ELSE Writes(File(Web("sdk"), t[App("openapi.json")]))

Describe(t) ==
    IF ~WantsDescription(t) THEN Nothing
    ELSE IF ~Compiles(t) THEN Fault("tool", App("wire.go"))
    ELSE Then(<<Write(App("openapi.json"), Describes(t)), Op("nodeTool")>>
              \o (IF External(t) /\ HasScript(t) THEN <<Op("install"), Op("frontEnd")>> ELSE <<>>))

CheckPasses(t) == LoadProject(t) = Nothing /\ GenerateCheck(t) /\ CheckDescription(t)

\* The gate runs every step, so the report names each one that fails.
GateSteps == <<"vet", "generate", "build">>
Holds(t, step) == CASE step = "vet" -> Vets(t) [] step = "generate" -> GenerateCheck(t) [] step = "build" -> Builds(t)
Gate(t) == Only(GateSteps, {step \in ToSet(GateSteps) : ~Holds(t, step)})
=============================================================================
