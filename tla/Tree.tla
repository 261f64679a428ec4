-------------------------------- MODULE Tree --------------------------------
(***************************************************************************)
(* The commands that write the files of one application: new, slice,       *)
(* generate, build, ui add and assets init.  A command is a list of steps; *)
(* a step writes at most what one tool or one os.WriteFile writes.  Any    *)
(* step may fail and any command may be killed, with the file of the step  *)
(* as it was or emptied; nothing is rolled back, and the person runs the   *)
(* next command, or edits, over what is left.                              *)
(***************************************************************************)
EXTENDS Generators

CONSTANTS Shapes,   \* the shapes that `avero new` is asked for
          Names,    \* the names that `avero slice` is asked for: <<stem, ending>>
          Styles,   \* the styles that `avero ui add` is asked for
          MaxRuns,  \* bound: how many commands run
          MaxEdits, \* bound: how many edits the person makes
          MaxBreaks \* bound: how many commands fail or die in the middle

ASSUME TreeAssumption ==
    /\ Slices \in Seq(ToSet(Slices))
    /\ {"modules:", "app"} \cap ToSet(Slices) = {}
    /\ Dashed \cup Digits \subseteq ToSet(Slices)
    /\ Shapes \subseteq {"ssr", "spa", "api"}
    /\ Styles \cap {"tailwindcss", "body", "own"} = {}

VARIABLES tree,  \* the files
          run,   \* the command: cmd, arg, next (the step of its plan), extra (steps that a step put before the next
                 \* one), code, fault and at (the file that the fault names), told; history: dirty, it changed a file
          runs, edits, breaks

vars == <<tree, run, runs, edits, breaks>>

Idle == [cmd |-> "none", arg |-> "", next |-> 1, extra |-> <<>>, code |-> "ok", fault |-> "none", at |-> None, told |-> FALSE,
         dirty |-> FALSE]

Init == tree = <<>> /\ run = Idle /\ runs = 0 /\ edits = 0 /\ breaks = 0

-----------------------------------------------------------------------------
\* avero new.
EnsureEmpty(t) == IF t = <<>> THEN Nothing ELSE Refuse

FirstSlice(shape) == IF shape = "spa" THEN "tasks" ELSE "posts"
\* The package clause and the names of a slice are those of its directory.
Source(s) == <<IF s \in Dashed \cup Digits THEN "broken" ELSE "v1">>
Feature(s) == <<Write(<<s, "handlers">>, Source(s)), Write(<<s, "model">>, Source(s)), Write(<<s, "module">>, Source(s))>>
Members(shape) == CASE shape = "ssr" -> <<shape, "entries">> [] shape = "spa" -> <<shape, "external">> [] OTHER -> <<shape>>
Starter == <<Write(App("dist"), <<"starter">>)>>

\* The sets common, agents and shape, in the order of their names, and the starter assets.
Scaffold(shape) ==
    LET project == <<Write(App("avero.json"), Members(shape)), Write(App("drel.yaml"), <<"modules:", FirstSlice(shape)>>)>>
        wire == <<Write(App("wire.go"), <<"avero.Modules", FirstSlice(shape)>>)>>
    IN <<Write(App("go.mod"), <<"module", "drel">>)>>
       \o CASE shape = "ssr" -> <<Write(App("app.css"), <<"tailwindcss", "body">>), Write(App("app.js"), <<"datastar">>)>>
                                \o project \o Feature("posts") \o <<Write(App("layout.templ"), <<"scaffold">>)>>
                                \o wire \o Starter
            [] shape = "spa" -> project \o Feature("tasks") \o <<Write(Web("openapi-ts.config.ts"), <<"config">>),
                                Write(Web("package.json"), <<"build", "api">>)>> \o wire \o Starter
            [] OTHER -> project \o <<Write(<<"payments", "client">>, <<"v1">>)>> \o Feature("posts") \o wire

\* The front end modules of the shape.
Vendor(shape) == IF shape = "ssr" THEN Writes(File(App("datastar"), <<"v1.0.3">>)) ELSE Nothing

New == <<"empty", "scaffold", "tidy", "drel", "migration", "drel", "templ", "vendor", "codegen", "clients">>

-----------------------------------------------------------------------------
\* avero slice: a name and its plural are one package.  A dash and a leading digit are let through.
packageOf(name) == name[1]
validName(name) == packageOf(name) \in ToSet(Slices)
proveDrelTool(t) == IF Contains(Text(t, App("go.mod")), "drel") THEN Nothing ELSE Refuse

\* A drel.yaml that is absent takes the default one; any other must hold a modules block.
SliceConfig(t) == IF Has(t, App("drel.yaml")) THEN t[App("drel.yaml")] ELSE <<"modules:">>
Place(text, word) == SelectInSeq(text, LAMBDA w : w = word)
Block(config) == Place(config, "modules:")
Exists(t, s) == \E f \in DOMAIN t : f[1] = s
Entry(config, s) == IF Contains(config, s) THEN <<>>
                    ELSE <<Write(App("drel.yaml"), InsertAt(config, Block(config) + 1, s))>>

\* A mutant: the configuration is read when the entry is added.
WriteSliceFirst(t, name) ==
    LET s == packageOf(name)
    IN IF ~validName(name) \/ Exists(t, s) THEN Refuse ELSE Then(Feature(s) \o <<Op("entry")>>)
WriteSlice(t, name) ==
    LET s == packageOf(name)
    IN IF ~validName(name) \/ Exists(t, s) \/ Block(SliceConfig(t)) = 0 THEN Refuse
       ELSE Then(Feature(s) \o Entry(SliceConfig(t), s))

\* The import after those of the other features, and the module first in the call. A wiring that holds no such place
\* stays, and the command prints the line. `a-bs.New(engine)` formats, as a subtraction; `9s.New(engine)` does not.
RegisterSlice(t, s) ==
    LET wire == Text(t, App("wire.go"))
    IN IF Contains(wire, s) \/ ~Contains(wire, "avero.Modules") \/ Registered(t) = <<>>
         THEN [Nothing EXCEPT !.told = TRUE]
         ELSE IF s \in Digits \/ ~Parses(wire) THEN Fault("format", App("wire.go"))
         ELSE Writes(File(App("wire.go"), InsertAt(wire, 2, s)))

\* A mutant: the generator does not run again after the migration.
SliceOnce == <<"drelTool", "slice", "register", "drel", "migration", "codegen">>
Slice == <<"drelTool", "slice", "register", "drel", "migration", "drel", "codegen">>

-----------------------------------------------------------------------------
\* avero generate and avero build.
\* A mutant: the description is left to another command.
GenerateGo == <<"project", "drel", "templ", "codegen", "clients">>
Generate == <<"project", "drel", "templ", "codegen", "clients", "describe">>

BuildAssets(t) ==
    IF External(t) /\ NodeTool(t) # Nothing THEN NodeTool(t)
    ELSE IF External(t)
           THEN IF Has(t, Web("package.json")) THEN Writes(File(App("dist"), Text(t, Web("sdk"))))
                ELSE Fault("tool", Web("package.json"))
    ELSE IF ~Entries(t) THEN Nothing
    ELSE IF Has(t, App("app.css")) /\ Has(t, App("app.js"))
           THEN Writes(File(App("dist"), t[App("app.css")] \o t[App("app.js")]))
    ELSE Fault("tool", App("app.js"))
Compile(t) == IF Compiles(t) THEN Writes(File(App("bin"), Describes(t))) ELSE Fault("tool", App("bin"))

-----------------------------------------------------------------------------
\* avero ui add.
CheckShape(t) == IF LoadProject(t) # Nothing THEN LoadProject(t) ELSE IF Shape(t) # "ssr" THEN Refuse ELSE Nothing
Anchor(f) == IF f = App("app.css") THEN "tailwindcss" ELSE "datastar"
checkFollows(t, f) == IF Contains(Text(t, f), Anchor(f)) THEN Nothing ELSE Refuse
\* A mutant: a line that is there is written again.
addLineAgain(t, f, line) ==
    IF ~Contains(Text(t, f), Anchor(f)) THEN Fault("anchor", f)
    ELSE Writes(File(f, InsertAt(t[f], Place(t[f], Anchor(f)) + 1, line)))
addLine(t, f, line) ==
    IF Contains(Text(t, f), line) THEN Nothing
    ELSE IF ~Contains(Text(t, f), Anchor(f)) THEN Fault("anchor", f)
    ELSE Writes(File(f, InsertAt(t[f], Place(t[f], Anchor(f)) + 1, line)))
\* A mutant: the component of a person is written over.
writeOver(t, f) == Writes(File(f, <<"toaster">>))
writeAbsent(t, f) == IF Has(t, f) THEN Nothing ELSE Writes(File(f, <<"toaster">>))
patchLayout(t) ==
    LET f == App("layout.templ")
    IN IF ~Has(t, f) THEN Nothing
       ELSE IF t[f] = <<"scaffold">> THEN Writes(File(f, <<"patched">>))
       ELSE [Nothing EXCEPT !.told = t[f] # <<"patched">>]

UI == <<"ssr", "followsCSS", "followsJS", "package", "css", "js", "toaster", "toasterTest", "layout">>

\* avero assets init: a package.json that is there ends the command.
PackageInit(t) == IF Has(t, App("package.json")) THEN [Nothing EXCEPT !.last = TRUE]
                  ELSE Writes(File(App("package.json"), <<"private">>))

\* The members that the struct of avero.json declares, but for the tier: Save encodes the struct, so a member that it
\* does not declare goes, and the tier that stood there with it.
Declared == {"ssr", "spa", "api", "entries", "manager"}
SaveTier(t) == Writes(File(App("avero.json"), Only(Project(t), Declared) \o <<"node">>))
AssetsInit == <<"project", "init", "save", "nodeTool">>

-----------------------------------------------------------------------------
\* The slice that `migration` writes for: the first one of a new application, or the named one.
Target(r) == IF r.cmd = "new" THEN FirstSlice(r.arg) ELSE packageOf(r.arg)

Plans == [new |-> New, slice |-> Slice, generate |-> Generate, build |-> Generate \o <<"install", "assets", "compile">>,
          ui |-> UI, assets |-> AssetsInit]
Args == [new |-> Shapes, slice |-> Names, generate |-> {""}, build |-> {""}, ui |-> Styles, assets |-> {""}]

Now(r) == IF r.extra # <<>> THEN Head(r.extra) ELSE Op(Plans[r.cmd][r.next])

Outcome(t, r) ==
    LET s == Now(r)
    IN CASE s.op = "write" -> Writes(File(s.file, s.text))
         [] s.op = "empty" -> EnsureEmpty(t)
         [] s.op = "scaffold" -> Then(Scaffold(r.arg))
         [] s.op = "tidy" -> Nothing
         [] s.op = "vendor" -> Vendor(r.arg)
         [] s.op = "project" -> LoadProject(t)
         [] s.op = "drel" -> Drel(t)
         [] s.op = "migration" -> Migration(t, Target(r))
         [] s.op = "templ" -> Templ(t)
         [] s.op = "codegen" -> Build(t, Codegen)
         [] s.op = "clients" -> Build(t, Client)
         [] s.op = "describe" -> Describe(t)
         [] s.op = "install" -> Install(t)
         [] s.op = "frontEnd" -> ClientOf(t)
         [] s.op = "assets" -> BuildAssets(t)
         [] s.op = "compile" -> Compile(t)
         [] s.op = "drelTool" -> proveDrelTool(t)
         [] s.op = "slice" -> WriteSlice(t, r.arg)
         [] s.op = "entry" -> IF Block(SliceConfig(t)) = 0 THEN Refuse ELSE Then(Entry(SliceConfig(t), Target(r)))
         [] s.op = "register" -> RegisterSlice(t, Target(r))
         [] s.op = "ssr" -> CheckShape(t)
         [] s.op = "followsCSS" -> checkFollows(t, App("app.css"))
         [] s.op = "followsJS" -> checkFollows(t, App("app.js"))
         [] s.op = "package" -> Writes(File(App("basecoat"), <<"basecoat">>))
         [] s.op = "css" -> addLine(t, App("app.css"), r.arg)
         [] s.op = "js" -> addLine(t, App("app.js"), "all.min.js")
         [] s.op = "toaster" -> writeAbsent(t, App("toaster.templ"))
         [] s.op = "toasterTest" -> writeAbsent(t, App("toaster_test.go"))
         [] s.op = "layout" -> patchLayout(t)
         [] s.op = "init" -> PackageInit(t)
         [] s.op = "save" -> SaveTier(t)
         [] s.op = "nodeTool" -> NodeTool(t)

Start(cmd, arg) ==
    /\ run.code # "running" /\ runs < MaxRuns
    /\ run' = [Idle EXCEPT !.cmd = cmd, !.arg = arg, !.code = "running"]
    /\ runs' = runs + 1 /\ UNCHANGED <<tree, edits, breaks>>

\* A step that another one put there puts no step itself.
Step ==
    /\ run.code = "running"
    /\ LET out == Outcome(tree, run)
           inner == run.extra # <<>>
           end == Len(Plans[run.cmd]) + 1
           extra == IF inner THEN Tail(run.extra) ELSE out.more
           next == IF inner THEN run.next ELSE IF out.last THEN end ELSE run.next + 1
           after == Over(out.writes, tree)
       IN IF out.fault # "none"
            THEN /\ run' = [run EXCEPT !.extra = <<>>, !.code = "failed", !.fault = out.fault, !.at = out.at]
                 /\ UNCHANGED tree
            ELSE /\ tree' = after
                 /\ run' = [run EXCEPT !.extra = extra, !.next = next,
                                       !.code = IF extra = <<>> /\ next = end THEN "ok" ELSE "running",
                                       !.told = @ \/ out.told, !.dirty = @ \/ after # tree]
    /\ UNCHANGED <<runs, edits, breaks>>

\* A write that fails, a tool that fails, a kill: os.WriteFile empties the file before it fills it.
Break ==
    /\ run.code = "running" /\ breaks < MaxBreaks /\ breaks' = breaks + 1
    /\ \/ UNCHANGED tree
       \/ \E f \in DOMAIN Outcome(tree, run).writes : tree' = Over(File(f, <<>>), tree)
    /\ run' = [run EXCEPT !.extra = <<>>, !.code = "failed", !.fault = "broken"]
    /\ UNCHANGED <<runs, edits>>

\* The person edits between two commands.
Changes(f, text) == tree' = Over(File(f, text), tree)
Edits ==
    \/ \E f \in DOMAIN tree :
          \/ f[2] = "handlers" /\ \E v \in {"v2", "fault", "none"} : Changes(f, <<v>>)
          \/ f[2] \in {"model", "client"} /\ Changes(f, <<"v2">>)
          \/ f \in {App(name) : name \in {"layout.templ", "toaster.templ", "wire.go", "drel.yaml", "app.css"}} /\ Changes(f, <<"own">>)
          \/ f \in {App("app.css"), App("app.js"), App("avero.json")} /\ tree[f] # <<>> /\ Changes(f, Append(tree[f], "own"))
          \/ f = App("avero.json") /\ tree[f] # <<>> /\ Changes(f, Append(tree[f], "manager"))
          \/ f = App("wire.go") /\ Changes(f, Append(tree[f], "broken"))
          \/ f = App("go.mod") /\ Changes(f, <<"module">>)
          \/ f \in {App("drel.yaml"), App("toaster.templ"), App("avero.json")} /\ tree' = [g \in DOMAIN tree \ {f} |-> tree[g]]
    \/ Has(tree, App("go.mod")) /\ Changes(App("openapi.json"), <<"own">>)
    \/ Changes(App("notes"), <<"own">>)

Edit ==
    /\ run.code # "running" /\ edits < MaxEdits /\ edits' = edits + 1
    /\ Edits /\ tree' # tree
    /\ run' = Idle /\ UNCHANGED <<runs, breaks>>

Next == (\E cmd \in DOMAIN Plans : \E arg \in Args[cmd] : Start(cmd, arg)) \/ Step \/ Break \/ Edit

Spec == Init /\ [][Next]_vars

-----------------------------------------------------------------------------
Succeeded(cmd) == run.cmd = cmd /\ run.code = "ok"

(* What `avero generate` and `avero build` leave behind when they end well is what `avero generate --check` proves,  *)
(* from whatever tree they started: edited, half scaffolded, or left by a command that died. A build compiles the    *)
(* root package alone, so the gate may fail after it, but never at the generated files, and never without a package  *)
(* or a test that the root does not import and that does not parse or is not whole.                                  *)
CheckAfterGenerate ==
    /\ Succeeded("generate") \/ Succeeded("build") => CheckPasses(tree)
    /\ Succeeded("build") =>
          /\ ~Contains(Gate(tree), "generate")
          /\ Gate(tree) # <<>> => \E f \in {g \in GoFiles(tree) : ~Imported(tree, g)} \cup Tests(tree) : ~Stands(tree, f)

\* How often a word stands in a text.
Times(text, word) == Len(Only(text, {word}))

\* The files that a command may write over.
Generated == {"columns", "set", "db", "zz_generated.go", "zz_generated_client.go", "layout_templ.go", "toaster_templ.go",
              "openapi.json", "sdk", "node_modules", "basecoat", "dist", "bin"}
Persons(f) == f[2] \notin Generated

(* No command takes away what a person wrote: a file stays, and its words stay in their order, whatever a command    *)
(* adds between them; only the layout that equals the one of the scaffold is written anew.  Of avero.json that is    *)
(* true for the members that Avero declares, without the tier: `assets init` sets the tier and drops the rest.  A    *)
(* write that breaks in the middle is left out: os.WriteFile empties the file first.                                 *)
PersonKeeps ==
    [][run.code = "running" /\ run'.fault # "broken" =>
         \A f \in DOMAIN tree : Persons(f) =>
            LET kept == IF f = App("avero.json") THEN Only(tree[f], Declared) ELSE tree[f]
            IN /\ f \in DOMAIN tree'
               /\ \/ Only(tree'[f], ToSet(kept)) = kept
                  \/ f = App("layout.templ") /\ tree[f] = <<"scaffold">>]_vars

(* What a command proves before its first write, it proves for good: a directory that is not empty, a go.mod with no *)
(* drel tool, a slice that exists, a drel.yaml with no modules block, another shape, a stylesheet with no anchor     *)
(* leave the directory as it was, and no later step of the command meets one of these faults again.  An unknown      *)
(* package manager, a wiring that does not format and a name that no Go package carries are found after a write, as  *)
(* "manager", "format" and "tool": they leave what was written, and are not claimed here.                            *)
RefusedLeavesNoMark == run.fault \in {"refused", "anchor"} => ~run.dirty

(* A slice that was written is written whole: its files, one entry in drel.yaml, a migration of its model, the       *)
(* migration set and the generated files of this model, and its place in the wiring, or the line that says it.       *)
SliceIsWhole ==
    Succeeded("slice") =>
        LET s == Target(run)
        IN /\ \A k \in {"handlers", "model", "module"} : Has(tree, <<s, k>>)
           /\ Has(tree, App("drel.yaml")) /\ Times(tree[App("drel.yaml")], s) = 1
           /\ \A k \in {"columns", "migration", "set"} : Text(tree, <<s, k>>) = tree[<<s, "model">>]
           /\ Text(tree, <<s, Codegen>>) = Emit(tree, s, Codegen)
           /\ run.told \/ Times(Text(tree, App("wire.go")), s) = 1

(* `avero ui add` run again after a failure or a death: the line of the style and the one of the scripts stand one   *)
(* time, after their anchor, the package is there, and the layout no longer defines what the component defines,      *)
(* unless it is the person's, who is told.  The component and its test are only asked to be there, so one that a     *)
(* death emptied is not filled again; then the next generate stops at the component, and the gate at the test.       *)
UIConverges ==
    Succeeded("ui") =>
        /\ \A fl \in {<<App("app.css"), run.arg>>, <<App("app.js"), "all.min.js">>} :
              LET text == tree[fl[1]]
              IN Times(text, fl[2]) = 1 /\ Place(text, fl[2]) > Place(text, Anchor(fl[1]))
        /\ \A f \in {"basecoat", "toaster.templ", "toaster_test.go"} : Has(tree, App(f))
        /\ tree[App("basecoat")] # <<>>
        /\ tree[App("toaster.templ")] = <<>> => Templ(tree).fault = "tool"
        /\ tree[App("toaster_test.go")] = <<>> => Contains(Gate(tree), "vet")
        /\ Text(tree, App("layout.templ")) # <<"scaffold">> /\ (Text(tree, App("layout.templ")) = <<"own">> => run.told)

=============================================================================
