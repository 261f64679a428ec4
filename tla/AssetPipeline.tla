---------------------------- MODULE AssetPipeline ---------------------------
(***************************************************************************)
(* The commands that fetch and build the assets of an application          *)
(* (cli/pipeline): `avero js pin` (PinJS), `avero ui add` (PinPackage) and *)
(* every build (Build, with Tailwind.Ensure inside it).  They share one    *)
(* directory and no file lock, they may run side by side (avero dev builds *)
(* while a person pins), and any of them may be killed.                    *)
(*                                                                         *)
(* Each section of avero.lock holds one name here.  A body is the address  *)
(* and the generation of its content, so its hash is itself; the rewrite   *)
(* of the imports is deterministic and adds nothing.  os.WriteFile is two  *)
(* steps, the one that empties the file and the one that fills it.         *)
(*                                                                         *)
(* External: the servers, the file system, the Tailwind binary and esbuild.*)
(* The command of the external tier is left out.                           *)
(***************************************************************************)
EXTENDS Naturals, FiniteSets

CONSTANTS
  Commands,  \* the commands that run side by side
  Mixes,     \* what each command may be in one behaviour
  Offers,    \* the addresses that a person names for each section
  Moving     \* the addresses whose content may change once

Sections == {"js", "pkg", "bin"}
Kinds == {"js", "pkg", "build"}
Urls == UNION {Offers[s] : s \in Sections}

ASSUME AssetAssumption ==
  /\ Mixes \subseteq [Commands -> Kinds]
  /\ DOMAIN Offers = Sections
  /\ Moving \subseteq Urls

VARIABLES
  kind,      \* what each command is in this behaviour
  origin,    \* the generation that each address serves
  lock,      \* the pins of avero.lock, as they were written last
  lockTorn,  \* avero.lock does not parse
  file,      \* the fetched files
  dist,      \* the built files, under their hashed names
  manifest,  \* the assets that the manifest names, as it was written last
  manifestTorn,  \* the manifest does not parse
  cmd,       \* each command: its step and its own state
  unsure,    \* history: the sections whose last write was not completed by one
             \* command alone
  cut        \* history: the built files whose last write was interrupted

treeVars == <<file, dist, manifest, manifestTorn>>
lockVars == <<lock, lockTorn>>
histVars == <<unsure, cut>>
vars == <<kind, origin, lockVars, treeVars, cmd, histVars>>

-----------------------------------------------------------------------------

Bodies == Urls \X {0, 1}
NoPin == <<>>
Absent == <<>>
Torn == <<"torn">>
Pins == [Sections -> Bodies \cup {NoPin}]

\* The section that a command pins.
SectionOf(k) == IF k = "build" THEN "bin" ELSE k

\* The first address of a package carries one file more than the others.
Files == {<<"js">>, <<"bin">>, <<"pkg">>, <<"pkg", "extra">>}
Longer == CHOOSE u \in Offers["pkg"] : TRUE
FilesOf(s, body) == IF s = "pkg" /\ body[1] = Longer THEN {<<"pkg">>, <<"pkg", "extra">>} ELSE {<<s>>}

\* A built file is named by the hash of its content: the stylesheet, and the
\* bundle of each module body that a build may read.
BuiltFiles == {<<"css">>} \cup {<<"script", b>> : b \in Bodies \cup {Torn}}
IsScript(a) == a # <<"css">>

Idle ==
  [pc |-> "idle", url |-> {}, mem |-> [s \in Sections |-> NoPin], got |-> NoPin,
   todo |-> {}, now |-> Absent, made |-> {}, raced |-> FALSE]

PinSteps == {"load", "check", "fetch", "write", "fill", "prune", "save", "saving"}
BuildSteps == {"css", "bundle", "asset", "assetFill", "manifest", "manifestFill"}

Section(c) == SectionOf(kind[c])
Pinned(c) == cmd[c].mem[Section(c)]
Locked(c) == Pinned(c) # NoPin /\ cmd[c].url = {Pinned(c)[1]}

TypeOK ==
  /\ kind \in Mixes
  /\ origin \in [Urls -> {0, 1}]
  /\ lock \in Pins
  /\ lockTorn \in BOOLEAN
  /\ file \in [Files -> Bodies \cup {Absent, Torn}]
  /\ dist \in [BuiltFiles -> {"absent", "torn", "whole"}]
  /\ manifest \subseteq BuiltFiles
  /\ manifestTorn \in BOOLEAN
  /\ \A c \in Commands :
       /\ cmd[c].pc \in {"idle"} \cup PinSteps \cup BuildSteps
       /\ cmd[c].url \in SUBSET Urls /\ Cardinality(cmd[c].url) <= 1
       /\ cmd[c].mem \in Pins
       /\ cmd[c].got \in Bodies \cup {NoPin}
       /\ cmd[c].todo \subseteq Files
       /\ cmd[c].now \in Files \cup BuiltFiles \cup {Absent}
       /\ cmd[c].made \subseteq BuiltFiles
       /\ cmd[c].raced \in BOOLEAN
  /\ unsure \subseteq Sections
  /\ cut \subseteq BuiltFiles

\* A new application, which may come with its module pinned.
Init ==
  /\ kind \in Mixes
  /\ origin = [u \in Urls |-> 0]
  /\ \E b \in {NoPin} \cup {<<u, 0>> : u \in Offers["js"]} :
       /\ lock = [s \in Sections |-> IF s = "js" THEN b ELSE NoPin]
       /\ file = [f \in Files |-> IF f = <<"js">> THEN b ELSE Absent]
  /\ lockTorn = FALSE
  /\ dist = [a \in BuiltFiles |-> "absent"]
  /\ manifest = {}
  /\ manifestTorn = FALSE
  /\ cmd = [c \in Commands |-> Idle]
  /\ unsure = {}
  /\ cut = {}

-----------------------------------------------------------------------------

\* Command c goes on with the state r, and disturbs the commands of hit.
StepHitting(c, r, hit) ==
  cmd' = [d \in Commands |->
            IF d = c THEN r ELSE IF d \in hit /\ cmd[d].pc # "idle" THEN [cmd[d] EXCEPT !.raced = TRUE] ELSE cmd[d]]
Step(c, r) == StepHitting(c, r, {})
At(c, pc) == cmd[c].pc = pc
Goto(c, pc) == [cmd[c] EXCEPT !.pc = pc]

SameSection(c) == {d \in Commands : Section(d) = Section(c)}

\* A command ends with a fault, or is killed.  What it left half written stays.
Dies(c) ==
  /\ ~At(c, "idle")
  /\ cut' = IF At(c, "assetFill") THEN cut \cup {cmd[c].now} ELSE cut
  /\ Step(c, Idle)
  /\ UNCHANGED <<kind, origin, lockVars, treeVars, unsure>>

\* A person runs a command.  A pin may name an address or leave it to the lock.
Start(c) ==
  /\ At(c, "idle")
  /\ \E u \in {{x} : x \in Offers[Section(c)]} \cup (IF kind[c] = "build" THEN {} ELSE {{}}) :
       Step(c, [Idle EXCEPT !.pc = "load", !.url = u])
  /\ UNCHANGED <<kind, origin, lockVars, treeVars, histVars>>

\* LoadLock.  A lock that does not parse is a fault (Dies).  A module without
\* an address takes the one of the lock, or asks the CDN.
Load(c) ==
  /\ At(c, "load")
  /\ ~lockTorn
  /\ LET s == Section(c)
         urls == IF cmd[c].url # {} THEN {cmd[c].url}
                 ELSE IF lock[s] # NoPin THEN {{lock[s][1]}}
                 ELSE IF s = "js" THEN {{u} : u \in Offers[s]}
                 ELSE {}
     IN  \E u \in urls :
           Step(c, [Goto(c, "check") EXCEPT !.mem = lock, !.url = u,
                      !.raced = \E d \in SameSection(c) : cmd[d].pc \in {"write", "fill", "prune", "save", "saving"}])
  /\ UNCHANGED <<kind, origin, lockVars, treeVars, histVars>>

\* The pin is done: a pin command ends, a build goes on with the binary.
Done(c) == IF kind[c] = "build" THEN [Idle EXCEPT !.pc = "css"] ELSE Idle

\* Mutant: a module that is there counts as the one that was pinned.
MatchesLoosely(c) == \A f \in FilesOf(Section(c), Pinned(c)) : file[f] # Absent

\* fileMatches compares the hash of a module and of a binary; filesExist asks
\* only whether the files of a package are there.
Matches(c) ==
  \A f \in FilesOf(Section(c), Pinned(c)) :
    IF Section(c) = "pkg" THEN file[f] # Absent ELSE file[f] = Pinned(c)

\* A pin that the lock and the tree already hold fetches nothing.
AlreadyPinned(c) ==
  /\ At(c, "check")
  /\ Locked(c)
  /\ Matches(c)
  /\ unsure' = IF Section(c) = "pkg" \/ cmd[c].raced THEN unsure ELSE unsure \ {Section(c)}
  /\ Step(c, Done(c))
  /\ UNCHANGED <<kind, origin, lockVars, treeVars, cut>>

NotPinned(c) ==
  /\ At(c, "check")
  /\ ~(Locked(c) /\ Matches(c))
  /\ Step(c, Goto(c, "fetch"))
  /\ UNCHANGED <<kind, origin, lockVars, treeVars, histVars>>

Served(c) == CHOOSE b \in Bodies : {b[1]} = cmd[c].url /\ b[2] = origin[b[1]]

\* Mutant: the hash of the lock is not compared.
FetchUnchecked(c) ==
  /\ At(c, "fetch")
  /\ Step(c, [Goto(c, "write") EXCEPT !.url = {}, !.got = Served(c), !.todo = FilesOf(Section(c), Served(c))])
  /\ UNCHANGED <<kind, origin, lockVars, treeVars, histVars>>

\* The download.  A locked address that answers another hash is a fault.
Fetch(c) ==
  /\ At(c, "fetch")
  /\ Locked(c) => Pinned(c) = Served(c)
  /\ Step(c, [Goto(c, "write") EXCEPT !.url = {}, !.got = Served(c), !.todo = FilesOf(Section(c), Served(c))])
  /\ UNCHANGED <<kind, origin, lockVars, treeVars, histVars>>

\* os.WriteFile and os.Create empty the file first.
Truncate(c) ==
  /\ At(c, "write")
  /\ \E f \in cmd[c].todo :
       /\ file' = [file EXCEPT ![f] = Torn]
       /\ StepHitting(c, [Goto(c, "fill") EXCEPT !.now = f], SameSection(c))
  /\ unsure' = unsure \cup {Section(c)}
  /\ UNCHANGED <<kind, origin, lockVars, dist, manifest, manifestTorn, cut>>

\* The bytes arrive.  Over those of another command they may mix.
Fill(c) ==
  /\ At(c, "fill")
  /\ LET left == cmd[c].todo \ {cmd[c].now}
     IN  /\ \E b \in IF file[cmd[c].now] \in {Torn, cmd[c].got} THEN {cmd[c].got} ELSE {cmd[c].got, Torn} :
              file' = [file EXCEPT ![cmd[c].now] = b]
         /\ StepHitting(c, [cmd[c] EXCEPT !.todo = left, !.now = Absent,
                                          !.pc = IF left # {} THEN "write" ELSE IF Section(c) = "pkg" THEN "prune" ELSE "save"],
                        SameSection(c))
  /\ UNCHANGED <<kind, origin, lockVars, dist, manifest, manifestTorn, histVars>>

\* removeStaleFiles deletes what only the older pin names.
Prune(c) ==
  /\ At(c, "prune")
  /\ LET old == IF Pinned(c) = NoPin THEN {} ELSE FilesOf("pkg", Pinned(c)) \ FilesOf("pkg", cmd[c].got)
     IN  file' = [f \in Files |-> IF f \in old THEN Absent ELSE file[f]]
  /\ StepHitting(c, Goto(c, "save"), SameSection(c))
  /\ UNCHANGED <<kind, origin, lockVars, dist, manifest, manifestTorn, histVars>>

\* Save empties avero.lock.
SaveOpens(c) ==
  /\ At(c, "save")
  /\ lockTorn' = TRUE
  /\ StepHitting(c, Goto(c, "saving"), Commands)
  /\ UNCHANGED <<kind, origin, lock, treeVars, histVars>>

\* Save writes the whole document that this command loaded, with its own pin.
\* Over a document of another command the two may mix.
SaveWrites(c) ==
  /\ At(c, "saving")
  /\ lock' = [cmd[c].mem EXCEPT ![Section(c)] = cmd[c].got]
  /\ \E torn \in IF lockTorn THEN {FALSE} ELSE BOOLEAN : lockTorn' = torn
  /\ unsure' = IF cmd[c].raced THEN unsure \cup {Section(c)} \cup {s \in Sections : cmd[c].mem[s] # lock[s]}
               ELSE unsure \ {Section(c)}
  /\ StepHitting(c, Done(c), Commands)
  /\ UNCHANGED <<kind, origin, treeVars, cut>>

-----------------------------------------------------------------------------
(* The rest of a build. *)

\* Compile runs the binary.  One that is not whole does not run (Dies).
Compile(c) ==
  /\ At(c, "css")
  /\ file[<<"bin">>] \notin {Absent, Torn}
  /\ Step(c, [Goto(c, "asset") EXCEPT !.now = <<"css">>])
  /\ UNCHANGED <<kind, origin, lockVars, treeVars, histVars>>

\* bundle reads the vendored module as it is.  An absent one is a fault, and
\* the manifest stays (Dies); an empty one may parse.
Bundle(c) ==
  /\ At(c, "bundle")
  /\ file[<<"js">>] # Absent
  /\ Step(c, [Goto(c, "asset") EXCEPT !.now = <<"script", file[<<"js">>]>>])
  /\ UNCHANGED <<kind, origin, lockVars, treeVars, histVars>>

\* writeAsset empties the file of the hashed name, which an older manifest may
\* name already.
AssetOpens(c) ==
  /\ At(c, "asset")
  /\ dist' = [dist EXCEPT ![cmd[c].now] = "torn"]
  /\ Step(c, Goto(c, "assetFill"))
  /\ UNCHANGED <<kind, origin, lockVars, file, manifest, manifestTorn, histVars>>

\* Mutant: the fault of the write is dropped.
AssetFillsUnchecked(c) ==
  /\ At(c, "assetFill")
  /\ \E d \in {"whole", "torn"} : dist' = [dist EXCEPT ![cmd[c].now] = d]
  /\ cut' = cut \ {cmd[c].now}
  /\ Step(c, [cmd[c] EXCEPT !.made = @ \cup {cmd[c].now}, !.now = Absent,
                            !.pc = IF IsScript(cmd[c].now) THEN "manifest" ELSE "bundle"])
  /\ UNCHANGED <<kind, origin, lockVars, file, manifest, manifestTorn, unsure>>

\* The file is written, and record puts it in the manifest of this build.
AssetFills(c) ==
  /\ At(c, "assetFill")
  /\ dist' = [dist EXCEPT ![cmd[c].now] = "whole"]
  /\ cut' = cut \ {cmd[c].now}
  /\ Step(c, [cmd[c] EXCEPT !.made = @ \cup {cmd[c].now}, !.now = Absent,
                            !.pc = IF IsScript(cmd[c].now) THEN "manifest" ELSE "bundle"])
  /\ UNCHANGED <<kind, origin, lockVars, file, manifest, manifestTorn, unsure>>

ManifestOpens(c) ==
  /\ At(c, "manifest")
  /\ manifestTorn' = TRUE
  /\ Step(c, Goto(c, "manifestFill"))
  /\ UNCHANGED <<kind, origin, lockVars, file, dist, manifest, histVars>>

\* writeManifest comes last.
ManifestFills(c) ==
  /\ At(c, "manifestFill")
  /\ manifest' = cmd[c].made
  /\ \E torn \in IF manifestTorn THEN {FALSE} ELSE BOOLEAN : manifestTorn' = torn
  /\ Step(c, Idle)
  /\ UNCHANGED <<kind, origin, lockVars, file, dist, histVars>>

-----------------------------------------------------------------------------
(* The surroundings. *)

\* External: the content of an address changes.
Republish(u) ==
  /\ u \in Moving
  /\ origin[u] = 0
  /\ origin' = [origin EXCEPT ![u] = 1]
  /\ UNCHANGED <<kind, lockVars, treeVars, cmd, histVars>>

\* External: a person deletes a lock that does not parse, as its fault says.
DeleteLock ==
  /\ lockTorn
  /\ \A c \in Commands : At(c, "idle")
  /\ lock' = [s \in Sections |-> NoPin]
  /\ lockTorn' = FALSE
  /\ UNCHANGED <<kind, origin, treeVars, cmd, histVars>>

Next ==
  \/ \E c \in Commands :
       \/ Start(c) \/ Load(c) \/ AlreadyPinned(c) \/ NotPinned(c) \/ Fetch(c)
       \/ Truncate(c) \/ Fill(c) \/ Prune(c) \/ SaveOpens(c) \/ SaveWrites(c)
       \/ Compile(c) \/ Bundle(c) \/ AssetOpens(c) \/ AssetFills(c)
       \/ ManifestOpens(c) \/ ManifestFills(c)
       \/ Dies(c)
  \/ \E u \in Moving : Republish(u)
  \/ DeleteLock

Spec == Init /\ [][Next]_vars

-----------------------------------------------------------------------------
(* Properties. *)

\* No pin vanishes from the lock, and none takes another hash under the address
\* that it has, except when a command saves over the work of another one that
\* ran at the same time, or when a person deletes the lock.
LockedStaysLocked ==
  [][\A s \in Sections :
       lock[s] # NoPin /\ lock'[s] # lock[s] =>
         \/ lock'[s] # NoPin /\ lock'[s][1] # lock[s][1]
         \/ \E c \in Commands : At(c, "saving") /\ cmd[c].raced
         \/ lockTorn /\ ~lockTorn' /\ \A c \in Commands : At(c, "idle")]_vars

\* The files are the ones that the lock names, unless the last command that
\* wrote them was interrupted or was not alone.  After such a command the next
\* one that ends well, alone, makes them whole: for a package only when a file
\* was missing.
VendorAsLocked ==
  ~lockTorn =>
    \A s \in Sections \ unsure :
      lock[s] # NoPin => \A f \in FilesOf(s, lock[s]) : file[f] = lock[s]

\* A manifest that parses names every entry, and each file that it names is
\* there and whole, or is being rewritten with the same bytes, or the rewrite
\* was interrupted: a build that fails never takes an asset away from a page.
ManifestSound ==
  ~manifestTorn /\ manifest # {} =>
    /\ <<"css">> \in manifest
    /\ \E a \in manifest : IsScript(a)
    /\ \A a \in manifest :
         \/ dist[a] = "whole"
         \/ dist[a] = "torn" /\ (a \in cut \/ \E c \in Commands : At(c, "assetFill") /\ cmd[c].now = a)
=============================================================================
