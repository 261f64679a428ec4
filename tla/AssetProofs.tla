----------------------------- MODULE AssetProofs -----------------------------
(***************************************************************************)
(* Proofs about the asset pipeline, for any number of commands that run    *)
(* side by side and any addresses.                                         *)
(***************************************************************************)
EXTENDS AssetPipeline, TLAPS

\* The steps of a pin after it has read the lock, and those after its download.
Holding == {"check", "fetch", "write", "fill", "prune", "save", "saving"}
Fetched == {"write", "fill", "prune", "save", "saving"}

Commanding ==
  [pc : {"idle"} \cup PinSteps \cup BuildSteps, url : SUBSET Urls, mem : Pins, got : Bodies \cup {NoPin},
   todo : SUBSET Files, now : Files \cup BuiltFiles \cup {Absent}, made : SUBSET BuiltFiles, raced : BOOLEAN]

\* What a command knows in each of its steps.
Formed(r) ==
  /\ r \in Commanding
  /\ r.pc = "load" => r.url = {} \/ \E u \in Urls : r.url = {u}
  /\ r.pc \in {"check", "fetch"} => \E u \in Urls : r.url = {u}
  /\ r.pc \in Fetched => r.got \in Bodies
  /\ r.pc = "fill" => r.now \in r.todo
  /\ r.pc \in {"asset", "assetFill"} => r.now \in BuiltFiles

AssetTypes ==
  /\ origin \in [Urls -> {0, 1}]
  /\ lock \in Pins
  /\ file \in [Files -> Bodies \cup {Absent, Torn}]
  /\ dist \in [BuiltFiles -> {"absent", "torn", "whole"}]
  /\ kind \in [Commands -> Kinds]
  /\ cmd \in [Commands -> Commanding]
  /\ \A c \in Commands : Formed(cmd[c])

\* A torn built file has a command that will fill it, or is on record as cut.
\* What a manifest or a build in progress names was written at least once.
DistShape ==
  /\ \A a \in BuiltFiles :
       dist[a] = "torn" => a \in cut \/ \E c \in Commands : At(c, "assetFill") /\ cmd[c].now = a
  /\ \A a \in manifest : a \in BuiltFiles /\ dist[a] # "absent"
  /\ \A c \in Commands : \A a \in cmd[c].made : dist[a] # "absent"

\* A set of built files that a page can use.
Complete(made) == <<"css">> \in made /\ \E a \in made : IsScript(a)

\* A build makes the stylesheet, then the bundle, then the manifest of the two.
MadeShape ==
  /\ manifest # {} => Complete(manifest)
  /\ \A c \in Commands :
       /\ cmd[c].pc \in {"asset", "assetFill"} => cmd[c].now = <<"css">> \/ <<"css">> \in cmd[c].made
       /\ cmd[c].pc = "bundle" => <<"css">> \in cmd[c].made
       /\ cmd[c].pc \in {"manifest", "manifestFill"} => Complete(cmd[c].made)

\* A pin that nobody disturbed works on the lock as it is, and a download
\* under the address of a pin is the pinned one.
LockShape ==
  \A c \in Commands :
    /\ cmd[c].pc \in Holding /\ ~cmd[c].raced => cmd[c].mem = lock
    /\ cmd[c].pc \in Fetched /\ Pinned(c) # NoPin /\ Pinned(c)[1] = cmd[c].got[1] => Pinned(c) = cmd[c].got

\* The command has touched the files of its section.
Touched(c) ==
  \/ cmd[c].pc \in {"fill", "prune", "save", "saving"}
  \/ cmd[c].pc = "write" /\ cmd[c].todo # FilesOf(Section(c), cmd[c].got)

\* A pin writes the files of its section alone, and prunes only packages.
TodoShape ==
  \A c \in Commands :
    /\ cmd[c].pc \in Fetched => cmd[c].todo \subseteq FilesOf(Section(c), cmd[c].got)
    /\ cmd[c].pc = "prune" => Section(c) = "pkg"

\* A command that touches files makes its section unsure, and every other pin
\* of that section knows that it is not alone.
TouchShape ==
  \A c \in Commands : Touched(c) =>
    /\ Section(c) \in unsure
    /\ \A d \in Commands \ {c} : Section(d) = Section(c) /\ cmd[d].pc \in Holding => cmd[d].raced

\* What an undisturbed command has written so far is what it fetched.
WrittenShape ==
  \A c \in Commands : cmd[c].pc \in Fetched /\ ~cmd[c].raced =>
    /\ \A f \in FilesOf(Section(c), cmd[c].got) \ cmd[c].todo : file[f] = cmd[c].got
    /\ cmd[c].pc = "fill" => file[cmd[c].now] = Torn
    /\ cmd[c].pc \in {"prune", "save", "saving"} => cmd[c].todo = {}

\* The files of a section that nobody doubts are those of its pin.
VendorShape ==
  \A s \in Sections \ unsure : lock[s] # NoPin => \A f \in FilesOf(s, lock[s]) : file[f] = lock[s]

-----------------------------------------------------------------------------
(* The step of one command. *)

\* Command d is where it was, with the same state, and may have been disturbed.
Stays(d) ==
  /\ cmd'[d].pc = cmd[d].pc /\ cmd'[d].url = cmd[d].url /\ cmd'[d].mem = cmd[d].mem /\ cmd'[d].got = cmd[d].got
  /\ cmd'[d].todo = cmd[d].todo /\ cmd'[d].now = cmd[d].now /\ cmd'[d].made = cmd[d].made
  /\ cmd[d].raced => cmd'[d].raced

\* A step changes the command that makes it, and may only disturb the others.
LEMMA OneSteps ==
  ASSUME cmd \in [Commands -> Commanding], NEW c \in Commands, NEW r, NEW hit, StepHitting(c, r, hit)
  PROVE  /\ r \in Commanding => cmd' \in [Commands -> Commanding]
         /\ cmd'[c] = r
         /\ \A d \in Commands \ {c} : Stays(d)
         /\ \A d \in Commands \ {c} : d \notin hit => cmd'[d] = cmd[d]
         /\ \A d \in Commands \ {c} : d \in hit /\ cmd[d].pc # "idle" => cmd'[d].raced
<1>1. \A d \in Commands : [cmd[d] EXCEPT !.raced = TRUE] \in Commanding
  BY DEF Commanding
<1>2. r \in Commanding => cmd' \in [Commands -> Commanding]
  BY <1>1 DEF StepHitting
<1>3. cmd'[c] = r
  BY DEF StepHitting
<1>4. ASSUME NEW d \in Commands \ {c}
      PROVE  /\ Stays(d)
             /\ d \notin hit => cmd'[d] = cmd[d]
             /\ d \in hit /\ cmd[d].pc # "idle" => cmd'[d].raced
  <2>1. cmd'[d] = IF d \in hit /\ cmd[d].pc # "idle" THEN [cmd[d] EXCEPT !.raced = TRUE] ELSE cmd[d]
    BY DEF StepHitting
  <2>2. cmd[d] \in Commanding
    OBVIOUS
  <2>3. CASE d \in hit /\ cmd[d].pc # "idle"
    <3>1. cmd'[d] = [cmd[d] EXCEPT !.raced = TRUE]
      BY <2>1, <2>3
    <3> QED
      BY <2>2, <2>3, <3>1 DEF Stays, Commanding
  <2>4. CASE ~(d \in hit /\ cmd[d].pc # "idle")
    BY <2>1, <2>4 DEF Stays
  <2> QED
    BY <2>3, <2>4
<1> QED
  BY <1>2, <1>3, <1>4

\* A well-formed step keeps every command well formed.
LEMMA FormedStays ==
  ASSUME cmd \in [Commands -> Commanding], \A d \in Commands : Formed(cmd[d]),
         NEW c \in Commands, NEW r, Formed(r), NEW hit, StepHitting(c, r, hit)
  PROVE  cmd' \in [Commands -> Commanding] /\ \A d \in Commands : Formed(cmd'[d])
<1>1. r \in Commanding
  BY DEF Formed
<1>2. /\ cmd' \in [Commands -> Commanding]
      /\ cmd'[c] = r
      /\ \A d \in Commands \ {c} : Stays(d)
  BY <1>1, OneSteps
<1>3. ASSUME NEW d \in Commands \ {c} PROVE Formed(cmd'[d])
  BY <1>2, Formed(cmd[d]) DEF Formed, Stays
<1> QED
  BY <1>2, <1>3

-----------------------------------------------------------------------------
(* The helpers. *)

\* The files of a section are files, and those of two sections are apart.
LEMMA FilesApart ==
  ASSUME NEW s \in Sections, NEW b
  PROVE  FilesOf(s, b) \subseteq Files /\ \A f \in FilesOf(s, b) : f[1] = s
  BY DEF FilesOf, Files, Sections

\* What an address serves is a body under that address.
LEMMA ServedIs ==
  ASSUME AssetTypes, NEW c \in Commands, cmd[c].pc = "fetch"
  PROVE  Served(c) \in Bodies /\ {Served(c)[1]} = cmd[c].url
<1>1. PICK u \in Urls : cmd[c].url = {u}
  BY DEF AssetTypes, Formed
<1>2. origin[u] \in {0, 1}
  BY DEF AssetTypes
<1>3. <<u, origin[u]>> \in Bodies
  BY <1>2 DEF Bodies
<1> QED
  BY <1>1, <1>3 DEF Served

\* The section of a command.
LEMMA SectionIs ==
  ASSUME AssetTypes, NEW c \in Commands
  PROVE  Section(c) \in Sections
  BY DEF AssetTypes, Section, SectionOf, Kinds, Sections

LEMMA FormedIdle == Formed(Idle) /\ Idle.pc = "idle" /\ Idle.made = {} /\ Idle.raced = FALSE
  BY DEF Formed, Idle, Commanding, Pins, Sections, Fetched
-----------------------------------------------------------------------------
(* The types. *)

\* A pin keeps the types.
LEMMA PinTypes ==
  ASSUME AssetTypes, NEW c \in Commands,
         Start(c) \/ Load(c) \/ AlreadyPinned(c) \/ NotPinned(c) \/ Fetch(c) \/ Truncate(c) \/ Fill(c) \/ Prune(c)
           \/ SaveOpens(c) \/ SaveWrites(c)
  PROVE  AssetTypes'
<1> USE DEF Step
<1>a. Formed(cmd[c]) /\ cmd[c] \in Commanding
  BY DEF AssetTypes, Formed
<1>s. Section(c) \in Sections
  BY SectionIs
<1>d. Formed(Done(c))
  BY FormedIdle DEF Done, Formed, Idle, Commanding, PinSteps, BuildSteps, Fetched
<1> SUFFICES /\ origin' = origin /\ lock' \in Pins /\ file' \in [Files -> Bodies \cup {Absent, Torn}]
             /\ dist' = dist /\ kind' = kind
             /\ \E q, hit : Formed(q) /\ StepHitting(c, q, hit)
  BY FormedStays DEF AssetTypes
<1> USE DEF lockVars, treeVars, At
<1>1. CASE Start(c)
  <2>1. PICK u \in {{x} : x \in Offers[Section(c)]} \cup (IF kind[c] = "build" THEN {} ELSE {{}}) :
          StepHitting(c, [Idle EXCEPT !.pc = "load", !.url = u], {})
    BY <1>1 DEF Start
  <2>2. u = {} \/ \E x \in Urls : u = {x}
    BY <2>1, <1>s DEF Urls
  <2>3. Formed([Idle EXCEPT !.pc = "load", !.url = u])
    BY <2>2, FormedIdle DEF Formed, Idle, Commanding, PinSteps, BuildSteps, Fetched
  <2> QED
    BY <1>1, <2>1, <2>3 DEF Start, AssetTypes
<1>2. CASE Load(c)
  <2> DEFINE hot == \E d \in SameSection(c) : cmd[d].pc \in {"write", "fill", "prune", "save", "saving"}
  <2>1. PICK u \in IF cmd[c].url # {} THEN {cmd[c].url}
                   ELSE IF lock[Section(c)] # NoPin THEN {{lock[Section(c)][1]}}
                   ELSE IF Section(c) = "js" THEN {{x} : x \in Offers[Section(c)]}
                   ELSE {} :
          StepHitting(c, [Goto(c, "check") EXCEPT !.mem = lock, !.url = u, !.raced = hot], {})
    BY <1>2 DEF Load
  <2>2. \E x \in Urls : u = {x}
    <3>1. CASE cmd[c].url # {}
      BY <2>1, <3>1, <1>2, <1>a DEF Load, Formed
    <3>2. CASE cmd[c].url = {} /\ lock[Section(c)] # NoPin
      BY <2>1, <3>2, <1>s DEF AssetTypes, Pins, Bodies
    <3>3. CASE cmd[c].url = {} /\ lock[Section(c)] = NoPin
      BY <2>1, <3>3, <1>s DEF Urls
    <3> QED
      BY <3>1, <3>2, <3>3
  <2>3. hot \in BOOLEAN /\ lock \in Pins
    BY DEF AssetTypes
  <2> HIDE DEF hot
  <2>4. Formed([Goto(c, "check") EXCEPT !.mem = lock, !.url = u, !.raced = hot])
    BY <2>2, <2>3, <1>a DEF Goto, Formed, Commanding, PinSteps, Fetched
  <2> QED
    BY <1>2, <2>1, <2>4 DEF Load, AssetTypes
<1>3. CASE AlreadyPinned(c)
  BY <1>3, <1>d DEF AlreadyPinned, AssetTypes
<1>4. CASE NotPinned(c)
  <2>1. Formed(Goto(c, "fetch"))
    BY <1>4, <1>a DEF NotPinned, Goto, Formed, Commanding, PinSteps, Fetched
  <2> QED
    BY <1>4, <2>1 DEF NotPinned, AssetTypes
<1>5. CASE Fetch(c)
  <2> DEFINE q == [Goto(c, "write") EXCEPT !.url = {}, !.got = Served(c), !.todo = FilesOf(Section(c), Served(c))]
  <2>1. Served(c) \in Bodies /\ FilesOf(Section(c), Served(c)) \subseteq Files
    BY <1>5, <1>s, ServedIs, FilesApart DEF Fetch
  <2>2. Formed(q)
    BY <2>1, <1>a DEF Goto, Formed, Commanding, PinSteps, Fetched
  <2> QED
    BY <1>5, <2>2 DEF Fetch, AssetTypes
<1>6. CASE Truncate(c)
  <2>1. PICK f \in cmd[c].todo : /\ file' = [file EXCEPT ![f] = Torn]
                                 /\ StepHitting(c, [Goto(c, "fill") EXCEPT !.now = f], SameSection(c))
    BY <1>6 DEF Truncate
  <2>2. f \in Files
    BY <1>a DEF Commanding
  <2>3. Formed([Goto(c, "fill") EXCEPT !.now = f])
    BY <1>6, <2>2, <1>a DEF Truncate, Goto, Formed, Commanding, PinSteps, Fetched
  <2> QED
    BY <1>6, <2>1, <2>2, <2>3 DEF Truncate, AssetTypes
<1>7. CASE Fill(c)
  <2> DEFINE left == cmd[c].todo \ {cmd[c].now}
             q == [cmd[c] EXCEPT !.todo = left, !.now = Absent,
                     !.pc = IF left # {} THEN "write" ELSE IF Section(c) = "pkg" THEN "prune" ELSE "save"]
  <2>1. PICK b \in IF file[cmd[c].now] \in {Torn, cmd[c].got} THEN {cmd[c].got} ELSE {cmd[c].got, Torn} :
          file' = [file EXCEPT ![cmd[c].now] = b]
    BY <1>7 DEF Fill
  <2>2. b \in Bodies \cup {Torn}
    BY <1>7, <2>1, <1>a DEF Fill, Formed, Fetched
  <2>3. Formed(q)
    BY <1>7, <1>a DEF Fill, Formed, Commanding, PinSteps, Fetched
  <2> QED
    BY <1>7, <2>1, <2>2, <2>3 DEF Fill, AssetTypes
<1>8. CASE Prune(c)
  <2>1. Formed(Goto(c, "save"))
    BY <1>8, <1>a DEF Prune, Goto, Formed, Commanding, PinSteps, Fetched
  <2> QED
    BY <1>8, <2>1 DEF Prune, AssetTypes
<1>9. CASE SaveOpens(c)
  <2>1. Formed(Goto(c, "saving"))
    BY <1>9, <1>a DEF SaveOpens, Goto, Formed, Commanding, PinSteps, Fetched
  <2> QED
    BY <1>9, <2>1 DEF SaveOpens, AssetTypes
<1>10. CASE SaveWrites(c)
  <2>1. cmd[c].got \in Bodies /\ cmd[c].mem \in Pins
    BY <1>10, <1>a DEF SaveWrites, Formed, Fetched, Commanding
  <2>2. [cmd[c].mem EXCEPT ![Section(c)] = cmd[c].got] \in Pins
    BY <2>1, <1>s DEF Pins
  <2> QED
    BY <1>10, <2>2, <1>d DEF SaveWrites, AssetTypes
<1> QED
  BY <1>1, <1>2, <1>3, <1>4, <1>5, <1>6, <1>7, <1>8, <1>9, <1>10

\* A build keeps the types.
LEMMA BuildTypes ==
  ASSUME AssetTypes, NEW c \in Commands,
         Compile(c) \/ Bundle(c) \/ AssetOpens(c) \/ AssetFills(c) \/ ManifestOpens(c) \/ ManifestFills(c) \/ Dies(c)
  PROVE  AssetTypes'
<1> USE DEF Step
<1>a. Formed(cmd[c]) /\ cmd[c] \in Commanding
  BY DEF AssetTypes, Formed
<1> SUFFICES /\ origin' = origin /\ lock' = lock /\ file' = file /\ kind' = kind
             /\ dist' \in [BuiltFiles -> {"absent", "torn", "whole"}]
             /\ \E q, hit : Formed(q) /\ StepHitting(c, q, hit)
  BY FormedStays DEF AssetTypes
<1> USE DEF lockVars, treeVars, At
<1>1. CASE Compile(c)
  <2>1. Formed([Goto(c, "asset") EXCEPT !.now = <<"css">>])
    BY <1>1, <1>a DEF Compile, Goto, Formed, Commanding, PinSteps, BuildSteps, Fetched, BuiltFiles
  <2> QED
    BY <1>1, <2>1 DEF Compile, AssetTypes
<1>2. CASE Bundle(c)
  <2>1. <<"script", file[<<"js">>]>> \in BuiltFiles
    BY <1>2 DEF Bundle, AssetTypes, Files, BuiltFiles
  <2>2. Formed([Goto(c, "asset") EXCEPT !.now = <<"script", file[<<"js">>]>>])
    BY <1>2, <2>1, <1>a DEF Bundle, Goto, Formed, Commanding, PinSteps, BuildSteps, Fetched
  <2> QED
    BY <1>2, <2>2 DEF Bundle, AssetTypes
<1>3. CASE AssetOpens(c)
  <2>1. Formed(Goto(c, "assetFill"))
    BY <1>3, <1>a DEF AssetOpens, Goto, Formed, Commanding, PinSteps, BuildSteps, Fetched
  <2> QED
    BY <1>3, <2>1 DEF AssetOpens, AssetTypes
<1>4. CASE AssetFills(c)
  <2>1. Formed([cmd[c] EXCEPT !.made = @ \cup {cmd[c].now}, !.now = Absent,
                              !.pc = IF IsScript(cmd[c].now) THEN "manifest" ELSE "bundle"])
    BY <1>4, <1>a DEF AssetFills, Formed, Commanding, PinSteps, BuildSteps, Fetched
  <2> QED
    BY <1>4, <2>1 DEF AssetFills, AssetTypes
<1>5. CASE ManifestOpens(c)
  <2>1. Formed(Goto(c, "manifestFill"))
    BY <1>5, <1>a DEF ManifestOpens, Goto, Formed, Commanding, PinSteps, BuildSteps, Fetched
  <2> QED
    BY <1>5, <2>1 DEF ManifestOpens, AssetTypes
<1>6. CASE ManifestFills(c)
  BY <1>6, FormedIdle DEF ManifestFills, AssetTypes
<1>7. CASE Dies(c)
  BY <1>7, FormedIdle DEF Dies, AssetTypes
<1> QED
  BY <1>1, <1>2, <1>3, <1>4, <1>5, <1>6, <1>7

\* The types hold.
LEMMA TypesStart == Init => AssetTypes
<1> SUFFICES ASSUME Init PROVE AssetTypes
  OBVIOUS
<1>1. origin \in [Urls -> {0, 1}] /\ dist \in [BuiltFiles -> {"absent", "torn", "whole"}]
  BY DEF Init
<1>2. kind \in [Commands -> Kinds]
  BY AssetAssumption DEF Init
<1>3. PICK b \in {NoPin} \cup {<<u, 0>> : u \in Offers["js"]} :
        /\ lock = [s \in Sections |-> IF s = "js" THEN b ELSE NoPin]
        /\ file = [f \in Files |-> IF f = <<"js">> THEN b ELSE Absent]
  BY DEF Init
<1>4. b \in Bodies \cup {NoPin}
  BY DEF Bodies, Urls, Sections
<1>5. lock \in Pins /\ file \in [Files -> Bodies \cup {Absent, Torn}]
  BY <1>3, <1>4 DEF Pins, NoPin, Absent
<1>6. cmd \in [Commands -> Commanding] /\ \A c \in Commands : Formed(cmd[c])
  BY FormedIdle DEF Init, Formed
<1> QED
  BY <1>1, <1>2, <1>5, <1>6 DEF AssetTypes

LEMMA TypesStep ==
  ASSUME AssetTypes, [Next]_vars
  PROVE  AssetTypes'
<1>1. ASSUME NEW u \in Moving, Republish(u) PROVE AssetTypes'
  BY <1>1 DEF Republish, AssetTypes, lockVars, treeVars
<1>2. CASE DeleteLock
  BY <1>2 DEF DeleteLock, AssetTypes, treeVars, Pins
<1>3. CASE UNCHANGED vars
  BY <1>3 DEF vars, AssetTypes, lockVars, treeVars
<1> QED
  BY <1>1, <1>2, <1>3, PinTypes, BuildTypes DEF Next
-----------------------------------------------------------------------------
(* What each step does to its command. *)

\* Command c is at pc, with the lock, the download, the files to write and the
\* files made of r, and every other command stays.
Becomes(c, pc, mem, got, todo, made) ==
  /\ cmd'[c].pc = pc /\ cmd'[c].mem = mem /\ cmd'[c].got = got /\ cmd'[c].todo = todo /\ cmd'[c].made = made
  /\ \A d \in Commands \ {c} : Stays(d)

\* Every other command of the section, or of all, knows that it is not alone.
Disturbs(c, hit) == \A d \in Commands \ {c} : d \in hit /\ cmd[d].pc # "idle" => cmd'[d].raced

LEMMA GotoDoes ==
  ASSUME AssetTypes, NEW c \in Commands, NEW pc, NEW hit, StepHitting(c, Goto(c, pc), hit)
  PROVE  /\ Becomes(c, pc, cmd[c].mem, cmd[c].got, cmd[c].todo, cmd[c].made)
         /\ cmd'[c].now = cmd[c].now /\ cmd'[c].raced = cmd[c].raced
         /\ Disturbs(c, hit)
<1> DEFINE q == Goto(c, pc)
<1>1. cmd \in [Commands -> Commanding] /\ cmd[c] \in Commanding
  BY DEF AssetTypes
<1>2. /\ q.pc = pc /\ q.mem = cmd[c].mem /\ q.got = cmd[c].got /\ q.todo = cmd[c].todo /\ q.made = cmd[c].made
      /\ q.now = cmd[c].now /\ q.raced = cmd[c].raced
  BY <1>1 DEF Goto, Commanding
<1> HIDE DEF q
<1>3. cmd'[c] = q /\ (\A d \in Commands \ {c} : Stays(d)) /\ Disturbs(c, hit)
  BY <1>1, OneSteps DEF Disturbs, q
<1> QED
  BY <1>2, <1>3 DEF Becomes

LEMMA StartDoes ==
  ASSUME AssetTypes, NEW c \in Commands, Start(c)
  PROVE  Becomes(c, "load", Idle.mem, NoPin, {}, {})
<1>1. cmd \in [Commands -> Commanding]
  BY DEF AssetTypes
<1>2. PICK u : StepHitting(c, [Idle EXCEPT !.pc = "load", !.url = u], {})
  BY DEF Start, Step
<1> DEFINE q == [Idle EXCEPT !.pc = "load", !.url = u]
<1>3. q.pc = "load" /\ q.mem = Idle.mem /\ q.got = NoPin /\ q.todo = {} /\ q.made = {}
  BY DEF Idle
<1> HIDE DEF q
<1>4. cmd'[c] = q /\ \A d \in Commands \ {c} : Stays(d)
  BY <1>1, <1>2, OneSteps DEF q
<1> QED
  BY <1>3, <1>4 DEF Becomes

LEMMA LoadDoes ==
  ASSUME AssetTypes, NEW c \in Commands, Load(c)
  PROVE  /\ Becomes(c, "check", lock, cmd[c].got, cmd[c].todo, cmd[c].made)
         /\ cmd'[c].raced <=> \E d \in SameSection(c) : cmd[d].pc \in {"write", "fill", "prune", "save", "saving"}
<1>1. cmd \in [Commands -> Commanding] /\ cmd[c] \in Commanding
  BY DEF AssetTypes
<1> DEFINE hot == \E d \in SameSection(c) : cmd[d].pc \in {"write", "fill", "prune", "save", "saving"}
<1>2. PICK u : StepHitting(c, [Goto(c, "check") EXCEPT !.mem = lock, !.url = u, !.raced = hot], {})
  BY DEF Load, Step
<1>h. hot \in BOOLEAN
  OBVIOUS
<1> HIDE DEF hot
<1> DEFINE q == [Goto(c, "check") EXCEPT !.mem = lock, !.url = u, !.raced = hot]
<1>3. q.pc = "check" /\ q.mem = lock /\ q.got = cmd[c].got /\ q.todo = cmd[c].todo /\ q.made = cmd[c].made
  BY <1>1 DEF Goto, Commanding
<1>4. q.raced = hot
  BY <1>1, <1>h DEF Goto, Commanding
<1> HIDE DEF q
<1>5. cmd'[c] = q /\ \A d \in Commands \ {c} : Stays(d)
  BY <1>1, <1>2, OneSteps DEF q
<1>6. Becomes(c, "check", lock, cmd[c].got, cmd[c].todo, cmd[c].made)
  BY <1>3, <1>5 DEF Becomes
<1>7. cmd'[c].raced = hot
  BY <1>4, <1>5
<1> QED
  BY <1>6, <1>7 DEF hot

LEMMA FetchDoes ==
  ASSUME AssetTypes, NEW c \in Commands, Fetch(c)
  PROVE  /\ Becomes(c, "write", cmd[c].mem, Served(c), FilesOf(Section(c), Served(c)), cmd[c].made)
         /\ cmd'[c].raced = cmd[c].raced
<1>1. cmd \in [Commands -> Commanding] /\ cmd[c] \in Commanding
  BY DEF AssetTypes
<1> DEFINE q == [Goto(c, "write") EXCEPT !.url = {}, !.got = Served(c), !.todo = FilesOf(Section(c), Served(c))]
<1>2. /\ q.pc = "write" /\ q.mem = cmd[c].mem /\ q.got = Served(c) /\ q.todo = FilesOf(Section(c), Served(c))
      /\ q.made = cmd[c].made /\ q.raced = cmd[c].raced
  BY <1>1 DEF Goto, Commanding
<1>3. StepHitting(c, q, {})
  BY DEF Fetch, Step
<1> HIDE DEF q
<1>4. cmd'[c] = q /\ \A d \in Commands \ {c} : Stays(d)
  BY <1>1, <1>3, OneSteps
<1> QED
  BY <1>2, <1>4 DEF Becomes

LEMMA TruncateDoes ==
  ASSUME AssetTypes, NEW c \in Commands, Truncate(c)
  PROVE  /\ Becomes(c, "fill", cmd[c].mem, cmd[c].got, cmd[c].todo, cmd[c].made)
         /\ \E f \in cmd[c].todo : cmd'[c].now = f /\ file' = [file EXCEPT ![f] = Torn]
         /\ cmd'[c].raced = cmd[c].raced
         /\ Disturbs(c, SameSection(c))
<1>1. cmd \in [Commands -> Commanding] /\ cmd[c] \in Commanding
  BY DEF AssetTypes
<1>2. PICK f \in cmd[c].todo : /\ file' = [file EXCEPT ![f] = Torn]
                               /\ StepHitting(c, [Goto(c, "fill") EXCEPT !.now = f], SameSection(c))
  BY DEF Truncate
<1> DEFINE q == [Goto(c, "fill") EXCEPT !.now = f]
<1>3. /\ q.pc = "fill" /\ q.mem = cmd[c].mem /\ q.got = cmd[c].got /\ q.todo = cmd[c].todo /\ q.made = cmd[c].made
      /\ q.now = f /\ q.raced = cmd[c].raced
  BY <1>1 DEF Goto, Commanding
<1> HIDE DEF q
<1>4. cmd'[c] = q /\ (\A d \in Commands \ {c} : Stays(d)) /\ Disturbs(c, SameSection(c))
  BY <1>1, <1>2, OneSteps DEF q, Disturbs
<1> QED
  BY <1>2, <1>3, <1>4 DEF Becomes

\* Where a pin goes when it has written a file.
AfterFill(c) ==
  IF cmd[c].todo \ {cmd[c].now} # {} THEN "write" ELSE IF Section(c) = "pkg" THEN "prune" ELSE "save"

LEMMA FillDoes ==
  ASSUME AssetTypes, NEW c \in Commands, Fill(c)
  PROVE  /\ Becomes(c, AfterFill(c), cmd[c].mem, cmd[c].got, cmd[c].todo \ {cmd[c].now}, cmd[c].made)
         /\ cmd'[c].raced = cmd[c].raced
         /\ Disturbs(c, SameSection(c))
<1>1. cmd \in [Commands -> Commanding] /\ cmd[c] \in Commanding
  BY DEF AssetTypes
<1> DEFINE q == [cmd[c] EXCEPT !.todo = cmd[c].todo \ {cmd[c].now}, !.now = Absent, !.pc = AfterFill(c)]
<1>2. /\ q.pc = AfterFill(c) /\ q.mem = cmd[c].mem /\ q.got = cmd[c].got /\ q.todo = cmd[c].todo \ {cmd[c].now}
      /\ q.made = cmd[c].made /\ q.raced = cmd[c].raced
  BY <1>1 DEF Commanding
<1>3. StepHitting(c, q, SameSection(c))
  BY DEF Fill, AfterFill
<1> HIDE DEF q
<1>4. cmd'[c] = q /\ (\A d \in Commands \ {c} : Stays(d)) /\ Disturbs(c, SameSection(c))
  BY <1>1, <1>3, OneSteps DEF Disturbs
<1> QED
  BY <1>2, <1>4 DEF Becomes

\* The steps that read the tree to build a file.
LEMMA BuildReads ==
  ASSUME AssetTypes, NEW c \in Commands, NEW a, StepHitting(c, [Goto(c, "asset") EXCEPT !.now = a], {})
  PROVE  /\ Becomes(c, "asset", cmd[c].mem, cmd[c].got, cmd[c].todo, cmd[c].made)
         /\ cmd'[c].now = a
<1>1. cmd \in [Commands -> Commanding] /\ cmd[c] \in Commanding
  BY DEF AssetTypes
<1> DEFINE q == [Goto(c, "asset") EXCEPT !.now = a]
<1>2. /\ q.pc = "asset" /\ q.mem = cmd[c].mem /\ q.got = cmd[c].got /\ q.todo = cmd[c].todo /\ q.made = cmd[c].made
      /\ q.now = a
  BY <1>1 DEF Goto, Commanding
<1> HIDE DEF q
<1>3. cmd'[c] = q /\ (\A d \in Commands \ {c} : Stays(d))
  BY <1>1, OneSteps DEF q
<1> QED
  BY <1>2, <1>3 DEF Becomes

LEMMA AssetFillsDoes ==
  ASSUME AssetTypes, NEW c \in Commands, AssetFills(c)
  PROVE  Becomes(c, IF IsScript(cmd[c].now) THEN "manifest" ELSE "bundle", cmd[c].mem, cmd[c].got, cmd[c].todo,
                 cmd[c].made \cup {cmd[c].now})
<1>1. cmd \in [Commands -> Commanding] /\ cmd[c] \in Commanding
  BY DEF AssetTypes
<1> DEFINE pc == IF IsScript(cmd[c].now) THEN "manifest" ELSE "bundle"
           q == [cmd[c] EXCEPT !.made = cmd[c].made \cup {cmd[c].now}, !.now = Absent, !.pc = pc]
<1>2. StepHitting(c, q, {})
  BY DEF AssetFills, Step
<1> HIDE DEF pc
<1>3. /\ q.pc = pc /\ q.mem = cmd[c].mem /\ q.got = cmd[c].got /\ q.todo = cmd[c].todo
      /\ q.made = cmd[c].made \cup {cmd[c].now}
  BY <1>1 DEF Commanding
<1> HIDE DEF q
<1>4. cmd'[c] = q /\ (\A d \in Commands \ {c} : Stays(d))
  BY <1>1, <1>2, OneSteps
<1>5. Becomes(c, pc, cmd[c].mem, cmd[c].got, cmd[c].todo, cmd[c].made \cup {cmd[c].now})
  BY <1>3, <1>4 DEF Becomes
<1> QED
  BY <1>5 DEF pc

LEMMA DoneDoes ==
  ASSUME AssetTypes, NEW c \in Commands, NEW hit, StepHitting(c, Done(c), hit)
  PROVE  /\ cmd'[c] = Done(c) /\ Done(c).pc \in {"idle", "css"} /\ Done(c).made = {}
         /\ \A d \in Commands \ {c} : Stays(d)
         /\ Disturbs(c, hit)
<1>1. cmd \in [Commands -> Commanding]
  BY DEF AssetTypes
<1>2. cmd'[c] = Done(c) /\ (\A d \in Commands \ {c} : Stays(d)) /\ Disturbs(c, hit)
  BY <1>1, OneSteps DEF Disturbs
<1>3. Done(c).pc \in {"idle", "css"} /\ Done(c).made = {}
  BY DEF Done, Idle
<1> QED
  BY <1>2, <1>3

LEMMA IdleDoes ==
  ASSUME AssetTypes, NEW c \in Commands, Step(c, Idle)
  PROVE  cmd'[c] = Idle /\ \A d \in Commands \ {c} : Stays(d)
<1>1. cmd \in [Commands -> Commanding]
  BY DEF AssetTypes
<1> QED
  BY <1>1, OneSteps DEF Step

-----------------------------------------------------------------------------
(* The manifest. *)

\* A pin has nothing to do with the built files.
LEMMA PinLeavesDist ==
  ASSUME AssetTypes, NEW c \in Commands,
         Start(c) \/ Load(c) \/ AlreadyPinned(c) \/ NotPinned(c) \/ Fetch(c) \/ Truncate(c) \/ Fill(c) \/ Prune(c)
           \/ SaveOpens(c) \/ SaveWrites(c)
  PROVE  /\ UNCHANGED <<dist, cut, manifest>>
         /\ cmd[c].pc \notin BuildSteps
         /\ cmd'[c].pc \notin BuildSteps \ {"css"}
         /\ cmd'[c].made \subseteq cmd[c].made
         /\ \A d \in Commands \ {c} : Stays(d)
<1> USE DEF Step, At, lockVars, treeVars, histVars, BuildSteps, Becomes
<1>1. CASE Start(c)
  BY <1>1, StartDoes DEF Start
<1>2. CASE Load(c)
  BY <1>2, LoadDoes DEF Load
<1>3. CASE AlreadyPinned(c)
  BY <1>3, DoneDoes DEF AlreadyPinned
<1>4. CASE NotPinned(c)
  BY <1>4, GotoDoes DEF NotPinned
<1>5. CASE Fetch(c)
  BY <1>5, FetchDoes DEF Fetch
<1>6. CASE Truncate(c)
  BY <1>6, TruncateDoes DEF Truncate
<1>7. CASE Fill(c)
  BY <1>7, FillDoes DEF Fill, AfterFill
<1>8. CASE Prune(c)
  BY <1>8, GotoDoes DEF Prune
<1>9. CASE SaveOpens(c)
  BY <1>9, GotoDoes DEF SaveOpens
<1>10. CASE SaveWrites(c)
  BY <1>10, DoneDoes DEF SaveWrites
<1> QED
  BY <1>1, <1>2, <1>3, <1>4, <1>5, <1>6, <1>7, <1>8, <1>9, <1>10

\* The invariant of the built files.
DistInv == AssetTypes /\ DistShape /\ MadeShape

LEMMA PinKeepsDist ==
  ASSUME DistInv, NEW c \in Commands,
         UNCHANGED <<dist, cut, manifest>>, cmd[c].pc \notin BuildSteps, cmd'[c].pc \notin BuildSteps \ {"css"},
         cmd'[c].made \subseteq cmd[c].made, \A d \in Commands \ {c} : Stays(d)
  PROVE  DistShape' /\ MadeShape'
<1> USE DEF DistInv, At, BuildSteps, Stays
<1>1. DistShape'
  BY DEF DistShape
<1>2. MadeShape'
  BY DEF MadeShape, Complete
<1> QED
  BY <1>1, <1>2

LEMMA BuildKeepsDist ==
  ASSUME DistInv, NEW c \in Commands,
         Compile(c) \/ Bundle(c) \/ AssetOpens(c) \/ AssetFills(c) \/ ManifestOpens(c) \/ ManifestFills(c) \/ Dies(c)
  PROVE  DistShape' /\ MadeShape'
<1> USE DEF Step, At, lockVars, treeVars, histVars, Stays, Becomes
<1>t. AssetTypes /\ cmd[c] \in Commanding /\ dist \in [BuiltFiles -> {"absent", "torn", "whole"}]
  BY DEF DistInv, AssetTypes
<1>1. CASE Compile(c)
  <2>1. Becomes(c, "asset", cmd[c].mem, cmd[c].got, cmd[c].todo, cmd[c].made) /\ cmd'[c].now = <<"css">>
    BY <1>1, <1>t, BuildReads DEF Compile
  <2>2. DistShape'
    BY <1>1, <2>1 DEF Compile, DistInv, DistShape
  <2>3. MadeShape'
    BY <1>1, <2>1 DEF Compile, DistInv, MadeShape, Complete
  <2> QED
    BY <2>2, <2>3
<1>2. CASE Bundle(c)
  <2>1. Becomes(c, "asset", cmd[c].mem, cmd[c].got, cmd[c].todo, cmd[c].made)
    BY <1>2, <1>t, BuildReads DEF Bundle
  <2>2. DistShape'
    BY <1>2, <2>1 DEF Bundle, DistInv, DistShape
  <2>3. MadeShape'
    BY <1>2, <2>1 DEF Bundle, DistInv, MadeShape, Complete
  <2> QED
    BY <2>2, <2>3
<1>3. CASE AssetOpens(c)
  <2>1. Becomes(c, "assetFill", cmd[c].mem, cmd[c].got, cmd[c].todo, cmd[c].made) /\ cmd'[c].now = cmd[c].now
    BY <1>3, <1>t, GotoDoes DEF AssetOpens
  <2>2. dist' = [dist EXCEPT ![cmd[c].now] = "torn"] /\ cmd[c].now \in BuiltFiles
    BY <1>3 DEF AssetOpens, DistInv, AssetTypes, Formed
  <2>3. DistShape'
    BY <1>3, <2>1, <2>2, <1>t DEF AssetOpens, DistInv, DistShape
  <2>4. MadeShape'
    BY <1>3, <2>1 DEF AssetOpens, DistInv, MadeShape, Complete
  <2> QED
    BY <2>3, <2>4
<1>4. CASE AssetFills(c)
  <2>1. Becomes(c, IF IsScript(cmd[c].now) THEN "manifest" ELSE "bundle", cmd[c].mem, cmd[c].got, cmd[c].todo,
                cmd[c].made \cup {cmd[c].now})
    BY <1>4, <1>t, AssetFillsDoes
  <2>2. /\ dist' = [dist EXCEPT ![cmd[c].now] = "whole"] /\ cmd[c].now \in BuiltFiles
        /\ cut' = cut \ {cmd[c].now} /\ manifest' = manifest
    BY <1>4 DEF AssetFills, DistInv, AssetTypes, Formed
  <2>3. DistShape'
    <3>1. \A a \in BuiltFiles :
            dist'[a] = "torn" => a \in cut' \/ \E d \in Commands : cmd'[d].pc = "assetFill" /\ cmd'[d].now = a
      BY <2>1, <2>2, <1>t DEF DistInv, DistShape
    <3>2. \A a \in manifest' : a \in BuiltFiles /\ dist'[a] # "absent"
      BY <2>2, <1>t DEF DistInv, DistShape
    <3>3. \A d \in Commands : \A a \in cmd'[d].made : dist'[a] # "absent"
      <4>1. \A d \in Commands : cmd[d].made \subseteq BuiltFiles
        BY DEF DistInv, AssetTypes, Commanding
      <4> QED
        BY <2>1, <2>2, <4>1, <1>t DEF DistInv, DistShape
    <3> QED
      BY <3>1, <3>2, <3>3 DEF DistShape
  <2>4. MadeShape'
    BY <1>4, <2>1, <2>2 DEF AssetFills, DistInv, MadeShape, Complete, IsScript
  <2> QED
    BY <2>3, <2>4
<1>5. CASE ManifestOpens(c)
  <2>1. Becomes(c, "manifestFill", cmd[c].mem, cmd[c].got, cmd[c].todo, cmd[c].made)
    BY <1>5, <1>t, GotoDoes DEF ManifestOpens
  <2>2. DistShape'
    BY <1>5, <2>1 DEF ManifestOpens, DistInv, DistShape
  <2>3. MadeShape'
    BY <1>5, <2>1 DEF ManifestOpens, DistInv, MadeShape, Complete
  <2> QED
    BY <2>2, <2>3
<1>6. CASE ManifestFills(c)
  <2>1. cmd'[c] = Idle /\ \A d \in Commands \ {c} : Stays(d)
    BY <1>6, <1>t, IdleDoes DEF ManifestFills
  <2>2. cmd[c].made \subseteq BuiltFiles
    BY <1>t DEF Commanding
  <2>3. DistShape'
    BY <1>6, <2>1, <2>2, FormedIdle DEF ManifestFills, DistInv, DistShape
  <2>4. MadeShape'
    BY <1>6, <2>1, FormedIdle DEF ManifestFills, DistInv, MadeShape, Complete
  <2> QED
    BY <2>3, <2>4
<1>7. CASE Dies(c)
  <2>1. cmd'[c] = Idle /\ \A d \in Commands \ {c} : Stays(d)
    BY <1>7, <1>t, IdleDoes DEF Dies
  <2>2. DistShape'
    BY <1>7, <2>1, FormedIdle DEF Dies, DistInv, DistShape
  <2>3. MadeShape'
    BY <1>7, <2>1, FormedIdle DEF Dies, DistInv, MadeShape, Complete
  <2> QED
    BY <2>2, <2>3
<1> QED
  BY <1>1, <1>2, <1>3, <1>4, <1>5, <1>6, <1>7

\* A manifest that parses names a stylesheet and a script, and every file that
\* it names is whole, or is being rewritten, or its rewrite was interrupted:
\* however many builds run at once and wherever they are killed.
THEOREM ManifestsAreSound == Spec => []ManifestSound
<1>1. Init => DistInv
  <2> SUFFICES ASSUME Init PROVE DistShape /\ MadeShape
    BY TypesStart DEF DistInv
  <2>1. /\ \A a \in BuiltFiles : dist[a] = "absent"
        /\ manifest = {}
        /\ \A c \in Commands : cmd[c] = Idle
    BY DEF Init
  <2> QED
    BY <2>1, FormedIdle DEF DistShape, MadeShape
<1>2. DistInv /\ [Next]_vars => DistInv'
  <2> SUFFICES ASSUME DistInv, [Next]_vars PROVE DistShape' /\ MadeShape'
    BY TypesStep DEF DistInv
  <2>1. ASSUME NEW c \in Commands,
               Start(c) \/ Load(c) \/ AlreadyPinned(c) \/ NotPinned(c) \/ Fetch(c) \/ Truncate(c) \/ Fill(c) \/ Prune(c)
                 \/ SaveOpens(c) \/ SaveWrites(c)
        PROVE  DistShape' /\ MadeShape'
    BY <2>1, PinLeavesDist, PinKeepsDist DEF DistInv
  <2>2. ASSUME NEW u \in Moving, Republish(u) PROVE DistShape' /\ MadeShape'
    BY <2>2 DEF Republish, treeVars, histVars, DistInv, DistShape, MadeShape, At
  <2>3. CASE DeleteLock \/ UNCHANGED vars
    BY <2>3 DEF DeleteLock, vars, treeVars, histVars, DistInv, DistShape, MadeShape, At
  <2> QED
    BY <2>1, <2>2, <2>3, BuildKeepsDist DEF Next
<1>3. DistInv => ManifestSound
  <2> SUFFICES ASSUME DistInv, manifest # {}
               PROVE  /\ Complete(manifest)
                      /\ \A a \in manifest :
                           \/ dist[a] = "whole"
                           \/ dist[a] = "torn" /\ (a \in cut \/ \E c \in Commands : At(c, "assetFill") /\ cmd[c].now = a)
    BY DEF ManifestSound, Complete
  <2>1. \A a \in manifest : a \in BuiltFiles /\ dist[a] \in {"torn", "whole"}
    BY DEF DistInv, DistShape, AssetTypes
  <2> QED
    BY <2>1 DEF DistInv, DistShape, MadeShape
<1> QED
  BY <1>1, <1>2, <1>3, PTL DEF Spec
-----------------------------------------------------------------------------
(* The lock. *)

LockInv == AssetTypes /\ LockShape

\* A command that leaves the lock alone and keeps what it knows of it keeps
\* the invariant.
LEMMA LockKept ==
  ASSUME LockInv, NEW c \in Commands, UNCHANGED <<kind, lock>>,
         \A d \in Commands \ {c} : Stays(d),
         \/ cmd'[c].pc \notin Holding
         \/ /\ cmd[c].pc \in Holding /\ (cmd[c].pc \in Fetched \/ cmd'[c].pc \notin Fetched)
            /\ cmd'[c].mem = cmd[c].mem /\ cmd'[c].got = cmd[c].got /\ cmd'[c].raced = cmd[c].raced
  PROVE  LockShape'
<1>1. \A d \in Commands : Section(d)' = Section(d)
  BY DEF Section
<1>2. ASSUME NEW d \in Commands \ {c}
      PROVE  /\ cmd'[d].pc \in Holding /\ ~cmd'[d].raced => cmd'[d].mem = lock'
             /\ cmd'[d].pc \in Fetched /\ Pinned(d)' # NoPin /\ Pinned(d)'[1] = cmd'[d].got[1] => Pinned(d)' = cmd'[d].got
  BY <1>1, Stays(d) DEF Stays, LockInv, LockShape, Pinned
<1>3. /\ cmd'[c].pc \in Holding /\ ~cmd'[c].raced => cmd'[c].mem = lock'
      /\ cmd'[c].pc \in Fetched /\ Pinned(c)' # NoPin /\ Pinned(c)'[1] = cmd'[c].got[1] => Pinned(c)' = cmd'[c].got
  BY <1>1 DEF LockInv, LockShape, Pinned, Fetched, Holding
<1> QED
  BY <1>2, <1>3 DEF LockShape

\* A save leaves every other command with the knowledge that it is not alone.
LEMMA SaveKeepsLock ==
  ASSUME LockInv, NEW c \in Commands, SaveWrites(c)
  PROVE  LockShape'
<1>1. /\ cmd'[c].pc \in {"idle", "css"}
      /\ \A d \in Commands \ {c} : Stays(d)
      /\ Disturbs(c, Commands)
  BY DoneDoes DEF SaveWrites, LockInv
<1>2. \A d \in Commands : Section(d)' = Section(d)
  BY DEF Section, SaveWrites
<1>3. ASSUME NEW d \in Commands \ {c}
      PROVE  /\ cmd'[d].pc \in Holding => cmd'[d].raced
             /\ cmd'[d].pc \in Fetched /\ Pinned(d)' # NoPin /\ Pinned(d)'[1] = cmd'[d].got[1] => Pinned(d)' = cmd'[d].got
  BY <1>1, <1>2, Stays(d) DEF Stays, Disturbs, Holding, LockInv, LockShape, Pinned
<1> QED
  BY <1>1, <1>3 DEF LockShape, Holding, Fetched

LEMMA LockStep ==
  ASSUME LockInv, [Next]_vars
  PROVE  LockShape'
<1> USE DEF Step, At, lockVars, Becomes, Holding, Fetched
<1>t. AssetTypes
  BY DEF LockInv
<1>1. ASSUME NEW c \in Commands, Start(c) PROVE LockShape'
  BY <1>1, <1>t, StartDoes, LockKept DEF Start
<1>2. ASSUME NEW c \in Commands, Load(c) PROVE LockShape'
  <2>1. Becomes(c, "check", lock, cmd[c].got, cmd[c].todo, cmd[c].made) /\ UNCHANGED <<kind, lock>>
    BY <1>2, <1>t, LoadDoes DEF Load
  <2>2. \A d \in Commands : Section(d)' = Section(d)
    BY <2>1 DEF Section
  <2>3. ASSUME NEW d \in Commands \ {c}
        PROVE  /\ cmd'[d].pc \in Holding /\ ~cmd'[d].raced => cmd'[d].mem = lock'
               /\ cmd'[d].pc \in Fetched /\ Pinned(d)' # NoPin /\ Pinned(d)'[1] = cmd'[d].got[1] => Pinned(d)' = cmd'[d].got
    BY <2>1, <2>2, Stays(d) DEF Stays, LockInv, LockShape, Pinned
  <2> QED
    BY <2>1, <2>3 DEF LockShape
<1>3. ASSUME NEW c \in Commands, AlreadyPinned(c) PROVE LockShape'
  BY <1>3, <1>t, DoneDoes, LockKept DEF AlreadyPinned
<1>4. ASSUME NEW c \in Commands, NotPinned(c) PROVE LockShape'
  BY <1>4, <1>t, GotoDoes, LockKept DEF NotPinned
<1>5. ASSUME NEW c \in Commands, Fetch(c) PROVE LockShape'
  <2>1. /\ Becomes(c, "write", cmd[c].mem, Served(c), FilesOf(Section(c), Served(c)), cmd[c].made)
        /\ cmd'[c].raced = cmd[c].raced /\ UNCHANGED <<kind, lock>>
    BY <1>5, <1>t, FetchDoes DEF Fetch
  <2>2. \A d \in Commands : Section(d)' = Section(d)
    BY <2>1 DEF Section
  <2>3. ASSUME NEW d \in Commands \ {c}
        PROVE  /\ cmd'[d].pc \in Holding /\ ~cmd'[d].raced => cmd'[d].mem = lock'
               /\ cmd'[d].pc \in Fetched /\ Pinned(d)' # NoPin /\ Pinned(d)'[1] = cmd'[d].got[1] => Pinned(d)' = cmd'[d].got
    BY <2>1, <2>2, Stays(d) DEF Stays, LockInv, LockShape, Pinned
  <2>4. Pinned(c) # NoPin /\ Pinned(c)[1] = Served(c)[1] => Pinned(c) = Served(c)
    <3>1. {Served(c)[1]} = cmd[c].url
      BY <1>5, <1>t, ServedIs DEF Fetch
    <3> QED
      BY <1>5, <3>1 DEF Fetch, Locked
  <2>5. cmd[c].pc = "fetch"
    BY <1>5 DEF Fetch
  <2> QED
    BY <2>1, <2>2, <2>3, <2>4, <2>5 DEF LockShape, LockInv, Pinned
<1>6. ASSUME NEW c \in Commands, Truncate(c) PROVE LockShape'
  BY <1>6, <1>t, TruncateDoes, LockKept DEF Truncate
<1>7. ASSUME NEW c \in Commands, Fill(c) PROVE LockShape'
  BY <1>7, <1>t, FillDoes, LockKept DEF Fill, AfterFill
<1>8. ASSUME NEW c \in Commands, Prune(c) PROVE LockShape'
  BY <1>8, <1>t, GotoDoes, LockKept DEF Prune
<1>9. ASSUME NEW c \in Commands, SaveOpens(c) PROVE LockShape'
  BY <1>9, <1>t, GotoDoes, LockKept DEF SaveOpens
<1>10. ASSUME NEW c \in Commands, Compile(c) \/ Bundle(c) PROVE LockShape'
  BY <1>10, <1>t, BuildReads, LockKept DEF Compile, Bundle
<1>11. ASSUME NEW c \in Commands, AssetOpens(c) \/ ManifestOpens(c) PROVE LockShape'
  BY <1>11, <1>t, GotoDoes, LockKept DEF AssetOpens, ManifestOpens
<1>12. ASSUME NEW c \in Commands, AssetFills(c) PROVE LockShape'
  BY <1>12, <1>t, AssetFillsDoes, LockKept DEF AssetFills
<1>13. ASSUME NEW c \in Commands, ManifestFills(c) \/ Dies(c) PROVE LockShape'
  BY <1>13, <1>t, IdleDoes, FormedIdle, LockKept DEF ManifestFills, Dies
<1>14. ASSUME NEW u \in Moving, Republish(u) PROVE LockShape'
  BY <1>14 DEF Republish, LockInv, LockShape, Pinned, Section
<1>15. CASE DeleteLock
  BY <1>15 DEF DeleteLock, LockShape
<1>16. CASE UNCHANGED vars
  BY <1>16 DEF vars, LockInv, LockShape, Pinned, Section
<1> HIDE DEF Step, At, lockVars, Becomes, Holding, Fetched
<1> QED
  BY <1>1, <1>2, <1>3, <1>4, <1>5, <1>6, <1>7, <1>8, <1>9, <1>10, <1>11, <1>12, <1>13, <1>14, <1>15, <1>16,
     SaveKeepsLock DEF Next

LEMMA LockStart == Init => LockInv
<1> SUFFICES ASSUME Init PROVE LockShape
  BY TypesStart DEF LockInv
<1>1. \A c \in Commands : cmd[c] = Idle
  BY DEF Init
<1> QED
  BY <1>1, FormedIdle DEF LockShape, Holding, Fetched

\* The lock loses no pin, and no pin takes another hash under its address, but
\* to a save over the work of another command or to a person who deletes it:
\* for any number of commands and addresses, with kills and contents that move.
THEOREM LocksStayLocked == Spec => LockedStaysLocked
<1> DEFINE Lost(s) == /\ lock[s] # NoPin /\ lock'[s] # lock[s]
                      /\ ~(lock'[s] # NoPin /\ lock'[s][1] # lock[s][1])
           Excused == \/ \E c \in Commands : At(c, "saving") /\ cmd[c].raced
                      \/ lockTorn /\ ~lockTorn' /\ \A c \in Commands : At(c, "idle")
<1>1. LockInv /\ [Next]_vars => LockInv'
  BY TypesStep, LockStep DEF LockInv
<1>2. LockInv /\ [Next]_vars => [\A s \in Sections : Lost(s) => Excused]_vars
  <2> SUFFICES ASSUME LockInv, [Next]_vars, NEW s \in Sections, Lost(s) PROVE Excused
    OBVIOUS
  <2>1. CASE DeleteLock
    BY <2>1 DEF DeleteLock
  <2>2. ASSUME NEW c \in Commands, SaveWrites(c), ~cmd[c].raced PROVE FALSE
    <3>1. cmd[c].pc = "saving" /\ cmd[c].mem = lock
      BY <2>2 DEF SaveWrites, At, LockInv, LockShape, Holding
    <3>2. Formed(cmd[c]) /\ lock \in Pins
      BY DEF LockInv, AssetTypes
    <3>3. cmd[c].got \in Bodies
      BY <3>1, <3>2 DEF Formed, Fetched
    <3>4. cmd[c].got # NoPin
      BY <3>3 DEF Bodies, NoPin
    <3>5. lock' = [lock EXCEPT ![Section(c)] = cmd[c].got]
      BY <2>2, <3>1 DEF SaveWrites
    <3>6. s = Section(c) /\ lock'[s] = cmd[c].got
      BY <3>2, <3>5 DEF Pins
    <3>7. Pinned(c) = lock[s]
      BY <3>1, <3>6 DEF Pinned
    <3> QED
      BY <3>1, <3>4, <3>6, <3>7 DEF LockInv, LockShape, Fetched
  <2>3. CASE lock' = lock
    BY <2>3
  <2>4. lock' = lock \/ DeleteLock \/ \E c \in Commands : SaveWrites(c)
    BY DEF Next, vars, lockVars, Start, Load, AlreadyPinned, NotPinned, Fetch, Truncate, Fill, Prune, SaveOpens,
           Compile, Bundle, AssetOpens, AssetFills, ManifestOpens, ManifestFills, Dies, Republish
  <2>5. ASSUME NEW c \in Commands, SaveWrites(c) PROVE Excused
    BY <2>2, <2>5 DEF SaveWrites
  <2> QED
    BY <2>1, <2>3, <2>4, <2>5
<1>3. [\A s \in Sections : Lost(s) => Excused]_vars <=>
      [\A s \in Sections :
         lock[s] # NoPin /\ lock'[s] # lock[s] =>
           \/ lock'[s] # NoPin /\ lock'[s][1] # lock[s][1]
           \/ \E c \in Commands : At(c, "saving") /\ cmd[c].raced
           \/ lockTorn /\ ~lockTorn' /\ \A c \in Commands : At(c, "idle")]_vars
  OBVIOUS
<1> HIDE DEF Lost, Excused
<1> QED
  BY <1>1, <1>2, <1>3, LockStart, PTL DEF Spec, LockedStaysLocked
-----------------------------------------------------------------------------
(* The fetched files. *)

VendorInv == LockInv /\ TodoShape /\ TouchShape /\ WrittenShape /\ VendorShape

\* What the invariant says of one command.
Todo(c) ==
  /\ cmd[c].pc \in Fetched => cmd[c].todo \subseteq FilesOf(Section(c), cmd[c].got)
  /\ cmd[c].pc = "prune" => Section(c) = "pkg"
Written(c) ==
  cmd[c].pc \in Fetched /\ ~cmd[c].raced =>
    /\ \A f \in FilesOf(Section(c), cmd[c].got) \ cmd[c].todo : file[f] = cmd[c].got
    /\ cmd[c].pc = "fill" => file[cmd[c].now] = Torn
    /\ cmd[c].pc \in {"prune", "save", "saving"} => cmd[c].todo = {}
Sure(s) == lock[s] # NoPin => \A f \in FilesOf(s, lock[s]) : file[f] = lock[s]

LEMMA Shapes ==
  /\ TodoShape <=> \A c \in Commands : Todo(c)
  /\ WrittenShape <=> \A c \in Commands : Written(c)
  /\ VendorShape <=> \A s \in Sections \ unsure : Sure(s)
  BY DEF TodoShape, WrittenShape, VendorShape, Todo, Written, Sure

LEMMA ShapesAfter ==
  /\ (\A c \in Commands : Todo(c)') => TodoShape'
  /\ (\A c \in Commands : Written(c)') => WrittenShape'
  BY DEF TodoShape, WrittenShape, Todo, Written

\* A command that stays keeps its files to write, and what it has written, as
\* long as nobody else writes the files of its section unseen.
LEMMA OthersKept ==
  ASSUME VendorInv, kind' = kind, NEW d \in Commands, Stays(d),
         \/ \A f \in Files : f[1] = Section(d) => file'[f] = file[f]
         \/ cmd[d].pc \in Fetched => cmd'[d].raced
  PROVE  Todo(d)' /\ Written(d)' /\ (Touched(d)' <=> Touched(d)) /\ Section(d)' = Section(d)
<1>1. Section(d)' = Section(d) /\ Section(d) \in Sections
  BY SectionIs DEF Section, VendorInv, LockInv
<1>2. Todo(d) /\ Written(d)
  BY Shapes DEF VendorInv
<1>3. Todo(d)'
  BY <1>1, <1>2 DEF Todo, Stays
<1>4. Touched(d)' <=> Touched(d)
  BY <1>1 DEF Touched, Stays
<1>5. Written(d)'
  <2> SUFFICES ASSUME cmd'[d].pc \in Fetched, ~cmd'[d].raced
               PROVE  /\ \A f \in FilesOf(Section(d), cmd[d].got) \ cmd[d].todo : file'[f] = cmd[d].got
                      /\ cmd[d].pc = "fill" => file'[cmd[d].now] = Torn
                      /\ cmd[d].pc \in {"prune", "save", "saving"} => cmd[d].todo = {}
    BY <1>1 DEF Written, Stays
  <2>1. /\ cmd[d].pc \in Fetched /\ ~cmd[d].raced
        /\ \A f \in Files : f[1] = Section(d) => file'[f] = file[f]
    BY DEF Stays
  <2>2. \A f \in FilesOf(Section(d), cmd[d].got) : f \in Files /\ f[1] = Section(d)
    BY <1>1, FilesApart
  <2>3. cmd[d].pc = "fill" => cmd[d].now \in FilesOf(Section(d), cmd[d].got)
    BY <1>2, <2>1 DEF Todo, VendorInv, LockInv, AssetTypes, Formed
  <2> QED
    BY <1>2, <2>1, <2>2, <2>3 DEF Written
<1> QED
  BY <1>1, <1>3, <1>4, <1>5

\* The invariant of the steps that leave the files, the lock and the doubts
\* alone, and do not take a command into the steps that write.
LEMMA QuietKeepsVendor ==
  ASSUME VendorInv, NEW c \in Commands, UNCHANGED <<kind, file, lock, unsure>>,
         \A d \in Commands \ {c} : Stays(d),
         \/ cmd'[c].pc \notin Holding
         \/ cmd'[c].pc = "fetch" /\ cmd[c].pc = "check" /\ cmd'[c].raced = cmd[c].raced
         \/ /\ cmd'[c].pc = "saving" /\ cmd[c].pc = "save" /\ cmd'[c].raced = cmd[c].raced
            /\ cmd'[c].todo = cmd[c].todo /\ cmd'[c].got = cmd[c].got
  PROVE  TodoShape' /\ TouchShape' /\ WrittenShape' /\ VendorShape'
<1>1. \A d \in Commands \ {c} : Todo(d)' /\ Written(d)' /\ (Touched(d)' <=> Touched(d))
  BY OthersKept
<1>2. \A d \in Commands : Section(d)' = Section(d)
  BY DEF Section
<1>3. Todo(c) /\ Written(c)
  BY Shapes DEF VendorInv
<1>4. Todo(c)'
  BY <1>2, <1>3 DEF Todo, Holding, Fetched
<1>5. Written(c)'
  BY <1>2, <1>3 DEF Written, Holding, Fetched
<1>6. Touched(c)' => Touched(c)
  BY DEF Touched, Holding
<1>7. TouchShape'
  <2> SUFFICES ASSUME NEW e \in Commands, Touched(e)'
               PROVE  /\ Section(e) \in unsure
                      /\ \A d \in Commands \ {e} : Section(d) = Section(e) /\ cmd'[d].pc \in Holding => cmd'[d].raced
    BY <1>2 DEF TouchShape
  <2>1. /\ Touched(e) /\ Section(e) \in unsure
        /\ \A d \in Commands \ {e} : Section(d) = Section(e) /\ cmd[d].pc \in Holding => cmd[d].raced
    BY <1>1, <1>6 DEF VendorInv, TouchShape
  <2> QED
    BY <2>1 DEF Stays, Holding
<1>8. VendorShape'
  BY DEF VendorInv, VendorShape
<1> QED
  BY <1>1, <1>4, <1>5, <1>7, <1>8, ShapesAfter
\* A pin that writes in its own section, and makes it unsure.
LEMMA WriteKeepsVendor ==
  ASSUME VendorInv, NEW c \in Commands, UNCHANGED <<kind, lock>>, unsure' = unsure \cup {Section(c)},
         \A d \in Commands \ {c} : Stays(d), Disturbs(c, SameSection(c)),
         cmd[c].pc \in Holding, cmd'[c].raced = cmd[c].raced,
         \A f \in Files : f[1] # Section(c) => file'[f] = file[f],
         Todo(c)', Written(c)'
  PROVE  TodoShape' /\ TouchShape' /\ WrittenShape' /\ VendorShape'
<1>1. \A d \in Commands : Section(d)' = Section(d)
  BY DEF Section
<1>2. ASSUME NEW d \in Commands \ {c} PROVE Todo(d)' /\ Written(d)' /\ (Touched(d)' <=> Touched(d))
  <2>1. \/ \A f \in Files : f[1] = Section(d) => file'[f] = file[f]
        \/ cmd[d].pc \in Fetched => cmd'[d].raced
    BY DEF Disturbs, SameSection, Fetched
  <2> QED
    BY <2>1, OthersKept
<1>3. TouchShape'
  <2> SUFFICES ASSUME NEW e \in Commands, Touched(e)'
               PROVE  /\ Section(e) \in unsure'
                      /\ \A d \in Commands \ {e} : Section(d) = Section(e) /\ cmd'[d].pc \in Holding => cmd'[d].raced
    BY <1>1 DEF TouchShape
  <2>1. CASE e = c
    BY <2>1 DEF Disturbs, SameSection, Stays, Holding
  <2>2. CASE e # c
    <3>1. /\ Section(e) \in unsure
          /\ \A d \in Commands \ {e} : Section(d) = Section(e) /\ cmd[d].pc \in Holding => cmd[d].raced
      BY <1>2, <2>2 DEF VendorInv, TouchShape
    <3>2. ASSUME NEW d \in Commands \ {e}, Section(d) = Section(e), cmd'[d].pc \in Holding PROVE cmd'[d].raced
      <4>1. CASE d = c
        BY <3>1, <3>2, <4>1
      <4>2. CASE d # c
        BY <3>1, <3>2, <4>2 DEF Stays
      <4> QED
        BY <4>1, <4>2
    <3> QED
      BY <3>1, <3>2
  <2> QED
    BY <2>1, <2>2
<1>4. VendorShape'
  <2> SUFFICES ASSUME NEW s \in Sections \ unsure', lock[s] # NoPin, NEW f \in FilesOf(s, lock[s])
               PROVE  file'[f] = lock[s]
    BY DEF VendorShape
  <2>1. s \in Sections \ unsure /\ s # Section(c)
    OBVIOUS
  <2>2. file[f] = lock[s]
    BY <2>1 DEF VendorInv, VendorShape
  <2>3. f \in Files /\ f[1] = s
    BY <2>1, FilesApart
  <2> QED
    BY <2>1, <2>2, <2>3
<1> QED
  BY <1>2, <1>3, <1>4, ShapesAfter

\* The steps that write files.
LEMMA WritesKeepVendor ==
  ASSUME VendorInv, NEW c \in Commands, Truncate(c) \/ Fill(c) \/ Prune(c)
  PROVE  TodoShape' /\ TouchShape' /\ WrittenShape' /\ VendorShape'
<1> USE DEF At
<1>t. AssetTypes /\ file \in [Files -> Bodies \cup {Absent, Torn}] /\ Formed(cmd[c])
  BY DEF VendorInv, LockInv, AssetTypes
<1>s. Section(c) \in Sections
  BY <1>t, SectionIs
<1>w. Todo(c) /\ Written(c)
  BY Shapes DEF VendorInv
<1>f. \A f \in FilesOf(Section(c), cmd[c].got) : f \in Files /\ f[1] = Section(c)
  BY <1>s, FilesApart
<1>1. CASE Truncate(c)
  <2>1. /\ Becomes(c, "fill", cmd[c].mem, cmd[c].got, cmd[c].todo, cmd[c].made)
        /\ cmd'[c].raced = cmd[c].raced /\ Disturbs(c, SameSection(c))
    BY <1>1, <1>t, TruncateDoes
  <2>2. PICK g \in cmd[c].todo : cmd'[c].now = g /\ file' = [file EXCEPT ![g] = Torn]
    BY <1>1, <1>t, TruncateDoes
  <2>3. /\ cmd[c].pc = "write" /\ UNCHANGED <<kind, lock>> /\ unsure' = unsure \cup {Section(c)}
    BY <1>1 DEF Truncate, lockVars
  <2>4. Section(c)' = Section(c)
    BY <2>3 DEF Section
  <2>5. g \in Files /\ g[1] = Section(c)
    BY <1>w, <1>f, <2>3 DEF Todo, Fetched
  <2>6. Todo(c)'
    BY <1>w, <2>1, <2>3, <2>4 DEF Todo, Becomes, Fetched
  <2>7. Written(c)'
    BY <1>w, <1>t, <1>f, <2>1, <2>2, <2>3, <2>4, <2>5 DEF Written, Becomes, Fetched
  <2>8. \A f \in Files : f[1] # Section(c) => file'[f] = file[f]
    BY <1>t, <2>2, <2>5
  <2>9. \A d \in Commands \ {c} : Stays(d)
    BY <2>1 DEF Becomes
  <2> QED
    BY <2>1, <2>3, <2>6, <2>7, <2>8, <2>9, WriteKeepsVendor DEF Holding
<1>2. CASE Fill(c)
  <2> DEFINE g == cmd[c].now
  <2>1. /\ Becomes(c, AfterFill(c), cmd[c].mem, cmd[c].got, cmd[c].todo \ {g}, cmd[c].made)
        /\ cmd'[c].raced = cmd[c].raced /\ Disturbs(c, SameSection(c))
    BY <1>2, <1>t, FillDoes
  <2>2. PICK b \in IF file[g] \in {Torn, cmd[c].got} THEN {cmd[c].got} ELSE {cmd[c].got, Torn} :
          file' = [file EXCEPT ![g] = b]
    BY <1>2 DEF Fill
  <2>3. /\ cmd[c].pc = "fill" /\ UNCHANGED <<kind, lock>> /\ unsure' = unsure
    BY <1>2 DEF Fill, lockVars, histVars
  <2>4. Section(c)' = Section(c)
    BY <2>3 DEF Section
  <2>5. g \in cmd[c].todo /\ g \in Files /\ g[1] = Section(c)
    BY <1>w, <1>f, <1>t, <2>3 DEF Todo, Fetched, Formed
  <2>6. Todo(c)'
    BY <1>w, <2>1, <2>3, <2>4 DEF Todo, Becomes, Fetched, AfterFill
  <2>7. ~cmd[c].raced => b = cmd[c].got
    BY <1>w, <2>2, <2>3 DEF Written, Fetched
  <2>8. Written(c)'
    <3> SUFFICES ASSUME ~cmd[c].raced
                 PROVE  /\ \A f \in FilesOf(Section(c), cmd[c].got) \ (cmd[c].todo \ {g}) : file'[f] = cmd[c].got
                        /\ AfterFill(c) # "fill"
                        /\ AfterFill(c) \in {"prune", "save", "saving"} => cmd[c].todo \ {g} = {}
      BY <2>1, <2>4 DEF Written, Becomes
    <3>1. \A f \in FilesOf(Section(c), cmd[c].got) \ (cmd[c].todo \ {g}) : file'[f] = cmd[c].got
      BY <1>w, <1>t, <1>f, <2>2, <2>3, <2>5, <2>7 DEF Written, Fetched
    <3> QED
      BY <3>1 DEF AfterFill
  <2>9. \A f \in Files : f[1] # Section(c) => file'[f] = file[f]
    BY <1>t, <2>2, <2>5
  <2>10. Section(c) \in unsure /\ \A d \in Commands \ {c} : Stays(d)
    BY <2>1, <2>3 DEF Becomes, VendorInv, TouchShape, Touched
  <2>11. unsure' = unsure \cup {Section(c)}
    BY <2>3, <2>10
  <2> QED
    BY <2>1, <2>3, <2>6, <2>8, <2>9, <2>10, <2>11, WriteKeepsVendor DEF Holding
<1>3. CASE Prune(c)
  <2> DEFINE old == IF Pinned(c) = NoPin THEN {} ELSE FilesOf("pkg", Pinned(c)) \ FilesOf("pkg", cmd[c].got)
  <2>1. /\ Becomes(c, "save", cmd[c].mem, cmd[c].got, cmd[c].todo, cmd[c].made)
        /\ cmd'[c].raced = cmd[c].raced /\ Disturbs(c, SameSection(c))
    BY <1>3, <1>t, GotoDoes DEF Prune
  <2>2. file' = [f \in Files |-> IF f \in old THEN Absent ELSE file[f]]
    BY <1>3 DEF Prune
  <2>3. /\ cmd[c].pc = "prune" /\ UNCHANGED <<kind, lock>> /\ unsure' = unsure
    BY <1>3 DEF Prune, lockVars, histVars
  <2>4. Section(c)' = Section(c) /\ Section(c) = "pkg"
    BY <1>w, <2>3 DEF Section, Todo
  <2>5. (\A f \in old : f[1] = Section(c)) /\ old \cap FilesOf(Section(c), cmd[c].got) = {}
    BY <1>s, <2>4, FilesApart
  <2> HIDE DEF old
  <2>6. Todo(c)'
    BY <1>w, <2>1, <2>3, <2>4 DEF Todo, Becomes, Fetched
  <2>7. Written(c)'
    BY <1>w, <1>f, <2>1, <2>2, <2>3, <2>4, <2>5 DEF Written, Becomes, Fetched
  <2>8. \A f \in Files : f[1] # Section(c) => file'[f] = file[f]
    BY <1>t, <2>2, <2>5
  <2>9. Section(c) \in unsure /\ \A d \in Commands \ {c} : Stays(d)
    BY <2>1, <2>3 DEF Becomes, VendorInv, TouchShape, Touched
  <2>10. unsure' = unsure \cup {Section(c)}
    BY <2>3, <2>9
  <2> QED
    BY <2>1, <2>3, <2>6, <2>7, <2>8, <2>9, <2>10, WriteKeepsVendor DEF Holding
<1> QED
  BY <1>1, <1>2, <1>3
\* A pin that reads the lock learns whether another one of its section writes.
LEMMA LoadKeepsVendor ==
  ASSUME VendorInv, NEW c \in Commands, Load(c)
  PROVE  TodoShape' /\ TouchShape' /\ WrittenShape' /\ VendorShape'
<1>1. /\ Becomes(c, "check", lock, cmd[c].got, cmd[c].todo, cmd[c].made)
      /\ cmd'[c].raced <=> \E d \in SameSection(c) : cmd[d].pc \in {"write", "fill", "prune", "save", "saving"}
  BY LoadDoes DEF VendorInv, LockInv
<1>2. cmd[c].pc = "load" /\ UNCHANGED <<kind, file, lock, unsure>>
  BY DEF Load, At, lockVars, treeVars, histVars
<1>3. \A d \in Commands : Section(d)' = Section(d)
  BY <1>2 DEF Section
<1>4. ASSUME NEW d \in Commands \ {c} PROVE Todo(d)' /\ Written(d)' /\ (Touched(d)' <=> Touched(d))
  BY <1>1, <1>2, OthersKept DEF Becomes
<1>5. Todo(c)' /\ Written(c)' /\ ~Touched(c)'
  BY <1>1 DEF Todo, Written, Touched, Becomes, Fetched
<1>6. TouchShape'
  <2> SUFFICES ASSUME NEW e \in Commands, Touched(e)'
               PROVE  /\ Section(e) \in unsure
                      /\ \A d \in Commands \ {e} : Section(d) = Section(e) /\ cmd'[d].pc \in Holding => cmd'[d].raced
    BY <1>2, <1>3 DEF TouchShape
  <2>1. e # c /\ Touched(e)
    BY <1>4, <1>5
  <2>2. /\ Section(e) \in unsure
        /\ \A d \in Commands \ {e} : Section(d) = Section(e) /\ cmd[d].pc \in Holding => cmd[d].raced
    BY <2>1 DEF VendorInv, TouchShape
  <2>3. ASSUME NEW d \in Commands \ {e}, Section(d) = Section(e), cmd'[d].pc \in Holding PROVE cmd'[d].raced
    <3>1. CASE d = c
      BY <1>1, <2>1, <2>3, <3>1 DEF SameSection, Touched
    <3>2. CASE d # c
      BY <1>1, <2>2, <2>3, <3>2 DEF Becomes, Stays
    <3> QED
      BY <3>1, <3>2
  <2> QED
    BY <2>2, <2>3
<1>7. VendorShape'
  BY <1>2 DEF VendorInv, VendorShape
<1> QED
  BY <1>4, <1>5, <1>6, <1>7, ShapesAfter

LEMMA FetchKeepsVendor ==
  ASSUME VendorInv, NEW c \in Commands, Fetch(c)
  PROVE  TodoShape' /\ TouchShape' /\ WrittenShape' /\ VendorShape'
<1>1. /\ Becomes(c, "write", cmd[c].mem, Served(c), FilesOf(Section(c), Served(c)), cmd[c].made)
      /\ cmd'[c].raced = cmd[c].raced
  BY FetchDoes DEF VendorInv, LockInv
<1>2. cmd[c].pc = "fetch" /\ UNCHANGED <<kind, file, lock, unsure>>
  BY DEF Fetch, At, lockVars, treeVars, histVars
<1>3. \A d \in Commands : Section(d)' = Section(d)
  BY <1>2 DEF Section
<1>4. ASSUME NEW d \in Commands \ {c} PROVE Todo(d)' /\ Written(d)' /\ (Touched(d)' <=> Touched(d))
  BY <1>1, <1>2, OthersKept DEF Becomes
<1>5. Todo(c)' /\ Written(c)' /\ ~Touched(c)'
  BY <1>1, <1>3 DEF Todo, Written, Touched, Becomes, Fetched
<1>6. TouchShape'
  <2> SUFFICES ASSUME NEW e \in Commands, Touched(e)'
               PROVE  /\ Section(e) \in unsure
                      /\ \A d \in Commands \ {e} : Section(d) = Section(e) /\ cmd'[d].pc \in Holding => cmd'[d].raced
    BY <1>2, <1>3 DEF TouchShape
  <2>1. e # c /\ Touched(e)
    BY <1>4, <1>5
  <2>2. /\ Section(e) \in unsure
        /\ \A d \in Commands \ {e} : Section(d) = Section(e) /\ cmd[d].pc \in Holding => cmd[d].raced
    BY <2>1 DEF VendorInv, TouchShape
  <2>3. ASSUME NEW d \in Commands \ {e}, Section(d) = Section(e), cmd'[d].pc \in Holding PROVE cmd'[d].raced
    <3>1. CASE d = c
      BY <1>1, <1>2, <2>1, <2>2, <2>3, <3>1 DEF Holding
    <3>2. CASE d # c
      BY <1>1, <2>2, <2>3, <3>2 DEF Becomes, Stays
    <3> QED
      BY <3>1, <3>2
  <2> QED
    BY <2>2, <2>3
<1>7. VendorShape'
  BY <1>2 DEF VendorInv, VendorShape
<1> QED
  BY <1>4, <1>5, <1>6, <1>7, ShapesAfter

\* A command that ends its pin sure of its section was alone in it.
LEMMA EndKeepsVendor ==
  ASSUME VendorInv, NEW c \in Commands, UNCHANGED <<kind, file>>, cmd[c].pc \in Holding, cmd'[c].pc \notin Holding,
         \A d \in Commands \ {c} : Stays(d),
         \A s \in Sections : s \in unsure /\ s \notin unsure' => s = Section(c) /\ ~cmd[c].raced,
         VendorShape'
  PROVE  TodoShape' /\ TouchShape' /\ WrittenShape' /\ VendorShape'
<1>1. \A d \in Commands : Section(d)' = Section(d)
  BY DEF Section
<1>2. ASSUME NEW d \in Commands \ {c} PROVE Todo(d)' /\ Written(d)' /\ (Touched(d)' <=> Touched(d))
  BY OthersKept
<1>3. Todo(c)' /\ Written(c)' /\ ~Touched(c)'
  BY DEF Todo, Written, Touched, Holding, Fetched
<1>4. TouchShape'
  <2> SUFFICES ASSUME NEW e \in Commands, Touched(e)'
               PROVE  /\ Section(e) \in unsure'
                      /\ \A d \in Commands \ {e} : Section(d) = Section(e) /\ cmd'[d].pc \in Holding => cmd'[d].raced
    BY <1>1 DEF TouchShape
  <2>1. e # c /\ Touched(e)
    BY <1>2, <1>3
  <2>2. /\ Section(e) \in unsure
        /\ \A d \in Commands \ {e} : Section(d) = Section(e) /\ cmd[d].pc \in Holding => cmd[d].raced
    BY <2>1 DEF VendorInv, TouchShape
  <2>3. Section(e) \in unsure'
    BY <2>1, <2>2, SectionIs DEF VendorInv, LockInv
  <2>4. \A d \in Commands \ {e} : Section(d) = Section(e) /\ cmd'[d].pc \in Holding => cmd'[d].raced
    BY <2>2 DEF Stays
  <2> QED
    BY <2>3, <2>4
<1> QED
  BY <1>2, <1>3, <1>4, ShapesAfter

LEMMA AlreadyKeepsVendor ==
  ASSUME VendorInv, NEW c \in Commands, AlreadyPinned(c)
  PROVE  TodoShape' /\ TouchShape' /\ WrittenShape' /\ VendorShape'
<1>1. cmd'[c].pc \in {"idle", "css"} /\ \A d \in Commands \ {c} : Stays(d)
  BY DoneDoes DEF AlreadyPinned, Step, VendorInv, LockInv
<1>2. /\ cmd[c].pc = "check" /\ UNCHANGED <<kind, file, lock>>
      /\ unsure' = IF Section(c) = "pkg" \/ cmd[c].raced THEN unsure ELSE unsure \ {Section(c)}
  BY DEF AlreadyPinned, At, lockVars, treeVars
<1>3. VendorShape'
  <2> SUFFICES ASSUME NEW s \in Sections \ unsure', lock[s] # NoPin PROVE \A f \in FilesOf(s, lock[s]) : file[f] = lock[s]
    BY <1>2 DEF VendorShape
  <2>1. CASE s \notin unsure
    BY <2>1 DEF VendorInv, VendorShape
  <2>2. CASE s \in unsure
    <3>1. s = Section(c) /\ s # "pkg" /\ ~cmd[c].raced
      BY <1>2, <2>2
    <3>2. Pinned(c) = lock[s]
      BY <1>2, <3>1 DEF VendorInv, LockInv, LockShape, Holding, Pinned
    <3> QED
      BY <3>1, <3>2 DEF AlreadyPinned, Matches
  <2> QED
    BY <2>1, <2>2
<1> QED
  BY <1>1, <1>2, <1>3, EndKeepsVendor DEF Holding

LEMMA SaveKeepsVendor ==
  ASSUME VendorInv, NEW c \in Commands, SaveWrites(c)
  PROVE  TodoShape' /\ TouchShape' /\ WrittenShape' /\ VendorShape'
<1>1. cmd'[c].pc \in {"idle", "css"} /\ \A d \in Commands \ {c} : Stays(d)
  BY DoneDoes DEF SaveWrites, VendorInv, LockInv
<1>2. /\ cmd[c].pc = "saving" /\ UNCHANGED <<kind, file>>
      /\ lock' = [cmd[c].mem EXCEPT ![Section(c)] = cmd[c].got]
      /\ unsure' = IF cmd[c].raced THEN unsure \cup {Section(c)} \cup {s \in Sections : cmd[c].mem[s] # lock[s]}
                   ELSE unsure \ {Section(c)}
  BY DEF SaveWrites, At, treeVars
<1>3. cmd[c].mem \in Pins /\ Section(c) \in Sections
  BY SectionIs DEF VendorInv, LockInv, AssetTypes, Commanding
<1>4. VendorShape'
  <2> SUFFICES ASSUME NEW s \in Sections \ unsure', lock'[s] # NoPin
               PROVE  \A f \in FilesOf(s, lock'[s]) : file[f] = lock'[s]
    BY <1>2 DEF VendorShape
  <2>1. CASE s = Section(c)
    <3>1. ~cmd[c].raced /\ lock'[s] = cmd[c].got
      BY <1>2, <1>3, <2>1 DEF Pins
    <3>2. Written(c)
      BY Shapes DEF VendorInv
    <3> QED
      BY <1>2, <2>1, <3>1, <3>2 DEF Written, Fetched
  <2>2. CASE s # Section(c)
    <3>1. lock'[s] = cmd[c].mem[s]
      BY <1>2, <1>3, <2>2 DEF Pins
    <3>2. cmd[c].mem[s] = lock[s] /\ s \notin unsure
      BY <1>2, <2>2 DEF VendorInv, LockInv, LockShape, Holding
    <3> QED
      BY <3>1, <3>2 DEF VendorInv, VendorShape
  <2> QED
    BY <2>1, <2>2
<1>5. \A s \in Sections : s \in unsure /\ s \notin unsure' => s = Section(c) /\ ~cmd[c].raced
  BY <1>2
<1> QED
  BY <1>1, <1>2, <1>4, <1>5, EndKeepsVendor DEF Holding

\* The steps that touch neither the fetched files nor the lock.
LEMMA QuietSteps ==
  ASSUME VendorInv, NEW c \in Commands,
         Start(c) \/ NotPinned(c) \/ SaveOpens(c) \/ Compile(c) \/ Bundle(c) \/ AssetOpens(c) \/ AssetFills(c)
           \/ ManifestOpens(c) \/ ManifestFills(c) \/ Dies(c)
  PROVE  TodoShape' /\ TouchShape' /\ WrittenShape' /\ VendorShape'
<1> USE DEF Step, At, lockVars, treeVars, histVars, Becomes, Holding
<1>t. AssetTypes
  BY DEF VendorInv, LockInv
<1>1. CASE Start(c)
  BY <1>1, <1>t, StartDoes, QuietKeepsVendor DEF Start
<1>2. CASE NotPinned(c)
  BY <1>2, <1>t, GotoDoes, QuietKeepsVendor DEF NotPinned
<1>3. CASE SaveOpens(c)
  BY <1>3, <1>t, GotoDoes, QuietKeepsVendor DEF SaveOpens
<1>4. CASE Compile(c) \/ Bundle(c)
  BY <1>4, <1>t, BuildReads, QuietKeepsVendor DEF Compile, Bundle
<1>5. CASE AssetOpens(c) \/ ManifestOpens(c)
  BY <1>5, <1>t, GotoDoes, QuietKeepsVendor DEF AssetOpens, ManifestOpens
<1>6. CASE AssetFills(c)
  BY <1>6, <1>t, AssetFillsDoes, QuietKeepsVendor DEF AssetFills
<1>7. CASE ManifestFills(c) \/ Dies(c)
  BY <1>7, <1>t, IdleDoes, FormedIdle, QuietKeepsVendor DEF ManifestFills, Dies
<1> QED
  BY <1>1, <1>2, <1>3, <1>4, <1>5, <1>6, <1>7

\* The files are the ones that the lock names, in every section whose last
\* writer was alone and was not interrupted: for any number of commands and
\* addresses, with kills, torn files and contents that move.
THEOREM VendorFollowsLock == Spec => []VendorAsLocked
<1>1. Init => VendorInv
  <2> SUFFICES ASSUME Init PROVE TodoShape /\ TouchShape /\ WrittenShape /\ VendorShape
    BY LockStart DEF VendorInv
  <2>1. \A c \in Commands : cmd[c].pc = "idle"
    BY FormedIdle DEF Init
  <2>2. TodoShape /\ TouchShape /\ WrittenShape
    BY <2>1 DEF TodoShape, TouchShape, WrittenShape, Touched, Fetched
  <2>3. VendorShape
    BY DEF Init, VendorShape, FilesOf, Files, Sections
  <2> QED
    BY <2>2, <2>3
<1>2. VendorInv /\ [Next]_vars => VendorInv'
  <2> SUFFICES ASSUME VendorInv, [Next]_vars PROVE TodoShape' /\ TouchShape' /\ WrittenShape' /\ VendorShape'
    BY TypesStep, LockStep DEF VendorInv, LockInv
  <2>1. ASSUME NEW u \in Moving, Republish(u) PROVE TodoShape' /\ TouchShape' /\ WrittenShape' /\ VendorShape'
    BY <2>1 DEF Republish, lockVars, treeVars, histVars, VendorInv, TodoShape, TouchShape, Touched, WrittenShape,
                VendorShape, Section
  <2>2. CASE DeleteLock
    <3>1. \A s \in Sections : lock'[s] = NoPin
      BY <2>2 DEF DeleteLock
    <3>2. VendorShape'
      BY <3>1 DEF VendorShape
    <3>3. TodoShape' /\ TouchShape' /\ WrittenShape'
      BY <2>2 DEF DeleteLock, treeVars, histVars, VendorInv, TodoShape, TouchShape, Touched, WrittenShape, Section
    <3> QED
      BY <3>2, <3>3
  <2>3. CASE UNCHANGED vars
    BY <2>3 DEF vars, lockVars, treeVars, histVars, VendorInv, TodoShape, TouchShape, Touched, WrittenShape,
                VendorShape, Section
  <2> QED
    BY <2>1, <2>2, <2>3, QuietSteps, LoadKeepsVendor, AlreadyKeepsVendor, FetchKeepsVendor, WritesKeepVendor,
       SaveKeepsVendor DEF Next
<1>3. VendorInv => VendorAsLocked
  BY DEF VendorInv, VendorShape, VendorAsLocked
<1> QED
  BY <1>1, <1>2, <1>3, PTL DEF Spec
=============================================================================
