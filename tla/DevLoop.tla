------------------------------- MODULE DevLoop ------------------------------
(***************************************************************************)
(* The development loop of `avero dev` (cli/dev): the watcher that collects*)
(* the saved files, the loop that answers a change (Server.Changed), the   *)
(* proxy gate that holds requests over a restart, the child process, and   *)
(* the reload channel that tells the open pages.                           *)
(*                                                                         *)
(* A file is known by the output it belongs to: the binary (go, templ, sql,*)
(* json), the stylesheet or the script bundle.  The two asset builds both  *)
(* run the whole asset pipeline.  No version is counted: the model keeps   *)
(* which kinds were saved since the clock reading, the read of the tree    *)
(* and the build that matter.                                              *)
(*                                                                         *)
(* External: the file system and its notifications, the compiler, the      *)
(* child, and the browser with the reload client.  The front end of the    *)
(* external tier and the end of the loop by a signal are left out.         *)
(***************************************************************************)
EXTENDS Naturals, Sequences, SequencesExt

CONSTANTS
  Kinds,  \* the kinds of source file that are saved
  Tabs,   \* the pages that the browser shows
  Cap,    \* the events that one reload channel holds
  Scenes  \* who is there: the kinds that are edited and the pages that are open

ASSUME DevAssumption ==
  /\ Kinds \subseteq {"go", "css", "script"}
  /\ Scenes \subseteq [edited : SUBSET Kinds, open : SUBSET Tabs]
  /\ Cap \in Nat \ {0}

VARIABLES
  scene,     \* the one of Scenes that this behaviour shows
  notes,     \* the notifications on their way to drain
  pending,   \* watcher.pending
  token,     \* the one slot of watcher.changes
  loop,      \* the step of the loop
  booting,   \* Run has not started its watcher yet
  ears,      \* the watcher: not open, open, or deaf to notifications
  files,     \* the change that the loop answers
  fresh,     \* the kinds saved since the loop read its clock
  lag,       \* the kinds saved since a build read the tree
  stale,     \* the kinds whose last save is in no output that is served
  unheard,   \* history: the kinds whose last save gave no notification and came
             \* when no build ran, so that no sweep follows it
  excused,   \* history: the kinds whose last save met a fault, or shared a
             \* change with a Go file
  held,      \* proxy.gate is a channel
  child,     \* the child process
  tab,       \* what each page shows, or where its request is
  scripted,  \* the pages that run the reload client
  channel,   \* the reload channel of each page
  missed,    \* history: the pages that a reload event did not reach
  safe       \* history: the requests that the end of a restart let through, and
             \* that have not been made anew, while the child that came up lives

watchVars == <<scene, notes, pending, token, ears>>
treeVars == <<fresh, lag, stale, unheard, excused>>
loopVars == <<loop, booting, files>>
pageVars == <<tab, scripted, channel, missed, safe>>
devVars == <<watchVars, treeVars, loopVars, held, child, pageVars>>

Steps ==
  {"read", "build", "stop", "launch", "health", "announce", "assetsRead", "assets",
   "sweep", "next", "debounce", "stamp", "unwatched", "over"}

\* The loop is inside Changed.
Changing == loop \in {"read", "build", "stop", "launch", "health", "announce", "assetsRead", "assets"}

Events == {"reload", "script", "css", "fault"}
Closed == <<"closed">>
Shown == {"current", "old", "error"}

TypeOK ==
  /\ scene \in Scenes
  /\ notes \subseteq Kinds
  /\ pending \subseteq Kinds
  /\ token \in BOOLEAN
  /\ loop \in Steps
  /\ booting \in BOOLEAN
  /\ ears \in {"none", "open", "deaf"}
  /\ files \subseteq Kinds
  /\ fresh \subseteq Kinds
  /\ lag \subseteq Kinds
  /\ stale \subseteq Kinds
  /\ unheard \subseteq Kinds
  /\ excused \subseteq Kinds
  /\ held \in BOOLEAN
  /\ child \in {"none", "starting", "up", "dead"}
  /\ tab \in [Tabs -> {"blank", "asking", "waiting", "through", "inside"} \cup Shown]
  /\ scripted \subseteq Tabs
  /\ \A t \in Tabs : channel[t] = Closed \/ (channel[t] \in Seq(Events) /\ Len(channel[t]) <= Cap)
  /\ missed \subseteq Tabs
  /\ safe \subseteq Tabs

\* Run builds before it watches.
DevInit ==
  /\ scene \in Scenes
  /\ notes = {}
  /\ pending = {}
  /\ token = FALSE
  /\ loop = "read"
  /\ booting = TRUE
  /\ ears = "none"
  /\ files = {}
  /\ fresh = {}
  /\ lag = {}
  /\ stale = {}
  /\ unheard = {}
  /\ excused = {}
  /\ held = FALSE
  /\ child = "none"
  /\ tab = [t \in Tabs |-> "blank"]
  /\ scripted = {}
  /\ channel = [t \in Tabs |-> Closed]
  /\ missed = {}
  /\ safe = {}

-----------------------------------------------------------------------------
(* The tree and the watcher. *)

\* A save of the kinds K raised no notification.  The sweep after a build finds
\* it all the same.
Missed(K) == unheard' = unheard \cup (IF Changing THEN K \ fresh' ELSE K)

\* External: an editor, or templ, writes a file.  The notification may be lost:
\* in the library while a build runs, as the comment of sweep says, and at any
\* time when the file lies in a new directory, which drain adds to the watcher
\* without a look at what it holds.
Save(k) ==
  /\ k \in scene.edited
  /\ loop # "over"
  /\ stale' = stale \cup {k}
  /\ lag' = lag \cup {k}
  /\ fresh' = IF booting THEN fresh ELSE fresh \cup {k}
  /\ \/ ears = "open" /\ notes' = notes \cup {k} /\ unheard' = unheard \ {k}
     \/ UNCHANGED notes /\ Missed({k})
  /\ excused' = excused \ {k}
  /\ UNCHANGED <<scene, pending, token, ears, loopVars, held, child, pageVars>>

\* External: the library reports a fault, such as an overflow of its queue.
\* drain reads inner.Events alone, so the library waits for a reader of
\* inner.Errors and delivers nothing any more.
Deafen ==
  /\ ears = "open"
  /\ ears' = "deaf"
  /\ notes' = {}
  /\ fresh' = fresh
  /\ Missed(notes)
  /\ UNCHANGED <<scene, pending, token, lag, stale, excused, loopVars, held, child, pageVars>>

\* drain records the file and fills the slot when it is free.
Drain(k) ==
  /\ k \in notes
  /\ notes' = notes \ {k}
  /\ pending' = pending \cup {k}
  /\ token' = TRUE
  /\ UNCHANGED <<scene, ears, treeVars, loopVars, held, child, pageVars>>

\* next wakes.
NextWakes ==
  /\ loop = "next"
  /\ token
  /\ token' = FALSE
  /\ loop' = "debounce"
  /\ UNCHANGED <<scene, notes, pending, ears, treeVars, booting, files, held, child, pageVars>>

\* After the debounce next takes the files.
Take ==
  /\ loop = "debounce"
  /\ files' = pending
  /\ pending' = {}
  /\ loop' = IF pending = {} THEN "next" ELSE "stamp"
  /\ UNCHANGED <<scene, notes, token, ears, treeVars, booting, held, child, pageVars>>

-----------------------------------------------------------------------------
(* The proxy gate and the reload channel. *)

\* release: the requests that wait at the gate go on.
Release ==
  /\ held' = FALSE
  /\ tab' = [t \in Tabs |-> IF tab[t] = "waiting" THEN "through" ELSE tab[t]]

\* send skips a channel that is full.
Send(e) ==
  LET open == {t \in Tabs : channel[t] # Closed /\ Len(channel[t]) < Cap}
  IN  /\ channel' = [t \in Tabs |-> IF t \in open THEN Append(channel[t], e) ELSE channel[t]]
      /\ missed' = IF e = "reload" THEN missed \cup {t \in Tabs \ open : tab[t] \in Shown} ELSE missed

-----------------------------------------------------------------------------
(* Server.Changed. *)

\* The loop reads its clock and classifies the change: a Go change wins, and
\* holds the gate.
Stamp ==
  /\ loop = "stamp"
  /\ fresh' = {}
  /\ IF "go" \in files
     THEN /\ loop' = "read"
          /\ held' = TRUE
          /\ excused' = excused \cup (files \ {"go"})
     ELSE /\ loop' = "assetsRead"
          /\ UNCHANGED <<held, excused>>
  /\ UNCHANGED <<watchVars, lag, stale, unheard, booting, files, child, pageVars>>

\* A change that fails ends there, and the first one ends Run.
Fails ==
  /\ loop' = IF booting THEN "over" ELSE "sweep"
  /\ excused' = excused \cup (files \ fresh)

\* The generators and the compiler read the tree.
Read ==
  /\ loop = "read"
  /\ lag' = lag \ {"go"}
  /\ loop' = "build"
  /\ UNCHANGED <<watchVars, fresh, stale, unheard, excused, booting, files, held, child, pageVars>>

Built ==
  /\ loop = "build"
  /\ loop' = IF booting THEN "launch" ELSE "stop"
  /\ UNCHANGED <<watchVars, treeVars, booting, files, held, child, pageVars>>

\* A build that fails leaves the old child in place.
BuildFails ==
  /\ loop = "build"
  /\ Fails
  /\ Release
  /\ Send("fault")
  /\ UNCHANGED <<watchVars, fresh, lag, stale, unheard, booting, files, child, scripted, safe>>

\* The end of a child cuts the requests inside it.
ChildEnds(c) ==
  /\ child' = c
  /\ tab' = [t \in Tabs |-> IF tab[t] = "inside" THEN "error" ELSE IF tab[t] = "current" THEN "old" ELSE tab[t]]
  /\ safe' = {}

Stop ==
  /\ loop = "stop"
  /\ ChildEnds("none")
  /\ loop' = "launch"
  /\ UNCHANGED <<watchVars, treeVars, booting, files, held, scripted, channel, missed>>

\* Mutant: the gate opens when the process is there, not when it answers.
LaunchReleases ==
  /\ loop = "launch"
  /\ child' = "starting"
  /\ loop' = "health"
  /\ Release
  /\ safe' = {t \in Tabs : tab[t] = "waiting"}
  /\ UNCHANGED <<watchVars, treeVars, booting, files, scripted, channel, missed>>

Launch ==
  /\ loop = "launch"
  /\ child' = "starting"
  /\ loop' = "health"
  /\ UNCHANGED <<watchVars, treeVars, booting, files, held, pageVars>>

\* The process does not start, ends, or does not answer in StartTimeout.
StartFails ==
  /\ \/ loop = "launch"
     \/ loop = "health" /\ child \in {"dead", "starting"}
  /\ Fails
  /\ Release
  /\ UNCHANGED <<watchVars, fresh, lag, stale, unheard, booting, files, child, scripted, channel, missed, safe>>

\* /healthz answers: the gate opens.  The first time Run goes on to its watcher;
\* one that does not open leaves the proxy and the child without a loop.
Healthy ==
  /\ loop = "health"
  /\ child = "up"
  /\ stale' = IF "go" \in lag THEN stale ELSE stale \ {"go"}
  /\ Release
  /\ safe' = {t \in Tabs : tab[t] = "waiting"}
  /\ booting' = FALSE
  /\ IF booting
     THEN \/ loop' = "next" /\ ears' = "open"
          \/ loop' = "unwatched" /\ UNCHANGED ears
     ELSE loop' = "announce" /\ UNCHANGED ears
  /\ UNCHANGED <<scene, notes, pending, token, fresh, lag, unheard, excused, files, child, scripted, channel, missed>>

\* Mutant: the pages are told of a fault only.
AnnounceNothing ==
  /\ loop = "announce"
  /\ loop' = "sweep"
  /\ UNCHANGED <<watchVars, treeVars, booting, files, held, child, pageVars>>

Announce ==
  /\ loop = "announce"
  /\ Send("reload")
  /\ loop' = "sweep"
  /\ UNCHANGED <<watchVars, treeVars, booting, files, held, child, tab, scripted, safe>>

AssetKinds == {"css", "script"}

AssetsRead ==
  /\ loop = "assetsRead"
  /\ lag' = lag \ AssetKinds
  /\ loop' = "assets"
  /\ UNCHANGED <<watchVars, fresh, stale, unheard, excused, booting, files, held, child, pageVars>>

AssetsBuilt ==
  /\ loop = "assets"
  /\ stale' = stale \ (AssetKinds \ lag)
  /\ Send(IF "script" \in files THEN "script" ELSE "css")
  /\ loop' = "sweep"
  /\ UNCHANGED <<watchVars, fresh, lag, unheard, excused, booting, files, held, child, tab, scripted, safe>>

AssetsFail ==
  /\ loop = "assets"
  /\ Fails
  /\ Send("fault")
  /\ UNCHANGED <<watchVars, fresh, lag, stale, unheard, booting, files, held, child, tab, scripted, safe>>

\* Mutant: the loop goes back to the notifications.
SweepSkipped ==
  /\ loop = "sweep"
  /\ files' = {}
  /\ loop' = "next"
  /\ UNCHANGED <<watchVars, treeVars, booting, held, child, pageVars>>

\* sweep finds the files that were saved since the clock was read.
Sweep ==
  /\ loop = "sweep"
  /\ files' = fresh
  /\ loop' = IF fresh = {} THEN "next" ELSE "stamp"
  /\ UNCHANGED <<watchVars, treeVars, booting, held, child, pageVars>>

LoopStep ==
  \/ NextWakes \/ Take \/ Stamp
  \/ Read \/ Built \/ BuildFails \/ Stop \/ Launch \/ StartFails \/ Healthy \/ Announce
  \/ AssetsRead \/ AssetsBuilt \/ AssetsFail
  \/ Sweep

-----------------------------------------------------------------------------
(* The child and the browser. *)

\* External: a child that starts answers.
ChildAnswers ==
  /\ child = "starting"
  /\ child' = "up"
  /\ UNCHANGED <<watchVars, treeVars, loopVars, held, pageVars>>

\* External: the child ends by itself.
ChildDies ==
  /\ child \in {"starting", "up"}
  /\ loop # "over"
  /\ ChildEnds("dead")
  /\ UNCHANGED <<watchVars, treeVars, loopVars, held, scripted, channel, missed>>

\* External: the browser asks for the page.  A page that is loaded anew drops
\* its client and its channel.
Ask(t) ==
  /\ tab' = [tab EXCEPT ![t] = "asking"]
  /\ missed' = missed \ {t}
  /\ safe' = safe \ {t}

LoadAnew(t) ==
  /\ Ask(t)
  /\ scripted' = scripted \ {t}
  /\ channel' = [channel EXCEPT ![t] = Closed]

Load(t) ==
  /\ t \in scene.open
  /\ ~booting
  /\ tab[t] \in Shown \cup {"blank"}
  /\ LoadAnew(t)
  /\ UNCHANGED <<watchVars, treeVars, loopVars, held, child>>

\* ServeHTTP of the proxy reads the gate.
PassGate(t) ==
  /\ tab[t] = "asking"
  /\ tab' = [tab EXCEPT ![t] = IF held THEN "waiting" ELSE "through"]
  /\ UNCHANGED <<watchVars, treeVars, loopVars, held, child, scripted, channel, missed, safe>>

\* RequestWait is over.
WaitEnds(t) ==
  /\ tab[t] = "waiting"
  /\ tab' = [tab EXCEPT ![t] = "through"]
  /\ UNCHANGED <<watchVars, treeVars, loopVars, held, child, scripted, channel, missed, safe>>

\* The reverse proxy reaches the child, or answers 502.
Forward(t) ==
  /\ tab[t] = "through"
  /\ tab' = [tab EXCEPT ![t] = IF child = "up" THEN "inside" ELSE "error"]
  /\ UNCHANGED <<watchVars, treeVars, loopVars, held, child, scripted, channel, missed, safe>>

\* The child answers, and modify adds the client to the page.
Answer(t) ==
  /\ tab[t] = "inside"
  /\ tab' = [tab EXCEPT ![t] = "current"]
  /\ scripted' = scripted \cup {t}
  /\ UNCHANGED <<watchVars, treeVars, loopVars, held, child, channel, missed, safe>>

\* The client opens its channel, and add registers it.
Connect(t) ==
  /\ t \in scripted
  /\ channel[t] = Closed
  /\ channel' = [channel EXCEPT ![t] = <<>>]
  /\ UNCHANGED <<watchVars, treeVars, loopVars, held, child, tab, scripted, missed, safe>>

\* The connection breaks with the events that it still carries.
Disconnect(t) ==
  /\ channel[t] # Closed
  /\ channel' = [channel EXCEPT ![t] = Closed]
  /\ missed' = IF "reload" \in ToSet(channel[t]) THEN missed \cup {t} ELSE missed
  /\ UNCHANGED <<watchVars, treeVars, loopVars, held, child, tab, scripted, safe>>

\* The client takes an event: reload fetches the page and keeps the client,
\* script loads it anew.
Receive(t) ==
  /\ channel[t] \notin {Closed, <<>>}
  /\ tab[t] \in Shown
  /\ CASE Head(channel[t]) = "reload" ->
            Ask(t) /\ channel' = [channel EXCEPT ![t] = Tail(@)] /\ UNCHANGED scripted
       [] Head(channel[t]) = "script" -> LoadAnew(t)
       [] OTHER -> channel' = [channel EXCEPT ![t] = Tail(@)] /\ UNCHANGED <<tab, scripted, missed, safe>>
  /\ UNCHANGED <<watchVars, treeVars, loopVars, held, child>>

\* The request of a page, the opening of its channel, and the client are
\* tasks of their own.
Request(t) == PassGate(t) \/ Forward(t) \/ Answer(t)
PageStep(t) == Request(t) \/ Connect(t) \/ Receive(t)

DevNext ==
  \/ Deafen \/ \E k \in Kinds : Save(k) \/ Drain(k)
  \/ LoopStep
  \/ ChildAnswers \/ ChildDies
  \/ \E t \in Tabs : Load(t) \/ WaitEnds(t) \/ Disconnect(t) \/ PageStep(t)
  \/ loop = "over" /\ UNCHANGED devVars

DevSpec == DevInit /\ [][DevNext]_devVars

\* The goroutines of the loop, of drain and of the proxy run, a build ends, a
\* child starts or ends, and the browser goes on.  A wait at the gate has its
\* timer, which the properties do not need.
FairSpec ==
  /\ DevSpec
  /\ WF_devVars(LoopStep)
  /\ WF_devVars(ChildAnswers)
  /\ \A k \in Kinds : WF_devVars(Drain(k))
  /\ \A t \in Tabs : WF_devVars(Request(t)) /\ WF_devVars(Connect(t)) /\ WF_devVars(Receive(t))

-----------------------------------------------------------------------------
(* Properties. *)

\* A request that a healthy restart lets go on from the gate reaches the new
\* process: it is on its way to it, inside of it or answered, as long as that
\* process lives, however the restart, the timers and other requests interleave.
\* A request that goes on because its own timer is over, in the middle of the
\* restart, may be answered 502, and so may one whose process dies or is
\* stopped by the next change before it answers.
HeldRequestsAnswered == \A t \in safe : child = "up" /\ tab[t] \in {"through", "inside", "current"}

\* Under FairSpec: the gate never stays held, whatever fails.
GateOpens == held ~> ~held

\* The editing ends.
Quiet == <>[][\A k \in Kinds : ~Save(k)]_devVars

\* Under FairSpec: the last save of a file reaches what is served if the watcher
\* was told of it, or if it came while a build ran, told or not; and no failure
\* leaves the gate held.  What the code loses is left out by name.  unheard: a
\* save before the watcher opened, after it went deaf, without a watcher, or in
\* a directory that it does not read yet, when no build ran.  excused: a save
\* whose build or start failed, or that shared a change with a Go file.
EditsReach == GateOpens /\ (Quiet => <>[](stale \subseteq unheard \cup excused))

\* Under FairSpec: a page that runs the client follows the last restart, unless
\* its channel was closed or full when the event was sent.
PagesFollow ==
  Quiet => \A t \in Tabs :
    []<>(tab[t] \notin {"old", "error"} \/ t \in missed \/ t \notin scripted \/ child # "up" \/ "go" \in stale \cup excused)
=============================================================================
