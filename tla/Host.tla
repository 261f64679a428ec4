-------------------------------- MODULE Host --------------------------------
(***************************************************************************)
(* The application host (host/host.go, host/ready.go): one goroutine runs  *)
(* App.Run, the net/http server runs one goroutine per request, and a      *)
(* signal, a failing listener and the shutdown deadline strike at any      *)
(* time.  The model keeps every shared cell of App (open, draining,        *)
(* inFlight, idle, the serving channel) and the order in which Run and the *)
(* wrapper track read and write them.                                      *)
(*                                                                         *)
(* A step of the model is one access to a shared cell.  Two accesses share *)
(* a step only when no other goroutine can tell: MarkIdle loads draining   *)
(* and closes idle, because draining never goes back to false.             *)
(*                                                                         *)
(* net/http is external: Accept, NetShutdown and Close say what the host   *)
(* relies on.  A request counts as accepted when the server has read its   *)
(* header; idle connections and unread headers are left out.               *)
(***************************************************************************)
EXTENDS Naturals, FiniteSets

CONSTANTS
  N,              \* the number of components, registered in the order 1 .. N
  Checks,         \* the boot checks
  MigrateOnBoot,  \* MIGRATE_ON_BOOT is true and a migrator is set
  Requests,       \* the requests that clients may send
  Probes          \* the requests that go to /readyz

ASSUME HostAssumption ==
  /\ N \in Nat
  /\ MigrateOnBoot \in BOOLEAN
  /\ IsFiniteSet(Requests)
  /\ Probes \subseteq Requests

VARIABLES
  pc,        \* the step of Run
  cur,       \* the index of the component loop; started holds 1 .. cur - 1
  comp,      \* the life of each component
  faults,    \* the faults joined in the error that Run returns
  failed,    \* history: what did fail
  ran,       \* App.ran
  open,      \* App.open, the readiness gate
  draining,  \* App.draining
  inFlight,  \* App.inFlight
  idle,      \* App.idle is closed
  serving,   \* the channel of serve: what Serve returned
  listener,  \* the listener of the server
  done,      \* the context of Run is done
  grace,     \* the deadline of shutdown
  warned,    \* the drain logged that it cut requests
  at,        \* the stage of each request goroutine
  conn,      \* the connection of each request, seen from the client
  code,      \* the status that a probe answered
  late       \* history: the requests that arrived after the gate closed

mainVars == <<pc, cur, comp, faults, failed, ran, open>>
drainVars == <<draining, inFlight, idle>>
netVars == <<serving, listener, done, grace, warned>>
reqVars == <<at, conn, code, late>>
vars == <<mainVars, drainVars, netVars, reqVars>>

-----------------------------------------------------------------------------

Components == 1 .. N

\* The stages between Add(1) and Add(-1) of track.
Counted == {"inside", "probing", "answered"}
Stages == Counted \cup {"absent", "accepted", "zeroed", "left", "served"}

\* The requests inside a handler.
Inside == {r \in Requests : at[r] \in Counted}

\* The requests whose client holds an open connection and waits.
Waiting == {r \in Requests : conn[r] = "open"}

\* What Run may report, one tag per Fault.
FaultTags ==
  (({"check"} \X Checks) \cup ({"start", "stop"} \X Components)) \cup {<<"setup">>, <<"migrate">>, <<"bind">>, <<"serve">>}

MainSteps ==
  {"init", "checks", "migrate", "bind", "start", "running", "shutdown",
   "drainLoad", "drainSelect", "netShutdown", "stop", "returned", "crashed"}

\* Run has passed step 7 or a failed start, so the shutdown is on its way.
Closing == pc \in {"shutdown", "drainLoad", "drainSelect", "netShutdown", "stop"}

TypeOK ==
  /\ pc \in MainSteps
  /\ cur \in 1 .. N + 1
  /\ comp \in [Components -> {"new", "up", "failed", "down"}]
  /\ faults \subseteq FaultTags
  /\ failed \subseteq FaultTags
  /\ ran \in BOOLEAN
  /\ open \in BOOLEAN
  /\ draining \in BOOLEAN
  /\ inFlight \in Nat
  /\ idle \in BOOLEAN
  /\ serving \in {"empty", "closed", "fault"}
  /\ listener \in {"unbound", "open", "closed"}
  /\ done \in BOOLEAN
  /\ grace \in {"off", "ticking", "expired"}
  /\ warned \in BOOLEAN
  /\ at \in [Requests -> Stages]
  /\ conn \in [Requests -> {"none", "open", "cut", "closed"}]
  /\ code \in [Requests -> {0, 200, 503}]
  /\ late \subseteq Requests

Init ==
  /\ pc = "init"
  /\ cur = 1
  /\ comp = [i \in Components |-> "new"]
  /\ faults = {}
  /\ failed = {}
  /\ ran = FALSE
  /\ open = FALSE
  /\ draining = FALSE
  /\ inFlight = 0
  /\ idle = FALSE
  /\ serving = "empty"
  /\ listener = "unbound"
  /\ done = FALSE
  /\ grace = "off"
  /\ warned = FALSE
  /\ at = [r \in Requests |-> "absent"]
  /\ conn = [r \in Requests |-> "none"]
  /\ code = [r \in Requests |-> 0]
  /\ late = {}

-----------------------------------------------------------------------------
(* The goroutine of Run. *)

\* A fault ends the step with the error bad, and Run goes to the step next.
Fail(bad, next) ==
  /\ faults' = faults \cup bad
  /\ failed' = failed \cup bad
  /\ pc' = next

Go(next) ==
  /\ pc' = next
  /\ UNCHANGED <<faults, failed>>

\* validate refuses a component without a name of its own and a check that is
\* not whole.
Validate == Go("checks") \/ Fail({<<"setup">>}, "returned")

\* The compare-and-swap of ran, then validate.  A Run that loses the swap
\* returns a fault and touches nothing, so it is a stuttering step.
Run ==
  /\ pc \in {"init", "returned"}
  /\ ~ran
  /\ ran' = TRUE
  /\ Validate
  /\ UNCHANGED <<cur, comp, open, drainVars, netVars, reqVars>>

\* Every check runs, so that one run reports every fault.
RunChecks ==
  /\ pc = "checks"
  /\ \E bad \in SUBSET Checks :
       IF bad = {} THEN Go("migrate") ELSE Fail({"check"} \X bad, "returned")
  /\ UNCHANGED <<cur, comp, ran, open, drainVars, netVars, reqVars>>

Migrate ==
  /\ pc = "migrate"
  /\ Go("bind") \/ (MigrateOnBoot /\ Fail({<<"migrate">>}, "returned"))
  /\ UNCHANGED <<cur, comp, ran, open, drainVars, netVars, reqVars>>

\* The server listens before the components start.
Bind ==
  /\ pc = "bind"
  /\ \/ /\ Go("start")
        /\ listener' = "open"
     \/ /\ Fail({<<"bind">>}, "returned")
        /\ UNCHANGED listener
  /\ UNCHANGED <<cur, comp, ran, open, drainVars, serving, done, grace, warned, reqVars>>

\* Start of component cur returns nil, returns an error, or panics.  The host
\* does not recover the panic, so the process dies.
StartComponent ==
  /\ pc = "start"
  /\ cur <= N
  /\ \/ /\ Go("start")
        /\ comp' = [comp EXCEPT ![cur] = "up"]
        /\ cur' = cur + 1
     \/ /\ Fail({<<"start", cur>>}, "shutdown")
        /\ comp' = [comp EXCEPT ![cur] = "failed"]
        /\ UNCHANGED cur
     \/ /\ Go("crashed")
        /\ UNCHANGED <<comp, cur>>
  /\ UNCHANGED <<ran, open, drainVars, netVars, reqVars>>

OpenGate ==
  /\ pc = "start"
  /\ cur > N
  /\ open' = TRUE
  /\ Go("running")
  /\ UNCHANGED <<cur, comp, ran, drainVars, netVars, reqVars>>

\* Mutant: only the branch of the server fault closes the gate.
CloseGateOnFaultOnly ==
  /\ pc = "running"
  /\ \/ done /\ Go("shutdown") /\ UNCHANGED open
     \/ serving = "fault" /\ faults' = faults \cup {<<"serve">>} /\ pc' = "shutdown" /\ UNCHANGED failed /\ open' = FALSE
  /\ UNCHANGED <<cur, comp, ran, drainVars, netVars, reqVars>>

\* The select of step 7, then the store that closes the gate.
CloseGate ==
  /\ pc = "running"
  /\ \/ done /\ Go("shutdown")
     \/ serving = "fault" /\ faults' = faults \cup {<<"serve">>} /\ pc' = "shutdown" /\ UNCHANGED failed
  /\ open' = FALSE
  /\ UNCHANGED <<cur, comp, ran, drainVars, netVars, reqVars>>

\* shutdown sets its one deadline, and drain stores draining before it loads
\* inFlight.
DrainStore ==
  /\ pc = "shutdown"
  /\ grace' = "ticking"
  /\ draining' = TRUE
  /\ Go("drainLoad")
  /\ UNCHANGED <<cur, comp, ran, open, inFlight, idle, serving, listener, done, warned, reqVars>>

\* Mutant: the drain leaves the mark to the last request.
DrainLoadForgets ==
  /\ pc = "drainLoad"
  /\ Go("drainSelect")
  /\ UNCHANGED <<cur, comp, ran, open, drainVars, netVars, reqVars>>

DrainLoad ==
  /\ pc = "drainLoad"
  /\ idle' = (idle \/ inFlight = 0)
  /\ Go("drainSelect")
  /\ UNCHANGED <<cur, comp, ran, open, draining, inFlight, netVars, reqVars>>

\* External: Close of http.Server drops every connection.  The handler
\* goroutines go on.
Close ==
  /\ listener' = "closed"
  /\ serving' = IF serving = "empty" THEN "closed" ELSE serving
  /\ conn' = [r \in Requests |-> IF conn[r] = "open" THEN "cut" ELSE conn[r]]

\* Mutant: the idle branch drops the connections.
DrainIdleCloses ==
  /\ pc = "drainSelect"
  /\ idle
  /\ Close
  /\ Go("netShutdown")
  /\ UNCHANGED <<cur, comp, ran, open, drainVars, done, grace, warned, at, code, late>>

\* The idle branch of drain calls Shutdown, which first closes the listener.
DrainIdle ==
  /\ pc = "drainSelect"
  /\ idle
  /\ listener' = "closed"
  /\ serving' = IF serving = "empty" THEN "closed" ELSE serving
  /\ Go("netShutdown")
  /\ UNCHANGED <<cur, comp, ran, open, drainVars, done, grace, warned, reqVars>>

\* Mutant: the deadline waits for the handlers.
DrainExpiredWaits ==
  /\ pc = "drainSelect"
  /\ grace = "expired"
  /\ inFlight = 0
  /\ Close
  /\ warned' = TRUE
  /\ Go("stop")
  /\ UNCHANGED <<cur, comp, ran, open, drainVars, done, grace, at, code, late>>

\* The deadline branch of drain: count, close, warn.
DrainExpired ==
  /\ pc = "drainSelect"
  /\ grace = "expired"
  /\ Close
  /\ warned' = TRUE
  /\ Go("stop")
  /\ UNCHANGED <<cur, comp, ran, open, drainVars, done, grace, at, code, late>>

\* Mutant: Shutdown does not wait for the active connections.
NetShutdownHasty ==
  /\ pc = "netShutdown"
  /\ Go("stop")
  /\ UNCHANGED <<cur, comp, ran, open, drainVars, netVars, reqVars>>

\* External: Shutdown returns nil once no connection is active.
NetShutdown ==
  /\ pc = "netShutdown"
  /\ Waiting = {}
  /\ Go("stop")
  /\ UNCHANGED <<cur, comp, ran, open, drainVars, netVars, reqVars>>

\* Shutdown returns the error of its context, and drain closes the server.
NetShutdownExpired ==
  /\ pc = "netShutdown"
  /\ grace = "expired"
  /\ Close
  /\ Go("stop")
  /\ UNCHANGED <<cur, comp, ran, open, drainVars, done, grace, warned, at, code, late>>

\* Mutant: the components stop in registration order.
StopInOrder ==
  /\ pc = "stop"
  /\ cur > 1
  /\ cur' = cur - 1
  /\ \E i \in Components :
       /\ comp[i] = "up" /\ \A j \in 1 .. i - 1 : comp[j] # "up"
       /\ comp' = [comp EXCEPT ![i] = "down"]
  /\ Go("stop")
  /\ UNCHANGED <<ran, open, drainVars, netVars, reqVars>>

\* The loop of shutdown: a Stop that fails does not end it.
StopComponent ==
  /\ pc = "stop"
  /\ cur > 1
  /\ cur' = cur - 1
  /\ comp' = [comp EXCEPT ![cur - 1] = "down"]
  /\ Go("stop") \/ Fail({<<"stop", cur - 1>>}, "stop")
  /\ UNCHANGED <<ran, open, drainVars, netVars, reqVars>>

Return ==
  /\ pc = "stop"
  /\ cur = 1
  /\ Go("returned")
  /\ UNCHANGED <<cur, comp, ran, open, drainVars, netVars, reqVars>>

Main ==
  \/ Run \/ RunChecks \/ Migrate \/ Bind
  \/ StartComponent \/ OpenGate \/ CloseGate
  \/ DrainStore \/ DrainLoad \/ DrainIdle \/ DrainExpired
  \/ NetShutdown \/ NetShutdownExpired
  \/ StopComponent \/ Return

-----------------------------------------------------------------------------
(* The environment of Run. *)

\* A signal, or the caller, cancels the context.
Signal ==
  /\ pc # "crashed"
  /\ ~done
  /\ done' = TRUE
  /\ UNCHANGED <<mainVars, drainVars, serving, listener, grace, warned, reqVars>>

\* External: Accept fails, so Serve returns an error on the channel.
ServeFails ==
  /\ pc # "crashed"
  /\ listener = "open"
  /\ listener' = "closed"
  /\ serving' = "fault"
  /\ failed' = failed \cup {<<"serve">>}
  /\ UNCHANGED <<pc, cur, comp, faults, ran, open, drainVars, done, grace, warned, reqVars>>

\* The deadline of shutdown, which a deferred cancel releases on return.
GraceExpires ==
  /\ Closing
  /\ grace = "ticking"
  /\ grace' = "expired"
  /\ UNCHANGED <<mainVars, drainVars, serving, listener, done, warned, reqVars>>

-----------------------------------------------------------------------------
(* The goroutine of request r. *)

\* External: the server accepts the connection and reads the request.
Accept(r) ==
  /\ at[r] = "absent"
  /\ listener = "open"
  /\ at' = [at EXCEPT ![r] = "accepted"]
  /\ conn' = [conn EXCEPT ![r] = "open"]
  /\ late' = IF Closing THEN late \cup {r} ELSE late
  /\ UNCHANGED <<mainVars, drainVars, netVars, code>>

\* track adds one, then calls the mux.
Enter(r) ==
  /\ at[r] = "accepted"
  /\ at' = [at EXCEPT ![r] = "inside"]
  /\ inFlight' = inFlight + 1
  /\ UNCHANGED <<mainVars, draining, idle, netVars, conn, code, late>>

\* The handler of the application, or of /healthz, returns.
Handle(r) ==
  /\ r \notin Probes
  /\ at[r] = "inside"
  /\ at' = [at EXCEPT ![r] = "answered"]
  /\ UNCHANGED <<mainVars, drainVars, netVars, conn, code, late>>

\* handleReadyz reads the gate.
ReadyzGate(r) ==
  /\ r \in Probes
  /\ at[r] = "inside"
  /\ IF open
     THEN at' = [at EXCEPT ![r] = "probing"] /\ UNCHANGED code
     ELSE at' = [at EXCEPT ![r] = "answered"] /\ code' = [code EXCEPT ![r] = 503]
  /\ UNCHANGED <<mainVars, drainVars, netVars, conn, late>>

\* handleReadyz asks each Ready component.
ReadyzComponents(r) ==
  /\ at[r] = "probing"
  /\ at' = [at EXCEPT ![r] = "answered"]
  /\ \E c \in {200, 503} : code' = [code EXCEPT ![r] = c]
  /\ UNCHANGED <<mainVars, drainVars, netVars, conn, late>>

\* Mutant: track takes one away without a defer, so a panic skips it.
LeaveWithoutDefer(r) ==
  /\ at[r] \in Counted
  /\ inFlight' = IF at[r] = "answered" THEN inFlight - 1 ELSE inFlight
  /\ at' = [at EXCEPT ![r] = IF inFlight' = 0 THEN "zeroed" ELSE "left"]
  /\ UNCHANGED <<mainVars, draining, idle, netVars, conn, code, late>>

\* The deferred call of track takes one away.  It runs on a panic too.
Leave(r) ==
  /\ at[r] \in Counted
  /\ inFlight' = inFlight - 1
  /\ at' = [at EXCEPT ![r] = IF inFlight = 1 THEN "zeroed" ELSE "left"]
  /\ UNCHANGED <<mainVars, draining, idle, netVars, conn, code, late>>

\* Mutant: the last request to leave does not close idle.
MarkIdleForgets(r) ==
  /\ at[r] = "zeroed"
  /\ at' = [at EXCEPT ![r] = "left"]
  /\ UNCHANGED <<mainVars, drainVars, netVars, conn, code, late>>

\* The last request to leave loads draining, and closes idle when it is set.
MarkIdle(r) ==
  /\ at[r] = "zeroed"
  /\ at' = [at EXCEPT ![r] = "left"]
  /\ idle' = (idle \/ draining)
  /\ UNCHANGED <<mainVars, draining, inFlight, netVars, conn, code, late>>

\* External: the server sends the rest of the response and frees the
\* connection.
Finish(r) ==
  /\ at[r] = "left"
  /\ at' = [at EXCEPT ![r] = "served"]
  /\ conn' = [conn EXCEPT ![r] = IF @ = "open" THEN "closed" ELSE @]
  /\ UNCHANGED <<mainVars, drainVars, netVars, code, late>>

Serve(r) ==
  /\ pc # "crashed"
  /\ \/ Enter(r) \/ Handle(r) \/ ReadyzGate(r) \/ ReadyzComponents(r)
     \/ Leave(r) \/ MarkIdle(r) \/ Finish(r)

-----------------------------------------------------------------------------

\* The process may rest once Run has returned or the process has died.
Rest ==
  /\ pc \in {"returned", "crashed"}
  /\ UNCHANGED vars

Next ==
  \/ Main
  \/ Signal \/ ServeFails \/ GraceExpires
  \/ \E r \in Requests : pc # "crashed" /\ Accept(r)
  \/ \E r \in Requests : Serve(r)
  \/ Rest

Spec == Init /\ [][Next]_vars

\* Run is a goroutine of a running process.  Time and the handlers are not fair
\* here: each liveness property names the fairness it needs of them.
FairSpec == Spec /\ WF_vars(Main)

\* Time passes.
TimePasses == WF_vars(GraceExpires)

\* Every handler returns.
HandlersReturn == \A r \in Requests : WF_vars(Serve(r))

-----------------------------------------------------------------------------
(* Safety. *)

\* The drain cannot sleep through the last request: once it has loaded
\* inFlight, idle is closed, or a request is inside, or the request that took
\* the count to zero is about to load draining.
NoLostWakeup ==
  pc = "drainSelect" =>
    idle \/ inFlight > 0 \/ (\E r \in Requests : at[r] = "zeroed")

\* inFlight of App counts the requests between the two calls of track.
InFlightCounts == inFlight = Cardinality(Inside)

\* A client loses its connection only after SHUTDOWN_GRACE, whatever order the
\* signal, the drain and the requests take.
CutOnlyAfterGrace ==
  (\E r \in Requests : conn[r] = "cut") => grace = "expired"

\* No component is down while a client still waits for its answer, after a
\* signal, a listener fault or a failed start.
ComponentsOutliveClients ==
  (\E i \in Components : comp[i] = "down") => Waiting = {}

\* Components go down in the reverse of the order they came up in, so each one
\* that runs can rely on every one registered before it.
StackOrder ==
  \A i, j \in Components : i < j /\ comp[j] = "up" => comp[i] = "up"

\* Run never returns over a running component, even when a Stop or a Start
\* failed.
NoneLeftUp ==
  pc = "returned" => \A i \in Components : comp[i] # "up"

\* The error of Run carries each fault of the boot, of a Start and of a Stop.
\* The fault of the listener alone may be missing: the select of step 7 takes
\* either case when a signal and that fault are both there.
NothingLost ==
  pc = "returned" => failed \ {<<"serve">>} \subseteq faults

\* What Run and track keep an account of: the requests inside, the components
\* that were started, the faults.
Accounted == InFlightCounts /\ NoneLeftUp /\ NothingLost

\* A boot fault appears before the process serves: no connection was accepted
\* and no component has started.
BootFaultBeforeServe ==
  faults \cap (({"check"} \X Checks) \cup {<<"setup">>, <<"migrate">>, <<"bind">>}) # {} =>
    /\ \A i \in Components : comp[i] = "new"
    /\ \A r \in Requests : at[r] = "absent"

\* The gate is open only between the last Start and the shutdown.
GateHonest ==
  open => grace = "off" /\ \A i \in Components : comp[i] = "up"

\* A probe that arrives after the gate closed never reads 200.
LateProbeNotReady ==
  \A r \in late \cap Probes : code[r] # 200

\* The listener stays open for the whole drain, so that a probe reads 503 and
\* not a refused connection.  Only a fault of the listener itself ends it.
ListenerOutlastsDrain ==
  pc \in {"running", "shutdown", "drainLoad", "drainSelect"} =>
    listener = "open" \/ serving = "fault"

\* The door opens last and closes first: for the clients of a boot that fails,
\* for a probe during a shutdown, and for the listener during the drain.
DoorsInOrder == BootFaultBeforeServe /\ LateProbeNotReady /\ ListenerOutlastsDrain

-----------------------------------------------------------------------------
(* The inductive invariant behind the safety properties. *)

\* The component loop is where the components say it is: those below cur run.
UpIsBelowCur == \A i \in Components : comp[i] = "up" <=> i < cur

\* Where Run is bounds what the cells may hold.
RunShape ==
  /\ pc # "init" => ran
  /\ pc \in {"init", "checks", "migrate", "bind", "returned"} => cur = 1
  /\ pc = "running" => cur = N + 1
  /\ (\E i \in Components : comp[i] = "down") => pc \in {"stop", "returned"}

\* The drain has begun where Run says so, and not before.
DrainShape ==
  /\ pc \in {"drainLoad", "drainSelect"} => draining
  /\ grace # "off" => pc \in {"drainLoad", "drainSelect", "netShutdown", "stop", "returned"}
  /\ open => pc = "running"

\* Before the bind and after the drain nobody connects and nobody waits.
NetShape ==
  /\ pc \in {"init", "checks", "migrate", "bind"} => listener = "unbound"
  /\ pc = "netShutdown" => listener # "open"
  /\ pc \in {"init", "checks", "migrate", "bind", "stop", "returned"} =>
       listener # "open" /\ Waiting = {}

HostInv ==
  /\ UpIsBelowCur
  /\ RunShape
  /\ DrainShape
  /\ NetShape
  /\ NoLostWakeup
  /\ CutOnlyAfterGrace

-----------------------------------------------------------------------------
(* Liveness. *)

\* A signal ends the process once the grace is over, although handlers may hang
\* for ever.
ShutdownEnds == TimePasses => ((pc = "running" /\ done) ~> pc = "returned")

\* When every handler returns, the drain ends and needs no deadline.
DrainEnds == HandlersReturn => (pc = "drainSelect" ~> pc \in {"stop", "returned"})
=============================================================================
