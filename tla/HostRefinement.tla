--------------------------- MODULE HostRefinement ---------------------------
(***************************************************************************)
(* The host implements HostLifecycle: the phase is read off the step of    *)
(* Run, and a client waits while its connection is open.                   *)
(***************************************************************************)
EXTENDS Host

Up == {i \in Components : comp[i] = "up"}

Phase ==
  CASE pc \in {"init", "checks", "migrate", "bind"} -> "boot"
    [] pc = "start" -> "starting"
    [] pc = "running" -> "ready"
    [] pc \in {"shutdown", "drainLoad", "drainSelect", "netShutdown"} -> "draining"
    [] pc = "stop" -> "stopping"
    [] pc \in {"returned", "crashed"} -> "over"

Lifecycle == INSTANCE HostLifecycle WITH
  phase <- Phase, up <- Up, waiting <- Waiting, expired <- (grace = "expired")

\* Every behaviour of the host is one of HostLifecycle.
RefinesLifecycle == Lifecycle!Spec
=============================================================================
