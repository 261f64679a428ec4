---------------------------- MODULE HostLifecycle ---------------------------
(***************************************************************************)
(* What the host promises the components and the clients, without the      *)
(* counter, the channel or the flags that keep the promise.  The           *)
(* components come up one by one and go down in reverse.  The first one    *)
(* goes down only when no client waits, unless the grace has expired.      *)
(***************************************************************************)
EXTENDS Naturals

CONSTANTS N, Requests

VARIABLES
  phase,    \* boot, starting, ready, draining, stopping, over
  up,       \* the components that run
  waiting,  \* the clients that wait for an answer
  expired   \* the grace has expired

vars == <<phase, up, waiting, expired>>

Serving == phase \in {"starting", "ready", "draining"}

Init ==
  /\ phase = "boot"
  /\ up = {}
  /\ waiting = {}
  /\ expired = FALSE

Begin ==
  /\ phase = "boot"
  /\ phase' \in {"starting", "over"}
  /\ UNCHANGED <<up, waiting, expired>>

ComponentUp ==
  /\ phase = "starting"
  /\ \E k \in 1 .. N : up = 1 .. k - 1 /\ up' = 1 .. k
  /\ UNCHANGED <<phase, waiting, expired>>

\* The gate opens over every component.
Ready ==
  /\ phase = "starting"
  /\ up = 1 .. N
  /\ phase' = "ready"
  /\ UNCHANGED <<up, waiting, expired>>

\* A signal, a fault of the listener, or a Start that failed.
Drain ==
  /\ phase \in {"starting", "ready"}
  /\ phase' = "draining"
  /\ UNCHANGED <<up, waiting, expired>>

Expire ==
  /\ phase \in {"draining", "stopping"}
  /\ expired' = TRUE
  /\ UNCHANGED <<phase, up, waiting>>

Arrive(r) ==
  /\ Serving
  /\ waiting' = waiting \cup {r}
  /\ UNCHANGED <<phase, up, expired>>

Answer(r) ==
  /\ waiting' = waiting \ {r}
  /\ UNCHANGED <<phase, up, expired>>

\* The drain is over: no client waits, or the grace has expired and the
\* clients that wait are cut.
StopBegins ==
  /\ phase = "draining"
  /\ waiting = {} \/ expired
  /\ phase' = "stopping"
  /\ waiting' = {}
  /\ UNCHANGED <<up, expired>>

ComponentDown ==
  /\ phase = "stopping"
  /\ \E k \in 1 .. N : up = 1 .. k /\ up' = 1 .. k - 1
  /\ UNCHANGED <<phase, waiting, expired>>

\* The process ends: in order, or by a panic while the components start.
End ==
  /\ \/ phase = "stopping" /\ up = {}
     \/ phase = "starting"
  /\ phase' = "over"
  /\ UNCHANGED <<up, waiting, expired>>

Next ==
  \/ Begin \/ ComponentUp \/ Ready \/ Drain \/ Expire
  \/ \E r \in Requests : Arrive(r) \/ Answer(r)
  \/ StopBegins \/ ComponentDown \/ End

Spec == Init /\ [][Next]_vars
=============================================================================
