------------------------------- MODULE Breaker ------------------------------
(***************************************************************************)
(* The circuit breaker of a generated HTTP client                          *)
(* (codegen/client/breaker.go), shared by every goroutine that calls the   *)
(* client.  Each method holds the mutex from entry to return, so a method  *)
(* is one step.  A call is out from the Allow that admits it until its     *)
(* Success or Failure, and other calls run in between: that gap is where   *)
(* a report can meet a circuit that is no longer the one that admitted it. *)
(*                                                                         *)
(* The two clock readings now() and openedAt are kept as their difference, *)
(* counted up to the cooldown: no code tells larger differences apart.     *)
(* The failures are counted up to the threshold for the same reason.       *)
(***************************************************************************)
EXTENDS Naturals, FiniteSets

CONSTANTS
  Callers,     \* the goroutines that call the client
  Threshold,   \* BreakerConfig.Threshold, after NewBreaker
  Cooldown     \* BreakerConfig.Cooldown, after NewBreaker

ASSUME BreakerAssumption ==
  /\ Threshold \in Nat \ {0}
  /\ Cooldown \in Nat \ {0}

VARIABLES
  state,     \* Breaker.state
  failures,  \* Breaker.failures
  probing,   \* Breaker.probing
  elapsed,   \* the time since openedAt
  out,       \* what each caller's admitted call went out as
  leaked     \* history: a call that held the probe panicked, and no report
             \* has taken the probe back since

breakerVars == <<state, failures, probing, elapsed>>
vars == <<breakerVars, out, leaked>>

TypeOK ==
  /\ state \in {"closed", "open", "half-open"}
  /\ failures \in 0 .. Threshold
  /\ probing \in BOOLEAN
  /\ elapsed \in 0 .. Cooldown
  /\ out \in [Callers -> {"none", "normal", "probe"}]
  /\ leaked \in BOOLEAN

Init ==
  /\ state = "closed"
  /\ failures = 0
  /\ probing = FALSE
  /\ elapsed = 0
  /\ out = [c \in Callers |-> "none"]
  /\ leaked = FALSE

-----------------------------------------------------------------------------

\* The guard of settle: the cooldown of an open circuit has ended.
Cooled == state = "open" /\ elapsed = Cooldown

\* The circuit after settle.
Settled == IF Cooled THEN "half-open" ELSE state
SettledProbing == probing /\ ~Cooled

\* Allow settles the circuit and lets the call out.  A half-open circuit lends
\* its one probe.
Admit(c) ==
  /\ out[c] = "none"
  /\ Settled # "open"
  /\ Settled = "half-open" => ~SettledProbing
  /\ state' = Settled
  /\ probing' = (Settled = "half-open")
  /\ out' = [out EXCEPT ![c] = IF Settled = "half-open" THEN "probe" ELSE "normal"]
  /\ UNCHANGED <<failures, elapsed, leaked>>

\* Allow returns ErrBreakerOpen.
Refuse(c) ==
  /\ out[c] = "none"
  /\ Settled = "open" \/ (Settled = "half-open" /\ SettledProbing)
  /\ state' = Settled
  /\ probing' = SettledProbing
  /\ UNCHANGED <<failures, elapsed, out, leaked>>

\* State settles the circuit for a reader.
Observe ==
  /\ state' = Settled
  /\ probing' = SettledProbing
  /\ UNCHANGED <<failures, elapsed, out, leaked>>

Return(c) ==
  /\ out[c] # "none"
  /\ out' = [out EXCEPT ![c] = "none"]

\* The probe is no longer lent, whoever held it.
TakeBack == probing' = FALSE /\ leaked' = FALSE

\* Mutant: a success leaves the probe lent.
SuccessKeepsProbe(c) ==
  /\ Return(c)
  /\ state' = IF state = "half-open" THEN state ELSE "closed"
  /\ failures' = 0
  /\ UNCHANGED <<probing, elapsed, leaked>>

\* A report closes the circuit, whichever circuit admitted the call.
Success(c) ==
  /\ Return(c)
  /\ state' = "closed"
  /\ failures' = 0
  /\ TakeBack
  /\ UNCHANGED elapsed

Open ==
  /\ state' = "open"
  /\ elapsed' = 0
  /\ TakeBack

\* Mutant: the comparison with the threshold is off by one.
FailureLate(c) ==
  /\ Return(c)
  /\ IF state = "half-open"
     THEN Open /\ UNCHANGED failures
     ELSE /\ failures' = IF failures < Threshold THEN failures + 1 ELSE failures
          /\ IF failures >= Threshold THEN Open ELSE UNCHANGED <<state, probing, elapsed, leaked>>

\* The failure that reaches the threshold opens the circuit, and so does any
\* failure of a half-open one.
Failure(c) ==
  /\ Return(c)
  /\ IF state = "half-open"
     THEN Open /\ UNCHANGED failures
     ELSE /\ failures' = IF failures < Threshold THEN failures + 1 ELSE failures
          /\ IF failures' >= Threshold THEN Open ELSE UNCHANGED <<state, probing, elapsed, leaked>>

\* A panic of the Doer leaves call before it reports.
Lose(c) ==
  /\ Return(c)
  /\ leaked' = (leaked \/ out[c] = "probe")
  /\ UNCHANGED breakerVars

Tick ==
  /\ elapsed < Cooldown
  /\ elapsed' = elapsed + 1
  /\ UNCHANGED <<state, failures, probing, out, leaked>>

Next ==
  \/ \E c \in Callers : Admit(c) \/ Refuse(c) \/ Success(c) \/ Failure(c) \/ Lose(c)
  \/ Observe
  \/ Tick

BreakerSpec == Init /\ [][Next]_vars

-----------------------------------------------------------------------------
(* Properties. *)

\* A closed circuit has room for one more failure: the failure that reaches
\* the threshold is the one that opens it, whatever calls report in between.
ClosedBelowThreshold == state = "closed" => failures < Threshold

\* When a half-open circuit refuses because its probe is lent, the call that
\* holds it is still out and will report.  The flag and the call are cleared by
\* different goroutines in any order.  Only a panic of that very call loses it.
ProbeIsOut ==
  probing => state = "half-open" /\ (leaked \/ \E c \in Callers : out[c] = "probe")

\* What the mutex of the breaker keeps, although each call is two critical
\* sections with other calls between them.
BreakerSafe == ClosedBelowThreshold /\ ProbeIsOut
=============================================================================
