------------------------------- MODULE Backoff ------------------------------
(***************************************************************************)
(* The wait between two attempts of a call (Client.delay and               *)
(* StatusError.RetryAfter).  time.Duration is an int64, and nothing bounds *)
(* the number of attempts or the seconds of a header, so the shift and the *)
(* product wrap.  Width scales the 64 bits down; the unit of a duration is *)
(* scaled with it.                                                         *)
(***************************************************************************)
EXTENDS Integers

CONSTANTS
  Width,       \* the bits of a Duration, its sign included
  Attempts,    \* Client.attempts
  Backoffs,    \* the values that WithBackoff may set, all above zero
  MaxBackoff,  \* the bound of one delay
  Second,      \* time.Second
  Afters       \* the seconds that a Retry-After header may ask for

VARIABLES
  backoff,  \* Client.backoff
  attempt,  \* the attempts that have failed
  after,    \* the Retry-After of the latest answer; 0 is no header
  wait      \* the delay that call computed after it

vars == <<backoff, attempt, after, wait>>

\* Two's complement of Width bits.
Wrap(x) ==
  LET m == x % 2 ^ Width
  IN  IF m >= 2 ^ (Width - 1) THEN m - 2 ^ Width ELSE m

RetryAfter(seconds) == Wrap(seconds * Second)

\* The delay after attempt k.
Delay(b, k, seconds) ==
  LET d == Wrap(b * 2 ^ (k - 1))
  IN  IF RetryAfter(seconds) > 0 THEN RetryAfter(seconds)
      ELSE IF d > MaxBackoff THEN MaxBackoff
      ELSE d

Init ==
  /\ backoff \in Backoffs
  /\ attempt = 0
  /\ after = 0
  /\ wait = 0

\* An attempt that is not the last one fails, and call computes its wait.
Fails ==
  /\ attempt < Attempts - 1
  /\ attempt' = attempt + 1
  /\ after' \in Afters \cup {0}
  /\ wait' = Delay(backoff, attempt', after')
  /\ UNCHANGED backoff

Spec == Init /\ [][Fails]_vars

\* The comment of WithBackoff: "Each further delay doubles it, up to
\* MaxBackoff."  It is read over the numbers, which have no width: an answer
\* without Retry-After is followed by the doubled backoff or by its bound,
\* however many attempts WithAttempts allows.
DoublesUpToMax ==
  attempt > 0 /\ after = 0 =>
    LET exact == backoff * 2 ^ (attempt - 1)
    IN  wait = IF exact > MaxBackoff THEN MaxBackoff ELSE exact
=============================================================================
