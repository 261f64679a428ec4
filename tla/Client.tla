------------------------------- MODULE Client -------------------------------
(***************************************************************************)
(* The runtime of a generated HTTP client (codegen/client/client.go): the  *)
(* attempts of Client.call, composed with the circuit breaker they share.  *)
(* A caller makes one call after another.  The steps of a call that touch  *)
(* only its own frame go with the next access to the breaker.              *)
(*                                                                         *)
(* The service and the caller's context are the environment.  An attempt   *)
(* ends with one of the Answers; the wait between attempts is a step of    *)
(* its own, and how long it lasts is the subject of Backoff.               *)
(***************************************************************************)
EXTENDS Breaker

CONSTANT Attempts  \* Client.attempts

ASSUME ClientAssumption == Attempts \in Nat \ {0}

VARIABLES
  pc,        \* where each caller is
  attempt,   \* the loop counter of call
  idem,      \* Request.Idempotent
  last,      \* the local last: what the latest attempt ended with
  body,      \* how the body of a 2xx answer came
  sent,      \* history: the attempts that went out in this call
  cancelled, \* the caller cancelled its context
  result     \* what Do returned

callVars == <<pc, attempt, idem, last, body, sent, cancelled, result>>
clientVars == <<vars, callVars>>

(* fault      the request does not build, so nothing goes out.             *)
(* transport  no answer: a refused connection, a timeout, a cancel.        *)
(* retry      a status of 500 or above, or 429.                            *)
(* reject     any other status outside the 200s.                           *)
(* ok         a status in the 200s.                                        *)
Answers == {"fault", "transport", "retry", "reject", "ok"}

(* none       a nil out, or 204: the body is not read.                     *)
(* buffered   the body was in memory when Do of net/http returned.         *)
(* streaming  the body was still on the wire.                              *)
(* malformed  the body is not JSON of the shape of out.                    *)
Bodies == {"none", "buffered", "streaming", "malformed"}

ClientTypeOK ==
  /\ TypeOK
  /\ pc \in [Callers -> {"idle", "allow", "sending", "sleeping", "done"}]
  /\ attempt \in [Callers -> 1 .. Attempts]
  /\ idem \in [Callers -> BOOLEAN]
  /\ last \in [Callers -> Answers \cup {"none"}]
  /\ body \in [Callers -> Bodies]
  /\ sent \in [Callers -> 0 .. Attempts]
  /\ cancelled \in [Callers -> BOOLEAN]
  /\ result \in [Callers -> {"none", "nil", "decode", "last", "refused", "cancelled", "panic"}]

ClientInit ==
  /\ Init
  /\ pc = [c \in Callers |-> "idle"]
  /\ attempt = [c \in Callers |-> 1]
  /\ idem = [c \in Callers |-> FALSE]
  /\ last = [c \in Callers |-> "none"]
  /\ body = [c \in Callers |-> "none"]
  /\ sent = [c \in Callers |-> 0]
  /\ cancelled = [c \in Callers |-> FALSE]
  /\ result = [c \in Callers |-> "none"]

-----------------------------------------------------------------------------

\* Do returns r to its caller.
Returns(c, r) ==
  /\ pc' = [pc EXCEPT ![c] = "done"]
  /\ result' = [result EXCEPT ![c] = r]

\* Mutant: a retry forgets what the directive says.
RetryableAlways(c, a) == a \in {"transport", "retry"}

\* Another attempt can help, and the request may be sent twice.
Retryable(c, a) == idem[c] /\ a \in {"transport", "retry"}

\* Mutant: an answer that rejects the request goes unreported.
RecordSkipsReject(c, a) ==
  CASE a = "reject" -> UNCHANGED vars
    [] a \in {"fault", "transport", "retry"} -> Failure(c)
    [] a = "ok" -> Success(c)

\* What the breaker learns of an attempt: a status that rejects the request is
\* an answer, not an outage.
Record(c, a) ==
  IF a \in {"fault", "transport", "retry"} THEN Failure(c) ELSE Success(c)

\* decode reads the body after send has cancelled the context of the attempt,
\* so what was still on the wire does not arrive.
Decoded(b) == IF b \in {"none", "buffered"} THEN "nil" ELSE "decode"

-----------------------------------------------------------------------------

\* Do encodes the body, resolves the target and enters call.
Do(c) ==
  /\ pc[c] \in {"idle", "done"}
  /\ pc' = [pc EXCEPT ![c] = "allow"]
  /\ attempt' = [attempt EXCEPT ![c] = 1]
  /\ \E i \in BOOLEAN : idem' = [idem EXCEPT ![c] = i]
  /\ last' = [last EXCEPT ![c] = "none"]
  /\ body' = [body EXCEPT ![c] = "none"]
  /\ sent' = [sent EXCEPT ![c] = 0]
  /\ cancelled' = [cancelled EXCEPT ![c] = FALSE]
  /\ result' = [result EXCEPT ![c] = "none"]
  /\ UNCHANGED vars

\* The breaker admits the attempt.
AttemptGoes(c) ==
  /\ pc[c] = "allow"
  /\ Admit(c)
  /\ pc' = [pc EXCEPT ![c] = "sending"]
  /\ UNCHANGED <<attempt, idem, last, body, sent, cancelled, result>>

\* Mutant: a refused call asks again.
AttemptRefusedSpins(c) ==
  /\ pc[c] = "allow"
  /\ Refuse(c)
  /\ UNCHANGED callVars

\* The breaker refuses, and call returns that error alone.
AttemptRefused(c) ==
  /\ pc[c] = "allow"
  /\ Refuse(c)
  /\ Returns(c, "refused")
  /\ UNCHANGED <<attempt, idem, last, body, sent, cancelled>>

\* send returns, the breaker takes the report, and call returns or waits.
AttemptEnds(c) ==
  /\ pc[c] = "sending"
  /\ \E a \in Answers, b \in Bodies :
       /\ Record(c, a)
       /\ a # "ok" => b = "none"
       /\ last' = [last EXCEPT ![c] = a]
       /\ body' = [body EXCEPT ![c] = b]
       /\ sent' = [sent EXCEPT ![c] = IF a = "fault" THEN @ ELSE @ + 1]
       /\ IF a = "ok" THEN Returns(c, Decoded(b))
          ELSE IF attempt[c] = Attempts \/ ~Retryable(c, a) THEN Returns(c, "last")
          ELSE pc' = [pc EXCEPT ![c] = "sleeping"] /\ UNCHANGED result
  /\ UNCHANGED <<attempt, idem, cancelled>>

\* The wait is over.  It may be over at once, and the select takes the timer
\* even when the context is done.
SleepEnds(c) ==
  /\ pc[c] = "sleeping"
  /\ pc' = [pc EXCEPT ![c] = "allow"]
  /\ attempt' = [attempt EXCEPT ![c] = @ + 1]
  /\ UNCHANGED <<vars, idem, last, body, sent, cancelled, result>>

\* The context ends the wait, and call joins its error to the last one.
SleepCancelled(c) ==
  /\ pc[c] = "sleeping"
  /\ cancelled[c]
  /\ Returns(c, "cancelled")
  /\ UNCHANGED <<vars, attempt, idem, last, body, sent, cancelled>>

\* The panic of a Doer unwinds call.
AttemptPanics(c) ==
  /\ pc[c] = "sending"
  /\ Lose(c)
  /\ Returns(c, "panic")
  /\ UNCHANGED <<attempt, idem, last, body, sent, cancelled>>

Cancel(c) ==
  /\ pc[c] \in {"allow", "sending", "sleeping"}
  /\ ~cancelled[c]
  /\ cancelled' = [cancelled EXCEPT ![c] = TRUE]
  /\ UNCHANGED <<vars, pc, attempt, idem, last, body, sent, result>>

\* The steps of call itself.  Each attempt is bounded by WithTimeout.
CallStep(c) ==
  AttemptGoes(c) \/ AttemptRefused(c) \/ AttemptEnds(c) \/ SleepEnds(c) \/ SleepCancelled(c)

ClientNext ==
  \/ \E c \in Callers : Do(c) \/ CallStep(c) \/ AttemptPanics(c) \/ Cancel(c)
  \/ (Observe \/ Tick) /\ UNCHANGED callVars

ClientSpec == ClientInit /\ [][ClientNext]_clientVars

\* A call that has begun goes on: the timer of the wait fires and the timeout
\* of the attempt ends send.  Time passes.
ClientFairSpec ==
  /\ ClientSpec
  /\ WF_clientVars(Tick /\ UNCHANGED callVars)
  /\ \A c \in Callers : WF_clientVars(CallStep(c))

-----------------------------------------------------------------------------
(* Properties. *)

\* A request goes out again only when its directive states that a retry is
\* safe and the attempt before it ended without an answer to the request.
RetryOnlyWhenSafe ==
  [][\A c \in Callers :
       sent[c] > 0 /\ sent'[c] > sent[c] => idem[c] /\ last[c] \in {"transport", "retry"}]_clientVars

\* When no attempt is on its way, a circuit does not refuse because its probe is
\* lent: the call that took it has reported, whether it ended with an answer, a
\* fault, a refusal of a later attempt or a cancelled wait.  A panic of the Doer
\* is the one exception, and no step of the code repairs it: the probe that it
\* loses stays lent until a late report of another attempt.
ProbeComesBack == probing /\ (\A c \in Callers : pc[c] # "sending") => leaked

\* Under ClientFairSpec: every call returns, whatever the service answers.
CallsEnd == \A c \in Callers : pc[c] = "allow" ~> pc[c] = "done"

\* Under ClientFairSpec: a caller that keeps calling a service that has
\* recovered finds the circuit closed again, whatever reports were late, unless
\* the probe was lost to a panic for good.
Recovers ==
  (\A c \in Callers : WF_clientVars(Do(c))) /\
  <>[][\A c \in Callers : ~Failure(c) /\ ~Lose(c)]_clientVars /\ <>[]~leaked
    => []<>(state = "closed")

\* The comment of Do: it "decodes the body into out".  A well-formed answer to
\* a caller that has not cancelled is decoded.
AnswerIsDecoded ==
  \A c \in Callers :
    result[c] = "decode" => body[c] = "malformed" \/ cancelled[c]
=============================================================================
