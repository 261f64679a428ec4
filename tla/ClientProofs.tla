----------------------------- MODULE ClientProofs ----------------------------
(***************************************************************************)
(* Proofs about the circuit breaker, for every set of callers, threshold   *)
(* and cooldown; about the calls of a generated client: they drive the     *)
(* breaker the way Breaker says, so what is proved of it holds under them; *)
(* and about the route that a call or any other request reaches, for every *)
(* input type, every answer of a registration and every request.           *)
(***************************************************************************)
EXTENDS Client, Exchange, FoldLemmas

\* Every variable of the breaker keeps its type.
THEOREM BreakerTypeCorrect == BreakerSpec => []TypeOK
<1>1. Init => TypeOK
  <2> SUFFICES ASSUME Init PROVE TypeOK
    OBVIOUS
  <2>1. probing \in BOOLEAN /\ leaked \in BOOLEAN
    BY Zenon DEF Init
  <2> QED
    BY <2>1, BreakerAssumption DEF BreakerAssumption, Init, TypeOK
<1>2. TypeOK /\ [Next]_vars => TypeOK'
  <2> SUFFICES ASSUME TypeOK, [Next]_vars PROVE TypeOK'
    OBVIOUS
  <2> USE BreakerAssumption DEF BreakerAssumption, TypeOK
  <2>1. ASSUME NEW c \in Callers, Admit(c) PROVE TypeOK'
    BY <2>1 DEF Admit, Settled, SettledProbing, Cooled
  <2>2. ASSUME NEW c \in Callers, Refuse(c) PROVE TypeOK'
    BY <2>2 DEF Refuse, Settled, SettledProbing, Cooled
  <2>3. ASSUME NEW c \in Callers, Success(c) PROVE TypeOK'
    <3>1. probing' \in BOOLEAN /\ leaked' \in BOOLEAN
      BY <2>3, Zenon DEF Success, TakeBack
    <3> QED
      BY <2>3, <3>1 DEF Success, Return
  <2>4. ASSUME NEW c \in Callers, Failure(c) PROVE TypeOK'
    <3>1. probing' \in BOOLEAN /\ leaked' \in BOOLEAN
      BY <2>4, Zenon DEF Failure, Open, TakeBack
    <3> QED
      BY <2>4, <3>1 DEF Failure, Return, Open
  <2>5. ASSUME NEW c \in Callers, Lose(c) PROVE TypeOK'
    BY <2>5 DEF Lose, Return, breakerVars
  <2>6. CASE Observe
    BY <2>6 DEF Observe, Settled, SettledProbing, Cooled
  <2>7. CASE Tick
    BY <2>7 DEF Tick
  <2>8. CASE UNCHANGED vars
    BY <2>8 DEF vars, breakerVars
  <2> QED
    BY <2>1, <2>2, <2>3, <2>4, <2>5, <2>6, <2>7, <2>8 DEF Next
<1> QED
  BY <1>1, <1>2, PTL DEF BreakerSpec

\* A closed circuit has counted fewer failures than the threshold: only the
\* report that opens the circuit reaches it.
THEOREM ClosedHasRoom == BreakerSpec => []ClosedBelowThreshold
<1>1. Init => ClosedBelowThreshold
  BY BreakerAssumption DEF BreakerAssumption, Init, ClosedBelowThreshold
<1>2. TypeOK /\ ClosedBelowThreshold /\ [Next]_vars => ClosedBelowThreshold'
  <2> SUFFICES ASSUME TypeOK, ClosedBelowThreshold, [Next]_vars
               PROVE  ClosedBelowThreshold'
    OBVIOUS
  <2> USE BreakerAssumption DEF BreakerAssumption, TypeOK, ClosedBelowThreshold
  <2>1. ASSUME NEW c \in Callers, Admit(c) PROVE ClosedBelowThreshold'
    BY <2>1 DEF Admit, Settled, Cooled
  <2>2. ASSUME NEW c \in Callers, Refuse(c) PROVE ClosedBelowThreshold'
    BY <2>2 DEF Refuse, Settled, Cooled
  <2>3. ASSUME NEW c \in Callers, Success(c) PROVE ClosedBelowThreshold'
    BY <2>3 DEF Success
  <2>4. ASSUME NEW c \in Callers, Failure(c) PROVE ClosedBelowThreshold'
    BY <2>4 DEF Failure, Open
  <2>5. ASSUME NEW c \in Callers, Lose(c) PROVE ClosedBelowThreshold'
    BY <2>5 DEF Lose, breakerVars
  <2>6. CASE Observe
    BY <2>6 DEF Observe, Settled, Cooled
  <2>7. CASE Tick
    BY <2>7 DEF Tick
  <2>8. CASE UNCHANGED vars
    BY <2>8 DEF vars, breakerVars
  <2> QED
    BY <2>1, <2>2, <2>3, <2>4, <2>5, <2>6, <2>7, <2>8 DEF Next
<1> QED
  BY <1>1, <1>2, BreakerTypeCorrect, PTL DEF BreakerSpec

\* A lent probe is held by a call that is still out, so it comes back, unless
\* that very call panicked.  The induction needs no more than the types: a
\* report takes the probe back whoever makes it, and only a panic of the Doer
\* ends a call without one.
THEOREM ProbeNeverLeaks == BreakerSpec => []ProbeIsOut
<1>1. Init => ProbeIsOut
  BY DEF Init, ProbeIsOut
<1>2. TypeOK /\ ProbeIsOut /\ [Next]_vars => ProbeIsOut'
  <2> SUFFICES ASSUME TypeOK, ProbeIsOut, [Next]_vars, probing'
               PROVE  state' = "half-open" /\ (leaked' \/ \E c \in Callers : out'[c] = "probe")
    BY DEF ProbeIsOut
  <2> USE DEF TypeOK, ProbeIsOut
  <2>1. ASSUME NEW c \in Callers, Admit(c)
        PROVE  state' = "half-open" /\ out'[c] = "probe"
    BY <2>1 DEF Admit
  <2>2. ASSUME NEW c \in Callers, Refuse(c)
        PROVE  state' = "half-open" /\ (leaked' \/ \E d \in Callers : out'[d] = "probe")
    BY <2>2 DEF Refuse, Settled, SettledProbing, Cooled
  <2>3. ASSUME NEW c \in Callers, Success(c) PROVE FALSE
    BY <2>3 DEF Success, TakeBack
  <2>4. ASSUME NEW c \in Callers, Failure(c) PROVE FALSE
    BY <2>4 DEF Failure, Open, TakeBack
  <2>5. ASSUME NEW c \in Callers, Lose(c)
        PROVE  state' = "half-open" /\ (leaked' \/ \E d \in Callers : out'[d] = "probe")
    <3>1. PICK d \in Callers : leaked \/ out[d] = "probe"
      BY <2>5 DEF Lose, breakerVars
    <3>2. CASE leaked
      BY <2>5, <3>2 DEF Lose, breakerVars
    <3>3. CASE out[d] = "probe" /\ d = c
      BY <2>5, <3>3 DEF Lose, breakerVars
    <3>4. CASE out[d] = "probe" /\ d # c
      BY <2>5, <3>4 DEF Lose, Return, breakerVars
    <3> QED
      BY <3>1, <3>2, <3>3, <3>4
  <2>6. CASE Observe
    BY <2>6 DEF Observe, Settled, SettledProbing, Cooled
  <2>7. CASE Tick
    BY <2>7 DEF Tick
  <2>8. CASE UNCHANGED vars
    BY <2>8 DEF vars, breakerVars
  <2> QED
    BY <2>1, <2>2, <2>3, <2>4, <2>5, <2>6, <2>7, <2>8 DEF Next
<1> QED
  BY <1>1, <1>2, BreakerTypeCorrect, PTL DEF BreakerSpec

-----------------------------------------------------------------------------

\* The calls implement the breaker: each step of a call is one method of the
\* breaker, the loss of a call to a panic, or a step that leaves it alone.
THEOREM CallsUseBreaker == ClientSpec => BreakerSpec
<1>1. ClientInit => Init
  BY DEF ClientInit
<1>2. [ClientNext]_clientVars => [Next]_vars
  <2> SUFFICES ASSUME [ClientNext]_clientVars PROVE [Next]_vars
    OBVIOUS
  <2>1. ASSUME NEW c \in Callers, Do(c) PROVE UNCHANGED vars
    BY <2>1 DEF Do
  <2>2. ASSUME NEW c \in Callers, CallStep(c) PROVE [Next]_vars
    <3>1. CASE AttemptGoes(c)
      BY <3>1 DEF AttemptGoes, Next
    <3>2. CASE AttemptRefused(c)
      BY <3>2 DEF AttemptRefused, Next
    <3>3. CASE AttemptEnds(c)
      <4>1. PICK a \in Answers : Record(c, a)
        BY <3>3 DEF AttemptEnds
      <4> QED
        BY <4>1 DEF Record, Next
    <3>4. CASE SleepEnds(c)
      BY <3>4 DEF SleepEnds
    <3>5. CASE SleepCancelled(c)
      BY <3>5 DEF SleepCancelled
    <3> QED
      BY <2>2, <3>1, <3>2, <3>3, <3>4, <3>5 DEF CallStep
  <2>3. ASSUME NEW c \in Callers, AttemptPanics(c) PROVE Lose(c)
    BY <2>3 DEF AttemptPanics
  <2>4. ASSUME NEW c \in Callers, Cancel(c) PROVE UNCHANGED vars
    BY <2>4 DEF Cancel
  <2>5. CASE (Observe \/ Tick) /\ UNCHANGED callVars
    BY <2>5 DEF Next
  <2>6. CASE UNCHANGED clientVars
    BY <2>6 DEF clientVars
  <2> QED
    BY <2>1, <2>2, <2>3, <2>4, <2>5, <2>6 DEF ClientNext, Next
<1> QED
  BY <1>1, <1>2, PTL DEF ClientSpec, BreakerSpec

\* Under the calls of a client a lent probe is held by a call that is still
\* out, and a closed circuit has room for a failure.
THEOREM CallsKeepProbe == ClientSpec => []BreakerSafe
<1>1. ProbeIsOut /\ ClosedBelowThreshold => BreakerSafe
  BY DEF BreakerSafe
<1> QED
  BY <1>1, CallsUseBreaker, ProbeNeverLeaks, ClosedHasRoom, PTL

-----------------------------------------------------------------------------
(* The frame of a call: what the breaker has admitted is an attempt that is  *)
(* on its way, and a call that goes on after an attempt may do so.           *)

\* A call is out with the breaker only while its attempt is on its way.
OutIsSending == \A c \in Callers : out[c] # "none" => pc[c] = "sending"

\* What a caller that still has attempts before it knows of those behind it.
MayRepeat ==
  \A c \in Callers :
    pc[c] \in {"allow", "sending", "sleeping"} /\ sent[c] # 0 =>
      idem[c] /\ last[c] \in {"transport", "retry"}

CallTypes ==
  /\ out \in [Callers -> {"none", "normal", "probe"}]
  /\ pc \in [Callers -> {"idle", "allow", "sending", "sleeping", "done"}]
  /\ DOMAIN idem = Callers
  /\ DOMAIN last = Callers
  /\ sent \in [Callers -> Nat]

CallInv == CallTypes /\ OutIsSending /\ MayRepeat

\* Each step of a caller keeps the invariant: a report and a panic end what it
\* was admitted for before it leaves, and a caller waits only for a retry that
\* is safe.
LEMMA CallInvStep == CallInv /\ [ClientNext]_clientVars => CallInv'
<1> SUFFICES ASSUME CallInv, [ClientNext]_clientVars PROVE CallInv'
  OBVIOUS
<1> USE DEF CallInv, CallTypes, OutIsSending, MayRepeat
<1>1. ASSUME NEW c \in Callers, Do(c) PROVE CallInv'
  <2>1. PICK i \in BOOLEAN : idem' = [idem EXCEPT ![c] = i]
    BY <1>1 DEF Do
  <2> QED
    BY <1>1, <2>1 DEF Do, vars
<1>2. ASSUME NEW c \in Callers, AttemptGoes(c) PROVE CallInv'
  BY <1>2 DEF AttemptGoes, Admit
<1>3. ASSUME NEW c \in Callers, AttemptRefused(c) PROVE CallInv'
  BY <1>3 DEF AttemptRefused, Refuse, Returns
<1>4. ASSUME NEW c \in Callers, AttemptEnds(c) PROVE CallInv'
  <2>1. PICK a \in Answers :
          /\ Record(c, a)
          /\ last' = [last EXCEPT ![c] = a]
          /\ sent' = [sent EXCEPT ![c] = IF a = "fault" THEN @ ELSE @ + 1]
          /\ \/ pc' = [pc EXCEPT ![c] = "done"]
             \/ Retryable(c, a) /\ pc' = [pc EXCEPT ![c] = "sleeping"]
    BY <1>4 DEF AttemptEnds, Returns
  <2>2. out' = [out EXCEPT ![c] = "none"]
    BY <2>1 DEF Record, Failure, Success, Return
  <2>3. idem' = idem
    BY <1>4 DEF AttemptEnds
  <2>4. CallTypes' /\ OutIsSending'
    BY <2>1, <2>2, <2>3
  <2>5. MayRepeat'
    BY <2>1, <2>3 DEF Retryable
  <2> QED
    BY <2>4, <2>5
<1>5. ASSUME NEW c \in Callers, SleepEnds(c) PROVE CallInv'
  BY <1>5 DEF SleepEnds, vars
<1>6. ASSUME NEW c \in Callers, SleepCancelled(c) PROVE CallInv'
  BY <1>6 DEF SleepCancelled, Returns, vars
<1>7. ASSUME NEW c \in Callers, AttemptPanics(c) PROVE CallInv'
  BY <1>7 DEF AttemptPanics, Lose, Return, Returns
<1>8. ASSUME NEW c \in Callers, Cancel(c) PROVE CallInv'
  BY <1>8 DEF Cancel, vars
<1>9. CASE (Observe \/ Tick) /\ UNCHANGED callVars
  BY <1>9 DEF Observe, Tick, callVars
<1>10. CASE UNCHANGED clientVars
  BY <1>10 DEF clientVars, callVars, vars
<1> QED
  BY <1>1, <1>2, <1>3, <1>4, <1>5, <1>6, <1>7, <1>8, <1>9, <1>10 DEF ClientNext, CallStep

LEMMA CallInvariant == ClientSpec => []CallInv
<1>1. ClientInit => CallInv
  BY DEF ClientInit, Init, CallInv, CallTypes, OutIsSending, MayRepeat
<1> QED
  BY <1>1, CallInvStep, PTL DEF ClientSpec

\* A circuit whose probe is lent has an attempt on its way, or has lost the
\* probe to a panic: the breaker knows the probe as a call that is out, and a
\* call is out only while it is sending.
THEOREM ProbesComeBack == ClientSpec => []ProbeComesBack
<1>1. CallInv /\ ProbeIsOut => ProbeComesBack
  BY DEF CallInv, OutIsSending, ProbeIsOut, ProbeComesBack
<1> QED
  BY <1>1, CallInvariant, CallsUseBreaker, ProbeNeverLeaks, PTL

\* Only the end of an attempt sends, and it is a call that may repeat.
LEMMA SendStep ==
  CallInv /\ [ClientNext]_clientVars =>
    \A c \in Callers : sent[c] > 0 /\ sent'[c] > sent[c] => idem[c] /\ last[c] \in {"transport", "retry"}
<1> SUFFICES ASSUME CallInv, [ClientNext]_clientVars,
                    NEW c \in Callers, sent[c] > 0, sent'[c] > sent[c]
             PROVE  idem[c] /\ last[c] \in {"transport", "retry"}
  OBVIOUS
<1> USE DEF CallInv, CallTypes, MayRepeat
<1>1. ASSUME NEW d \in Callers, Do(d) PROVE FALSE
  BY <1>1 DEF Do
<1>2. ASSUME NEW d \in Callers, AttemptEnds(d) PROVE pc[c] = "sending"
  <2>1. c = d
    BY <1>2 DEF AttemptEnds
  <2> QED
    BY <1>2, <2>1 DEF AttemptEnds
<1>3. ASSUME NEW d \in Callers,
             AttemptGoes(d) \/ AttemptRefused(d) \/ SleepEnds(d) \/ SleepCancelled(d)
               \/ AttemptPanics(d) \/ Cancel(d)
      PROVE  FALSE
  <2>1. sent' = sent
    BY <1>3 DEF AttemptGoes, AttemptRefused, SleepEnds, SleepCancelled, AttemptPanics, Cancel
  <2> QED
    BY <2>1
<1>4. CASE UNCHANGED callVars
  BY <1>4 DEF callVars
<1> QED
  BY <1>1, <1>2, <1>3, <1>4 DEF ClientNext, CallStep, clientVars

\* A request goes out again only when its directive states that a retry is
\* safe, for any number of callers and attempts.
THEOREM RetriesAreSafe == ClientSpec => RetryOnlyWhenSafe
<1>1. CallInv /\ [ClientNext]_clientVars =>
        [\A c \in Callers :
           sent[c] > 0 /\ sent'[c] > sent[c] => idem[c] /\ last[c] \in {"transport", "retry"}]_clientVars
  BY SendStep
<1> QED
  BY <1>1, CallInvariant, PTL DEF ClientSpec, RetryOnlyWhenSafe

-----------------------------------------------------------------------------
(* The fields that the generator reads. *)

\* One field more, if the generator accepts it.
Took(taken, f) == IF Accepted(f) THEN Append(taken, f) ELSE taken
TakenFold(g, st, n) == g = [s \in SUBSET (1 .. n) |-> IF s = {} THEN <<>> ELSE Took(g[s \ {Max(s)}], st[Max(s)])]
TakenBy(st, n) == CHOOSE g : TakenFold(g, st, n)

\* ReadFields is this fold.
LEMMA TakenIs ==
  ASSUME NEW st, NEW n \in Nat, DOMAIN st = 1 .. n
  PROVE  ReadFields(st) = TakenBy(st, n)[1 .. n]
BY DEF TakenBy, ReadFields, FoldLeft, MapThenFoldSet, TakenFold, Took

\* The stages of that fold.
TakenStages(h, st, B) ==
    /\ h \in [0 .. Len(st) -> B] /\ h[0] = <<>> /\ h[Len(st)] = ReadFields(st)
    /\ \A m \in 1 .. Len(st) : h[m] = Took(h[m - 1], st[m])
LEMMA TakenStaged ==
  ASSUME NEW st, st \in Seq(Range(st))
  PROVE  \E h : TakenStages(h, st, Seq(Range(st)))
<1> DEFINE n == Len(st)
           B == Seq(Range(st))
           step == [ib \in (1 .. n) \X B |-> Took(ib[2], st[ib[1]])]
           it == TakenBy(st, n)
<1>1. n \in Nat /\ DOMAIN st = 1 .. n
  OBVIOUS
<1>2. <<>> \in B
  OBVIOUS
<1>3. ASSUME NEW b \in B, NEW i \in 1 .. n PROVE Took(b, st[i]) \in B
  <2>1. st[i] \in Range(st)
    BY <1>1 DEF Range
  <2> QED
    BY <2>1, AppendIn DEF Took
<1> HIDE DEF n, B
<1>4. step \in [(1 .. n) \X B -> B]
  BY <1>3
<1>5. \A i \in 1 .. n, b \in B : step[<<i, b>>] = Took(b, st[i])
  OBVIOUS
<1> HIDE DEF step
<1>6. PICK g \in [SUBSET (1 .. n) -> B] : IsFold(g, n, <<>>, step)
  BY <1>1, <1>2, <1>4, FoldExists
<1>7. \A s \in SUBSET (1 .. n) : s # {} => Max(s) \in 1 .. n
  BY <1>1, Greatest
<1>8. ASSUME NEW s \in SUBSET (1 .. n), s # {}
      PROVE  step[<<Max(s), g[s \ {Max(s)}]>>] = Took(g[s \ {Max(s)}], st[Max(s)])
  BY <1>5, <1>6, <1>7, <1>8
<1>9. TakenFold(g, st, n)
  BY <1>6, <1>8 DEF TakenFold, IsFold
<1>10. TakenFold(it, st, n)
  BY <1>9 DEF TakenBy
<1> HIDE DEF it
<1>11. it[{}] = <<>>
  BY <1>10 DEF TakenFold
<1>12. ASSUME NEW s \in SUBSET (1 .. n), s # {}, it[s \ {Max(s)}] \in B
       PROVE  it[s] = step[<<Max(s), it[s \ {Max(s)}]>>]
  <2>1. Max(s) \in 1 .. n
    BY <1>7, <1>12
  <2>2. it[s] = Took(it[s \ {Max(s)}], st[Max(s)])
    BY <1>10, <1>12 DEF TakenFold
  <2>3. step[<<Max(s), it[s \ {Max(s)}]>>] = Took(it[s \ {Max(s)}], st[Max(s)])
    BY <1>5, <1>12, <2>1
  <2> QED
    BY <2>2, <2>3
<1>13. n \in Nat /\ Follows(it, n, B, <<>>, step)
  BY <1>1, <1>11, <1>12 DEF Follows
<1>14. Staged(it, n, B, <<>>, step)
  BY <1>2, <1>4, <1>13, FoldStages
<1>15. PICK h : StagesOf(h, n, B, <<>>, step) /\ h[n] = it[1 .. n]
  BY <1>14 DEF Staged
<1>16. h \in [0 .. n -> B] /\ h[0] = <<>> /\ \A m \in 1 .. n : h[m] = step[<<m, h[m - 1]>>]
  BY <1>15 DEF StagesOf
<1>17. ASSUME NEW m \in 1 .. n PROVE h[m] = Took(h[m - 1], st[m])
  <2>1. m - 1 \in 0 .. n
    BY <1>1
  <2> QED
    BY <1>5, <1>16, <2>1
<1>18. ReadFields(st) = h[n]
  <2>1. ReadFields(st) = it[1 .. n]
    BY <1>1, TakenIs DEF it
  <2> QED
    BY <1>15, <2>1
<1> QED
  BY <1>16, <1>17, <1>18 DEF TakenStages, n, B

\* The generator reads the fields that it accepts, and no other.
LEMMA ReadsTheAccepted ==
  ASSUME NEW st, st \in Seq(Range(st))
  PROVE  ReadFields(st) \in Seq(Range(st)) /\ Range(ReadFields(st)) = {f \in Range(st) : Accepted(f)}
<1> DEFINE n == Len(st)
           A == Range(st)
<1>1. PICK h \in [0 .. n -> Seq(A)] :
          /\ h[0] = <<>> /\ h[n] = ReadFields(st)
          /\ \A m \in 1 .. n : h[m] = Took(h[m - 1], st[m])
  BY TakenStaged DEF TakenStages
<1>2. n \in Nat /\ DOMAIN st = 1 .. n /\ \A i \in 1 .. n : st[i] \in A
  BY DEF Range
<1>3. A = {st[i] : i \in 1 .. n}
  BY <1>2 DEF Range
<1> HIDE DEF n, A
<1> DEFINE First(m) == {f \in {st[i] : i \in 1 .. m} : Accepted(f)}
           Has == {m \in Nat : m <= n => Range(h[m]) = First(m)}
<1>4. 0 \in Has
  BY <1>1 DEF Range
<1>5. ASSUME NEW m \in Nat, m \in Has PROVE m + 1 \in Has
  <2> SUFFICES ASSUME m + 1 <= n PROVE Range(h[m + 1]) = First(m + 1)
    OBVIOUS
  <2>1. m \in 0 .. n /\ m + 1 \in 1 .. n /\ (m + 1) - 1 = m
    BY <1>2
  <2>2. h[m] \in Seq(A) /\ Range(h[m]) = First(m) /\ h[m + 1] = Took(h[m], st[m + 1]) /\ st[m + 1] \in A
    <3>1. h[m] \in Seq(A)
      BY <1>1, <2>1
    <3>2. h[m + 1] = Took(h[m], st[m + 1])
      BY <1>1, <2>1
    <3> QED
      BY <1>2, <1>5, <2>1, <3>1, <3>2
  <2>3. {st[i] : i \in 1 .. m + 1} = {st[i] : i \in 1 .. m} \cup {st[m + 1]}
    <3>1. 1 .. m + 1 = (1 .. m) \cup {m + 1}
      OBVIOUS
    <3> QED
      BY <3>1
  <2>4. CASE Accepted(st[m + 1])
    <3>1. h[m + 1] = Append(h[m], st[m + 1])
      BY <2>2, <2>4 DEF Took
    <3>2. Range(h[m + 1]) = Range(h[m]) \cup {st[m + 1]}
      BY <2>2, <3>1, RangeOfAppend
    <3> QED
      BY <2>2, <2>3, <2>4, <3>2
  <2>5. CASE ~Accepted(st[m + 1])
    BY <2>2, <2>3, <2>5 DEF Took
  <2> QED
    BY <2>4, <2>5
<1>6. n \in Has
  <2> HIDE DEF Has
  <2> QED
    BY <1>2, <1>4, <1>5, SetInduction
<1>7. Range(h[n]) = First(n)
  BY <1>2, <1>6
<1>8. ReadFields(st) \in Seq(A) /\ Range(ReadFields(st)) = {f \in A : Accepted(f)}
  <2>1. h[n] \in Seq(A)
    BY <1>1, <1>2
  <2>2. First(n) = {f \in A : Accepted(f)}
    BY <1>3
  <2> QED
    BY <1>1, <1>7, <2>1, <2>2
<1> QED
  BY <1>8 DEF A

-----------------------------------------------------------------------------
(* The members that the description states. *)

Members(st) == UNION {{MemberOf(f, in) : in \in Place(f)} : f \in Range(st)}

\* The member of one field more, unless the body holds its name.
Stating1(acc, f) ==
    acc \cup {m \in {MemberOf(f, in) : in \in Place(f)} :
               m.in \in {"json", "form"} => ~\E o \in acc : o.in \in {"json", "form"} /\ o.name = m.name}
StatingFold(g, st, n) == g = [s \in SUBSET (1 .. n) |-> IF s = {} THEN {} ELSE Stating1(g[s \ {Max(s)}], st[Max(s)])]
StatingBy(st, n) == CHOOSE g : StatingFold(g, st, n)

\* InputOf is this fold.
LEMMA StatingIs ==
  ASSUME NEW st, NEW n \in Nat, DOMAIN st = 1 .. n
  PROVE  InputOf(st) = StatingBy(st, n)[1 .. n]
BY DEF StatingBy, InputOf, FoldLeft, MapThenFoldSet, StatingFold, Stating1

\* The stages of that fold.
StatingStages(h, st, B) ==
    /\ h \in [0 .. Len(st) -> B] /\ h[0] = {} /\ h[Len(st)] = InputOf(st)
    /\ \A m \in 1 .. Len(st) : h[m] = Stating1(h[m - 1], st[m])
LEMMA StatingStaged ==
  ASSUME NEW st, st \in Seq(Range(st))
  PROVE  \E h : StatingStages(h, st, SUBSET Members(st))
<1> DEFINE n == Len(st)
           B == SUBSET Members(st)
           step == [ib \in (1 .. n) \X B |-> Stating1(ib[2], st[ib[1]])]
           it == StatingBy(st, n)
<1>1. n \in Nat /\ DOMAIN st = 1 .. n
  OBVIOUS
<1>2. {} \in B
  OBVIOUS
<1>3. ASSUME NEW b \in B, NEW i \in 1 .. n PROVE Stating1(b, st[i]) \in B
  <2>1. st[i] \in Range(st)
    BY <1>1 DEF Range
  <2>2. {MemberOf(st[i], in) : in \in Place(st[i])} \subseteq Members(st)
    BY <2>1 DEF Members
  <2> QED
    BY <2>2 DEF Stating1
<1> HIDE DEF n, B
<1>4. step \in [(1 .. n) \X B -> B]
  BY <1>3
<1>5. \A i \in 1 .. n, b \in B : step[<<i, b>>] = Stating1(b, st[i])
  OBVIOUS
<1> HIDE DEF step
<1>6. PICK g \in [SUBSET (1 .. n) -> B] : IsFold(g, n, {}, step)
  BY <1>1, <1>2, <1>4, FoldExists
<1>7. \A s \in SUBSET (1 .. n) : s # {} => Max(s) \in 1 .. n
  BY <1>1, Greatest
<1>8. ASSUME NEW s \in SUBSET (1 .. n), s # {}
      PROVE  step[<<Max(s), g[s \ {Max(s)}]>>] = Stating1(g[s \ {Max(s)}], st[Max(s)])
  BY <1>5, <1>6, <1>7, <1>8
<1>9. StatingFold(g, st, n)
  BY <1>6, <1>8 DEF StatingFold, IsFold
<1>10. StatingFold(it, st, n)
  BY <1>9 DEF StatingBy
<1> HIDE DEF it
<1>11. it[{}] = {}
  BY <1>10 DEF StatingFold
<1>12. ASSUME NEW s \in SUBSET (1 .. n), s # {}, it[s \ {Max(s)}] \in B
       PROVE  it[s] = step[<<Max(s), it[s \ {Max(s)}]>>]
  <2>1. Max(s) \in 1 .. n
    BY <1>7, <1>12
  <2>2. it[s] = Stating1(it[s \ {Max(s)}], st[Max(s)])
    BY <1>10, <1>12 DEF StatingFold
  <2>3. step[<<Max(s), it[s \ {Max(s)}]>>] = Stating1(it[s \ {Max(s)}], st[Max(s)])
    BY <1>5, <1>12, <2>1
  <2> QED
    BY <2>2, <2>3
<1>13. n \in Nat /\ Follows(it, n, B, {}, step)
  BY <1>1, <1>11, <1>12 DEF Follows
<1>14. Staged(it, n, B, {}, step)
  BY <1>2, <1>4, <1>13, FoldStages
<1>15. PICK h : StagesOf(h, n, B, {}, step) /\ h[n] = it[1 .. n]
  BY <1>14 DEF Staged
<1>16. h \in [0 .. n -> B] /\ h[0] = {} /\ \A m \in 1 .. n : h[m] = step[<<m, h[m - 1]>>]
  BY <1>15 DEF StagesOf
<1>17. ASSUME NEW m \in 1 .. n PROVE h[m] = Stating1(h[m - 1], st[m])
  <2>1. m - 1 \in 0 .. n
    BY <1>1
  <2> QED
    BY <1>5, <1>16, <2>1
<1>18. InputOf(st) = h[n]
  <2>1. InputOf(st) = it[1 .. n]
    BY <1>1, StatingIs DEF it
  <2> QED
    BY <1>15, <2>1
<1> QED
  BY <1>16, <1>17, <1>18 DEF StatingStages, n, B

\* A stated member is one of a field.
LEMMA StatesItsFields ==
  ASSUME NEW st, st \in Seq(Range(st)), NEW p \in InputOf(st)
  PROVE  \E f \in Range(st) : \E in \in Place(f) : p = MemberOf(f, in)
<1>1. PICK h \in [0 .. Len(st) -> SUBSET Members(st)] : h[Len(st)] = InputOf(st)
  BY StatingStaged DEF StatingStages
<1>2. Len(st) \in 0 .. Len(st)
  OBVIOUS
<1>3. p \in Members(st)
  BY <1>1, <1>2
<1> QED
  BY <1>3 DEF Members

-----------------------------------------------------------------------------
(* The messages of Validate. *)

\* Messages under some of the names N, and the rules of a field in X.
RulesIn(f, X) == f.rules \in Seq(Range(f.rules)) /\ \A r \in Range(f.rules) : r.name \in X
Messages(N, X) == UNION {[D -> X] : D \in SUBSET N}

\* No message is one of them, and so is one message more.
LEMMA MessagesGrow ==
  ASSUME NEW N, NEW X
  PROVE  /\ <<>> \in Messages(N, X)
         /\ \A told \in Messages(N, X), name \in N, rule \in X :
               AddMessage(told, name, rule) \in Messages(N, X) /\ AddMessage(told, name, rule) # <<>>
<1>1. <<>> \in Messages(N, X)
  <2>1. <<>> \in [{} -> X]
    OBVIOUS
  <2> QED
    BY <2>1 DEF Messages
<1>2. ASSUME NEW told \in Messages(N, X), NEW name \in N, NEW rule \in X
      PROVE  AddMessage(told, name, rule) \in Messages(N, X) /\ AddMessage(told, name, rule) # <<>>
  <2>1. PICK D \in SUBSET N : told \in [D -> X]
    BY DEF Messages
  <2>2. CASE name \in DOMAIN told
    BY <2>2 DEF AddMessage
  <2>3. CASE name \notin DOMAIN told
    <3> DEFINE E == D \cup {name}
    <3>1. AddMessage(told, name, rule) = [x \in E |-> IF x = name THEN rule ELSE told[x]]
      BY <2>1, <2>3 DEF AddMessage, Put
    <3>2. AddMessage(told, name, rule) \in [E -> X] /\ E \in SUBSET N /\ name \in DOMAIN AddMessage(told, name, rule)
      BY <2>1, <3>1
    <3>3. AddMessage(told, name, rule) \in Messages(N, X)
      BY <3>2 DEF Messages
    <3>4. AddMessage(told, name, rule) # <<>>
      BY <3>2
    <3> QED
      BY <3>3, <3>4
  <2> QED
    BY <2>2, <2>3
<1> QED
  BY <1>1, <1>2

\* The messages after one rule more, and after every rule of a field.
Ruled1(acc, r, f, v) == IF Fails(r, f.kind, v) THEN AddMessage(acc, Wire(f), r.name) ELSE acc
Ruled(told, f, v) == FoldLeft(LAMBDA acc, r : IF Fails(r, f.kind, v) THEN AddMessage(acc, Wire(f), r.name) ELSE acc,
                              told, f.rules)
RuledFold(g, told, f, v, n) == g = [s \in SUBSET (1 .. n) |-> IF s = {} THEN told ELSE Ruled1(g[s \ {Max(s)}], f.rules[Max(s)], f, v)]
RuledBy(told, f, v, n) == CHOOSE g : RuledFold(g, told, f, v, n)

\* The messages of one field are this fold.
LEMMA RuledIs ==
  ASSUME NEW told, NEW f, NEW v, NEW n \in Nat, DOMAIN f.rules = 1 .. n
  PROVE  Ruled(told, f, v) = RuledBy(told, f, v, n)[1 .. n]
BY DEF RuledBy, Ruled, FoldLeft, MapThenFoldSet, RuledFold, Ruled1

\* The stages of that fold.
RuledStages(h, told, f, v, B) ==
    /\ h \in [0 .. Len(f.rules) -> B] /\ h[0] = told /\ h[Len(f.rules)] = Ruled(told, f, v)
    /\ \A m \in 1 .. Len(f.rules) : h[m] = Ruled1(h[m - 1], f.rules[m], f, v)
LEMMA RuledStaged ==
  ASSUME NEW told, NEW f, NEW v, NEW N, NEW X, told \in Messages(N, X), Wire(f) \in N,
         RulesIn(f, X)
  PROVE  \E h : RuledStages(h, told, f, v, Messages(N, X))
<1> DEFINE n == Len(f.rules)
           B == Messages(N, X)
           step == [ib \in (1 .. n) \X B |-> Ruled1(ib[2], f.rules[ib[1]], f, v)]
           it == RuledBy(told, f, v, n)
<1>1. n \in Nat /\ DOMAIN f.rules = 1 .. n
  BY DEF RulesIn
<1>2. told \in B
  OBVIOUS
<1>3. ASSUME NEW b \in B, NEW i \in 1 .. n PROVE Ruled1(b, f.rules[i], f, v) \in B
  <2>1. f.rules[i] \in Range(f.rules)
    BY <1>1 DEF Range
  <2>2. f.rules[i].name \in X
    BY <2>1 DEF RulesIn
  <2> QED
    BY <2>2, MessagesGrow DEF Ruled1
<1> HIDE DEF n, B
<1>4. step \in [(1 .. n) \X B -> B]
  BY <1>3
<1>5. \A i \in 1 .. n, b \in B : step[<<i, b>>] = Ruled1(b, f.rules[i], f, v)
  OBVIOUS
<1> HIDE DEF step
<1>6. PICK g \in [SUBSET (1 .. n) -> B] : IsFold(g, n, told, step)
  BY <1>1, <1>2, <1>4, FoldExists
<1>7. \A s \in SUBSET (1 .. n) : s # {} => Max(s) \in 1 .. n
  BY <1>1, Greatest
<1>8. ASSUME NEW s \in SUBSET (1 .. n), s # {}
      PROVE  step[<<Max(s), g[s \ {Max(s)}]>>] = Ruled1(g[s \ {Max(s)}], f.rules[Max(s)], f, v)
  BY <1>5, <1>6, <1>7, <1>8
<1>9. RuledFold(g, told, f, v, n)
  BY <1>6, <1>8 DEF RuledFold, IsFold
<1>10. RuledFold(it, told, f, v, n)
  BY <1>9 DEF RuledBy
<1> HIDE DEF it
<1>11. it[{}] = told
  BY <1>10 DEF RuledFold
<1>12. ASSUME NEW s \in SUBSET (1 .. n), s # {}, it[s \ {Max(s)}] \in B
       PROVE  it[s] = step[<<Max(s), it[s \ {Max(s)}]>>]
  <2>1. Max(s) \in 1 .. n
    BY <1>7, <1>12
  <2>2. it[s] = Ruled1(it[s \ {Max(s)}], f.rules[Max(s)], f, v)
    BY <1>10, <1>12 DEF RuledFold
  <2>3. step[<<Max(s), it[s \ {Max(s)}]>>] = Ruled1(it[s \ {Max(s)}], f.rules[Max(s)], f, v)
    BY <1>5, <1>12, <2>1
  <2> QED
    BY <2>2, <2>3
<1>13. n \in Nat /\ Follows(it, n, B, told, step)
  BY <1>1, <1>11, <1>12 DEF Follows
<1>14. Staged(it, n, B, told, step)
  BY <1>2, <1>4, <1>13, FoldStages
<1>15. PICK h : StagesOf(h, n, B, told, step) /\ h[n] = it[1 .. n]
  BY <1>14 DEF Staged
<1>16. h \in [0 .. n -> B] /\ h[0] = told /\ \A m \in 1 .. n : h[m] = step[<<m, h[m - 1]>>]
  BY <1>15 DEF StagesOf
<1>17. ASSUME NEW m \in 1 .. n PROVE h[m] = Ruled1(h[m - 1], f.rules[m], f, v)
  <2>1. m - 1 \in 0 .. n
    BY <1>1
  <2> QED
    BY <1>5, <1>16, <2>1
<1>18. Ruled(told, f, v) = h[n]
  <2>1. Ruled(told, f, v) = it[1 .. n]
    BY <1>1, RuledIs DEF it
  <2> QED
    BY <1>15, <2>1
<1> QED
  BY <1>16, <1>17, <1>18 DEF RuledStages, n, B

\* A field of which a rule fails leaves a message, and no field takes one away.
LEMMA RuledMarks ==
  ASSUME NEW told, NEW f, NEW v, NEW N, NEW X, told \in Messages(N, X), Wire(f) \in N,
         RulesIn(f, X)
  PROVE  /\ Ruled(told, f, v) \in Messages(N, X)
         /\ Ruled(told, f, v) = <<>> => told = <<>> /\ \A r \in Range(f.rules) : ~Fails(r, f.kind, v)
<1> DEFINE n == Len(f.rules)
           B == Messages(N, X)
           bad == {i \in 1 .. n : Fails(f.rules[i], f.kind, v)}
<1>1. PICK h \in [0 .. n -> B] :
          h[0] = told /\ h[n] = Ruled(told, f, v) /\ \A m \in 1 .. n : h[m] = Ruled1(h[m - 1], f.rules[m], f, v)
  <2>1. PICK h : RuledStages(h, told, f, v, B)
    BY RuledStaged
  <2> QED
    BY <2>1 DEF RuledStages
<1>2. n \in Nat /\ DOMAIN f.rules = 1 .. n /\ \A i \in 1 .. n : f.rules[i] \in Range(f.rules)
  BY DEF Range, RulesIn
<1> HIDE DEF n
<1>3. ASSUME NEW m \in 1 .. n, h[m - 1] # <<>> \/ m \in bad PROVE h[m] # <<>>
  <2>1. m - 1 \in 0 .. n
    BY <1>2
  <2>2. h[m - 1] \in B
    BY <1>1, <2>1
  <2>3. f.rules[m].name \in X
    BY <1>2 DEF RulesIn
  <2>4. h[m] = Ruled1(h[m - 1], f.rules[m], f, v)
    BY <1>1
  <2> QED
    BY <1>3, <2>2, <2>3, <2>4, MessagesGrow DEF Ruled1
<1> HIDE DEF bad
<1>4. h[n] = <<>> => h[0] = <<>> /\ \A m \in 1 .. n : m \notin bad
  BY <1>2, <1>3, Marked
<1>5. h[n] \in B
  BY <1>1, <1>2
<1> QED
  BY <1>1, <1>2, <1>4, <1>5 DEF Range, bad

\* The messages after one field more, and after all of them.
Judged1(acc, f, in) == Ruled(acc, f, in[f.name])
Judged(fields, in) == FoldLeft(LAMBDA acc, f : Ruled(acc, f, in[f.name]), <<>>, fields)
JudgedFold(g, fields, in, n) == g = [s \in SUBSET (1 .. n) |-> IF s = {} THEN <<>> ELSE Judged1(g[s \ {Max(s)}], fields[Max(s)], in)]
JudgedBy(fields, in, n) == CHOOSE g : JudgedFold(g, fields, in, n)

\* The messages of the fields are this fold.
LEMMA JudgedIs ==
  ASSUME NEW fields, NEW in, NEW n \in Nat, DOMAIN fields = 1 .. n
  PROVE  Judged(fields, in) = JudgedBy(fields, in, n)[1 .. n]
BY DEF JudgedBy, Judged, FoldLeft, MapThenFoldSet, JudgedFold, Judged1

\* The stages of that fold.
JudgedStages(h, fields, in, B) ==
    /\ h \in [0 .. Len(fields) -> B] /\ h[0] = <<>> /\ h[Len(fields)] = Judged(fields, in)
    /\ \A m \in 1 .. Len(fields) : h[m] = Judged1(h[m - 1], fields[m], in)
LEMMA JudgedStaged ==
  ASSUME NEW fields, NEW in, NEW N, NEW X, fields \in Seq(Range(fields)),
         \A f \in Range(fields) : Wire(f) \in N /\ RulesIn(f, X)
  PROVE  \E h : JudgedStages(h, fields, in, Messages(N, X))
<1> DEFINE n == Len(fields)
           B == Messages(N, X)
           step == [ib \in (1 .. n) \X B |-> Judged1(ib[2], fields[ib[1]], in)]
           it == JudgedBy(fields, in, n)
<1>1. n \in Nat /\ DOMAIN fields = 1 .. n
  OBVIOUS
<1>2. <<>> \in B
  BY MessagesGrow
<1>3. ASSUME NEW b \in B, NEW i \in 1 .. n PROVE Judged1(b, fields[i], in) \in B
  <2>1. fields[i] \in Range(fields)
    BY <1>1 DEF Range
  <2> QED
    BY <2>1, RuledMarks DEF Judged1
<1> HIDE DEF n, B
<1>4. step \in [(1 .. n) \X B -> B]
  BY <1>3
<1>5. \A i \in 1 .. n, b \in B : step[<<i, b>>] = Judged1(b, fields[i], in)
  OBVIOUS
<1> HIDE DEF step
<1>6. PICK g \in [SUBSET (1 .. n) -> B] : IsFold(g, n, <<>>, step)
  BY <1>1, <1>2, <1>4, FoldExists
<1>7. \A s \in SUBSET (1 .. n) : s # {} => Max(s) \in 1 .. n
  BY <1>1, Greatest
<1>8. ASSUME NEW s \in SUBSET (1 .. n), s # {}
      PROVE  step[<<Max(s), g[s \ {Max(s)}]>>] = Judged1(g[s \ {Max(s)}], fields[Max(s)], in)
  BY <1>5, <1>6, <1>7, <1>8
<1>9. JudgedFold(g, fields, in, n)
  BY <1>6, <1>8 DEF JudgedFold, IsFold
<1>10. JudgedFold(it, fields, in, n)
  BY <1>9 DEF JudgedBy
<1> HIDE DEF it
<1>11. it[{}] = <<>>
  BY <1>10 DEF JudgedFold
<1>12. ASSUME NEW s \in SUBSET (1 .. n), s # {}, it[s \ {Max(s)}] \in B
       PROVE  it[s] = step[<<Max(s), it[s \ {Max(s)}]>>]
  <2>1. Max(s) \in 1 .. n
    BY <1>7, <1>12
  <2>2. it[s] = Judged1(it[s \ {Max(s)}], fields[Max(s)], in)
    BY <1>10, <1>12 DEF JudgedFold
  <2>3. step[<<Max(s), it[s \ {Max(s)}]>>] = Judged1(it[s \ {Max(s)}], fields[Max(s)], in)
    BY <1>5, <1>12, <2>1
  <2> QED
    BY <2>2, <2>3
<1>13. n \in Nat /\ Follows(it, n, B, <<>>, step)
  BY <1>1, <1>11, <1>12 DEF Follows
<1>14. Staged(it, n, B, <<>>, step)
  BY <1>2, <1>4, <1>13, FoldStages
<1>15. PICK h : StagesOf(h, n, B, <<>>, step) /\ h[n] = it[1 .. n]
  BY <1>14 DEF Staged
<1>16. h \in [0 .. n -> B] /\ h[0] = <<>> /\ \A m \in 1 .. n : h[m] = step[<<m, h[m - 1]>>]
  BY <1>15 DEF StagesOf
<1>17. ASSUME NEW m \in 1 .. n PROVE h[m] = Judged1(h[m - 1], fields[m], in)
  <2>1. m - 1 \in 0 .. n
    BY <1>1
  <2> QED
    BY <1>5, <1>16, <2>1
<1>18. Judged(fields, in) = h[n]
  <2>1. Judged(fields, in) = it[1 .. n]
    BY <1>1, JudgedIs DEF it
  <2> QED
    BY <1>15, <2>1
<1> QED
  BY <1>16, <1>17, <1>18 DEF JudgedStages, n, B

\* Without a message no rule of a field fails.
LEMMA JudgedMarks ==
  ASSUME NEW fields, NEW in, NEW N, NEW X, fields \in Seq(Range(fields)),
         \A f \in Range(fields) : Wire(f) \in N /\ RulesIn(f, X)
  PROVE  /\ Judged(fields, in) \in Messages(N, X)
         /\ Judged(fields, in) = <<>> => \A f \in Range(fields) : \A r \in Range(f.rules) : ~Fails(r, f.kind, in[f.name])
         /\ fields = <<>> => Judged(fields, in) = <<>>
<1> DEFINE n == Len(fields)
           B == Messages(N, X)
           bad == {i \in 1 .. n : \E r \in Range(fields[i].rules) : Fails(r, fields[i].kind, in[fields[i].name])}
<1>1. PICK h \in [0 .. n -> B] :
          h[0] = <<>> /\ h[n] = Judged(fields, in) /\ \A m \in 1 .. n : h[m] = Judged1(h[m - 1], fields[m], in)
  <2>1. PICK h : JudgedStages(h, fields, in, B)
    BY JudgedStaged
  <2> QED
    BY <2>1 DEF JudgedStages
<1>2. n \in Nat /\ DOMAIN fields = 1 .. n /\ (\A i \in 1 .. n : fields[i] \in Range(fields)) /\ (fields = <<>> => n = 0)
  BY DEF Range
<1> HIDE DEF n
<1>3. ASSUME NEW m \in 1 .. n, h[m - 1] # <<>> \/ m \in bad PROVE h[m] # <<>>
  <2>1. m - 1 \in 0 .. n
    BY <1>2
  <2>2. h[m - 1] \in B
    BY <1>1, <2>1
  <2>3. fields[m] \in Range(fields)
    BY <1>2
  <2>4. h[m] = Ruled(h[m - 1], fields[m], in[fields[m].name])
    BY <1>1 DEF Judged1
  <2>5. h[m] = <<>> => h[m - 1] = <<>> /\ \A r \in Range(fields[m].rules) : ~Fails(r, fields[m].kind, in[fields[m].name])
    BY <2>2, <2>3, <2>4, RuledMarks
  <2> QED
    BY <1>3, <2>5
<1> HIDE DEF bad
<1>4. h[n] = <<>> => h[0] = <<>> /\ \A m \in 1 .. n : m \notin bad
  BY <1>2, <1>3, Marked
<1>5. h[n] \in B
  BY <1>1, <1>2
<1>6. ASSUME h[n] = <<>>, NEW f \in Range(fields), NEW r \in Range(f.rules) PROVE ~Fails(r, f.kind, in[f.name])
  <2>1. PICK i \in 1 .. n : f = fields[i]
    BY <1>2 DEF Range
  <2>2. i \notin bad
    BY <1>4, <1>6
  <2> QED
    BY <1>6, <2>1, <2>2 DEF bad
<1> QED
  BY <1>1, <1>2, <1>5, <1>6

\* The messages after one of the Check method more, and after all of them.
Checked1(acc, name) == AddMessage(acc, name, "check")
Checked(told, check) == FoldLeft(LAMBDA acc, name : AddMessage(acc, name, "check"), told, check)
CheckedFold(g, told, check, n) == g = [s \in SUBSET (1 .. n) |-> IF s = {} THEN told ELSE Checked1(g[s \ {Max(s)}], check[Max(s)])]
CheckedBy(told, check, n) == CHOOSE g : CheckedFold(g, told, check, n)

\* The messages of the Check method join in this fold.
LEMMA CheckedIs ==
  ASSUME NEW told, NEW check, NEW n \in Nat, DOMAIN check = 1 .. n
  PROVE  Checked(told, check) = CheckedBy(told, check, n)[1 .. n]
BY DEF CheckedBy, Checked, FoldLeft, MapThenFoldSet, CheckedFold, Checked1

\* The stages of that fold.
CheckedStages(h, told, check, B) ==
    /\ h \in [0 .. Len(check) -> B] /\ h[0] = told /\ h[Len(check)] = Checked(told, check)
    /\ \A m \in 1 .. Len(check) : h[m] = Checked1(h[m - 1], check[m])
LEMMA CheckedStaged ==
  ASSUME NEW told, NEW check, NEW N, NEW X, told \in Messages(N, X), check \in Seq(Range(check)), Range(check) \subseteq N, "check" \in X
  PROVE  \E h : CheckedStages(h, told, check, Messages(N, X))
<1> DEFINE n == Len(check)
           B == Messages(N, X)
           step == [ib \in (1 .. n) \X B |-> Checked1(ib[2], check[ib[1]])]
           it == CheckedBy(told, check, n)
<1>1. n \in Nat /\ DOMAIN check = 1 .. n
  OBVIOUS
<1>2. told \in B
  OBVIOUS
<1>3. ASSUME NEW b \in B, NEW i \in 1 .. n PROVE Checked1(b, check[i]) \in B
  <2>1. check[i] \in Range(check)
    BY <1>1 DEF Range
  <2> QED
    BY <2>1, MessagesGrow DEF Checked1
<1> HIDE DEF n, B
<1>4. step \in [(1 .. n) \X B -> B]
  BY <1>3
<1>5. \A i \in 1 .. n, b \in B : step[<<i, b>>] = Checked1(b, check[i])
  OBVIOUS
<1> HIDE DEF step
<1>6. PICK g \in [SUBSET (1 .. n) -> B] : IsFold(g, n, told, step)
  BY <1>1, <1>2, <1>4, FoldExists
<1>7. \A s \in SUBSET (1 .. n) : s # {} => Max(s) \in 1 .. n
  BY <1>1, Greatest
<1>8. ASSUME NEW s \in SUBSET (1 .. n), s # {}
      PROVE  step[<<Max(s), g[s \ {Max(s)}]>>] = Checked1(g[s \ {Max(s)}], check[Max(s)])
  BY <1>5, <1>6, <1>7, <1>8
<1>9. CheckedFold(g, told, check, n)
  BY <1>6, <1>8 DEF CheckedFold, IsFold
<1>10. CheckedFold(it, told, check, n)
  BY <1>9 DEF CheckedBy
<1> HIDE DEF it
<1>11. it[{}] = told
  BY <1>10 DEF CheckedFold
<1>12. ASSUME NEW s \in SUBSET (1 .. n), s # {}, it[s \ {Max(s)}] \in B
       PROVE  it[s] = step[<<Max(s), it[s \ {Max(s)}]>>]
  <2>1. Max(s) \in 1 .. n
    BY <1>7, <1>12
  <2>2. it[s] = Checked1(it[s \ {Max(s)}], check[Max(s)])
    BY <1>10, <1>12 DEF CheckedFold
  <2>3. step[<<Max(s), it[s \ {Max(s)}]>>] = Checked1(it[s \ {Max(s)}], check[Max(s)])
    BY <1>5, <1>12, <2>1
  <2> QED
    BY <2>2, <2>3
<1>13. n \in Nat /\ Follows(it, n, B, told, step)
  BY <1>1, <1>11, <1>12 DEF Follows
<1>14. Staged(it, n, B, told, step)
  BY <1>2, <1>4, <1>13, FoldStages
<1>15. PICK h : StagesOf(h, n, B, told, step) /\ h[n] = it[1 .. n]
  BY <1>14 DEF Staged
<1>16. h \in [0 .. n -> B] /\ h[0] = told /\ \A m \in 1 .. n : h[m] = step[<<m, h[m - 1]>>]
  BY <1>15 DEF StagesOf
<1>17. ASSUME NEW m \in 1 .. n PROVE h[m] = Checked1(h[m - 1], check[m])
  <2>1. m - 1 \in 0 .. n
    BY <1>1
  <2> QED
    BY <1>5, <1>16, <2>1
<1>18. Checked(told, check) = h[n]
  <2>1. Checked(told, check) = it[1 .. n]
    BY <1>1, CheckedIs DEF it
  <2> QED
    BY <1>15, <2>1
<1> QED
  BY <1>16, <1>17, <1>18 DEF CheckedStages, n, B

\* Validate is the messages of the fields, then those of the Check method.
LEMMA ValidateIs ==
  ASSUME NEW st, NEW in, NEW check
  PROVE  Validate(st, in, check) = Checked(Judged(ReadFields(st), in), check)
BY DEF Validate, Checked, Judged, Ruled

\* A value without a message keeps every rule of every field; a type without fields and without a Check method has no
\* message.
LEMMA ValidateMarks ==
  ASSUME NEW st, NEW in, NEW check, ReadFields(st) \in Seq(Range(ReadFields(st))), check \in Seq(Range(check)),
         \A f \in Range(ReadFields(st)) : f.rules \in Seq(Range(f.rules))
  PROVE  /\ Validate(st, in, check) = <<>> =>
              \A f \in Range(ReadFields(st)) : \A r \in Range(f.rules) : ~Fails(r, f.kind, in[f.name])
         /\ ReadFields(st) = <<>> /\ check = <<>> => Validate(st, in, check) = <<>>
<1> DEFINE fields == ReadFields(st)
           N == {Wire(f) : f \in Range(fields)} \cup Range(check)
           X == (UNION {{r.name : r \in Range(f.rules)} : f \in Range(fields)}) \cup {"check"}
           told == Judged(fields, in)
           n == Len(check)
           B == Messages(N, X)
           bad == {}
<1>1. /\ \A f \in Range(fields) : Wire(f) \in N /\ RulesIn(f, X)
      /\ Range(check) \subseteq N /\ "check" \in X
  <2>1. ASSUME NEW f \in Range(fields) PROVE Wire(f) \in N /\ f.rules \in Seq(Range(f.rules))
    BY <2>1
  <2>2. ASSUME NEW f \in Range(fields), NEW r \in Range(f.rules) PROVE r.name \in X
    BY <2>2
  <2> QED
    BY <2>1, <2>2 DEF RulesIn
<1> HIDE DEF fields, N, X
<1>2. /\ told \in B
      /\ told = <<>> => \A f \in Range(fields) : \A r \in Range(f.rules) : ~Fails(r, f.kind, in[f.name])
      /\ fields = <<>> => told = <<>>
  BY <1>1, JudgedMarks DEF fields
<1> HIDE DEF told
<1>3. PICK h \in [0 .. n -> B] :
          h[0] = told /\ h[n] = Checked(told, check) /\ \A m \in 1 .. n : h[m] = Checked1(h[m - 1], check[m])
  <2>1. PICK h : CheckedStages(h, told, check, B)
    BY <1>1, <1>2, CheckedStaged
  <2> QED
    BY <2>1 DEF CheckedStages
<1>4. n \in Nat /\ DOMAIN check = 1 .. n /\ (\A i \in 1 .. n : check[i] \in Range(check)) /\ (check = <<>> => n = 0)
  BY DEF Range
<1> HIDE DEF n
<1>5. ASSUME NEW m \in 1 .. n, h[m - 1] # <<>> \/ m \in bad PROVE h[m] # <<>>
  <2>1. m - 1 \in 0 .. n
    BY <1>4
  <2>2. h[m - 1] \in B /\ check[m] \in N /\ h[m] = AddMessage(h[m - 1], check[m], "check")
    BY <1>1, <1>3, <1>4, <2>1 DEF Checked1
  <2> QED
    BY <1>1, <2>2, MessagesGrow
<1> HIDE DEF bad
<1>6. h[n] = <<>> => h[0] = <<>>
  BY <1>4, <1>5, Marked
<1>7. Validate(st, in, check) = h[n]
  BY <1>3, ValidateIs DEF told, fields
<1> QED
  BY <1>2, <1>3, <1>4, <1>6, <1>7 DEF fields

-----------------------------------------------------------------------------
(* The binding of a type without a field: nothing faults. *)

NoneFold(g, src, st, r, acc) ==
    g = [s \in SUBSET (1 .. 0) |-> IF s = {} THEN acc
                                  ELSE LET f == st[Max(s)]
                                           v == Carried(src, f, r)
                                           a == g[s \ {Max(s)}]
                                       IN IF v = {} THEN a ELSE Fill(a, f, Read(f.kind, CHOOSE x \in v : TRUE))]

\* A source gives nothing to no field.
LEMMA NoFieldNoText ==
  ASSUME NEW src, NEW r, NEW acc
  PROVE  FromSource(<<>>, src, r, acc) = acc
<1> DEFINE st == <<>>
           g1 == CHOOSE g : NoneFold(g, src, st, r, acc)
<1>1. DOMAIN st = 1 .. 0 /\ SUBSET (1 .. 0) = {{}} /\ 1 .. 0 = {}
  OBVIOUS
<1> HIDE DEF st
<1>2. FromSource(st, src, r, acc) = g1[1 .. 0]
  BY <1>1 DEF FromSource, FoldLeft, MapThenFoldSet, NoneFold
<1>3. NoneFold([s \in SUBSET (1 .. 0) |-> acc], src, st, r, acc)
  BY <1>1 DEF NoneFold
<1>4. NoneFold(g1, src, st, r, acc)
  BY <1>3
<1> HIDE DEF g1
<1>5. g1[{}] = acc
  BY <1>1, <1>4 DEF NoneFold
<1> QED
  BY <1>1, <1>2, <1>5 DEF st

\* A binding that faults has a field to read.
LEMMA FaultNeedsField ==
  ASSUME NEW st, NEW r, NEW method, ReadFields(st) = <<>>
  PROVE  ~Bind(st, r, method).fault
<1> DEFINE none == <<>>
           start == [in |-> [n \in {st[i].name : i \in DOMAIN st} |->
                               Zero(st[CHOOSE i \in DOMAIN st : st[i].name = n].kind)],
                     fault |-> FALSE]
           json == FromJson(st, r, start)
           parsed == [json EXCEPT !.fault = @ \/ ParseFails(none, r, method)]
<1>1. DOMAIN none = {}
  OBVIOUS
<1>2. ReadFields(st) = none
  OBVIOUS
<1> HIDE DEF none
<1>3. ~AnyFile(none) /\ \A src : ~Binds(none, src)
  BY <1>1 DEF AnyFile, Binds
<1>4. ~ParseFails(none, r, method)
  BY <1>3 DEF ParseFails
<1>5. json = start
  BY <1>2, <1>3 DEF FromJson
<1>6. ~parsed.fault
  <2> DEFINE zeros == [n \in {st[i].name : i \in DOMAIN st} |-> Zero(st[CHOOSE i \in DOMAIN st : st[i].name = n].kind)]
  <2>0. start = [in |-> zeros, fault |-> FALSE]
    OBVIOUS
  <2> HIDE DEF start, zeros
  <2> DEFINE b == start.fault \/ ParseFails(none, r, method)
  <2>1. start.fault = FALSE /\ "fault" \in DOMAIN start
    BY <2>0
  <2>2. ~b
    BY <1>4, <2>1
  <2>3. parsed = [start EXCEPT !.fault = b]
    BY <1>5
  <2> HIDE DEF b, parsed
  <2>4. parsed.fault = b
    BY <2>1, <2>3
  <2> QED
    BY <2>2, <2>4
<1>7. \A src, a : FromSource(none, src, r, a) = a
  BY NoFieldNoText DEF none
<1>8. Bind(st, r, method) = parsed
  <2> HIDE DEF parsed
  <2>1. Bind(st, r, method) =
          LET form == IF FormRead(none, r, method) THEN FromSource(none, "form", r, parsed) ELSE parsed
          IN FromSource(none, "path", r, FromSource(none, "query", r, form))
    BY <1>2, <1>3 DEF Bind, parsed
  <2> QED
    BY <1>7, <2>1
<1> QED
  BY <1>6, <1>8

-----------------------------------------------------------------------------
(* The answers that the description states. *)

\* Functions from some of the statuses C to sets of S.
Described1(C, S) == UNION {[D -> SUBSET S] : D \in SUBSET C}
Codes(list) == {a[1] : a \in Range(list)}
Shapes(list) == UNION {BodySchemas(a[2]) : a \in Range(list)}

\* One answer more keeps to that.
LEMMA SayingIn ==
  ASSUME NEW C, NEW S
  PROVE  /\ <<>> \in Described1(C, S)
         /\ \A acc \in Described1(C, S), c \in C : \A b \in SUBSET S :
              Put(acc, c, IF c \in DOMAIN acc THEN MergeAnswers(acc[c], b) ELSE b) \in Described1(C, S)
<1>1. <<>> \in Described1(C, S)
  <2>1. <<>> \in [{} -> SUBSET S]
    OBVIOUS
  <2> QED
    BY <2>1 DEF Described1
<1>2. ASSUME NEW acc \in Described1(C, S), NEW c \in C, NEW b \in SUBSET S
      PROVE  Put(acc, c, IF c \in DOMAIN acc THEN MergeAnswers(acc[c], b) ELSE b) \in Described1(C, S)
  <2> DEFINE v == IF c \in DOMAIN acc THEN MergeAnswers(acc[c], b) ELSE b
  <2>1. PICK D \in SUBSET C : acc \in [D -> SUBSET S]
    BY DEF Described1
  <2>2. v \in SUBSET S
    BY <2>1 DEF MergeAnswers
  <2> HIDE DEF v
  <2> DEFINE E == D \cup {c}
  <2>3. Put(acc, c, v) = [x \in E |-> IF x = c THEN v ELSE acc[x]]
    BY <2>1 DEF Put
  <2>4. Put(acc, c, v) \in [E -> SUBSET S] /\ E \in SUBSET C
    BY <2>1, <2>2, <2>3
  <2>5. Put(acc, c, v) \in Described1(C, S)
    BY <2>4 DEF Described1
  <2> QED
    BY <2>5 DEF v
<1> QED
  BY <1>1, <1>2

\* The answers after one more, and after all of a list.
Said1(acc, a) == Put(acc, a[1], IF a[1] \in DOMAIN acc THEN MergeAnswers(acc[a[1]], BodySchemas(a[2])) ELSE BodySchemas(a[2]))
Said(list) ==
    LET Say(acc, a) == Put(acc, a[1], IF a[1] \in DOMAIN acc THEN MergeAnswers(acc[a[1]], BodySchemas(a[2])) ELSE BodySchemas(a[2]))
    IN FoldLeft(Say, <<>>, list)
SaidFold(g, list, n) == g = [s \in SUBSET (1 .. n) |-> IF s = {} THEN <<>> ELSE Said1(g[s \ {Max(s)}], list[Max(s)])]
SaidBy(list, n) == CHOOSE g : SaidFold(g, list, n)

\* The answers of a description are this fold.
LEMMA SaidIs ==
  ASSUME NEW list, NEW n \in Nat, DOMAIN list = 1 .. n
  PROVE  Said(list) = SaidBy(list, n)[1 .. n]
BY DEF SaidBy, Said, FoldLeft, MapThenFoldSet, SaidFold, Said1

\* The stages of that fold.
SaidStages(h, list, B) ==
    /\ h \in [0 .. Len(list) -> B] /\ h[0] = <<>> /\ h[Len(list)] = Said(list)
    /\ \A m \in 1 .. Len(list) : h[m] = Said1(h[m - 1], list[m])
LEMMA SaidStaged ==
  ASSUME NEW list, list \in Seq(Range(list))
  PROVE  \E h : SaidStages(h, list, Described1(Codes(list), Shapes(list)))
<1> DEFINE n == Len(list)
           B == Described1(Codes(list), Shapes(list))
           step == [ib \in (1 .. n) \X B |-> Said1(ib[2], list[ib[1]])]
           it == SaidBy(list, n)
<1>1. n \in Nat /\ DOMAIN list = 1 .. n
  OBVIOUS
<1>2. <<>> \in B
  BY SayingIn
<1>3. ASSUME NEW b \in B, NEW i \in 1 .. n PROVE Said1(b, list[i]) \in B
  <2>1. list[i] \in Range(list)
    BY <1>1 DEF Range
  <2>2. list[i][1] \in Codes(list) /\ BodySchemas(list[i][2]) \subseteq Shapes(list)
    BY <2>1 DEF Codes, Shapes
  <2> QED
    BY <2>2, SayingIn DEF Said1
<1> HIDE DEF n, B
<1>4. step \in [(1 .. n) \X B -> B]
  BY <1>3
<1>5. \A i \in 1 .. n, b \in B : step[<<i, b>>] = Said1(b, list[i])
  OBVIOUS
<1> HIDE DEF step
<1>6. PICK g \in [SUBSET (1 .. n) -> B] : IsFold(g, n, <<>>, step)
  BY <1>1, <1>2, <1>4, FoldExists
<1>7. \A s \in SUBSET (1 .. n) : s # {} => Max(s) \in 1 .. n
  BY <1>1, Greatest
<1>8. ASSUME NEW s \in SUBSET (1 .. n), s # {}
      PROVE  step[<<Max(s), g[s \ {Max(s)}]>>] = Said1(g[s \ {Max(s)}], list[Max(s)])
  BY <1>5, <1>6, <1>7, <1>8
<1>9. SaidFold(g, list, n)
  BY <1>6, <1>8 DEF SaidFold, IsFold
<1>10. SaidFold(it, list, n)
  BY <1>9 DEF SaidBy
<1> HIDE DEF it
<1>11. it[{}] = <<>>
  BY <1>10 DEF SaidFold
<1>12. ASSUME NEW s \in SUBSET (1 .. n), s # {}, it[s \ {Max(s)}] \in B
       PROVE  it[s] = step[<<Max(s), it[s \ {Max(s)}]>>]
  <2>1. Max(s) \in 1 .. n
    BY <1>7, <1>12
  <2>2. it[s] = Said1(it[s \ {Max(s)}], list[Max(s)])
    BY <1>10, <1>12 DEF SaidFold
  <2>3. step[<<Max(s), it[s \ {Max(s)}]>>] = Said1(it[s \ {Max(s)}], list[Max(s)])
    BY <1>5, <1>12, <2>1
  <2> QED
    BY <2>2, <2>3
<1>13. n \in Nat /\ Follows(it, n, B, <<>>, step)
  BY <1>1, <1>11, <1>12 DEF Follows
<1>14. Staged(it, n, B, <<>>, step)
  BY <1>2, <1>4, <1>13, FoldStages
<1>15. PICK h : StagesOf(h, n, B, <<>>, step) /\ h[n] = it[1 .. n]
  BY <1>14 DEF Staged
<1>16. h \in [0 .. n -> B] /\ h[0] = <<>> /\ \A m \in 1 .. n : h[m] = step[<<m, h[m - 1]>>]
  BY <1>15 DEF StagesOf
<1>17. ASSUME NEW m \in 1 .. n PROVE h[m] = Said1(h[m - 1], list[m])
  <2>1. m - 1 \in 0 .. n
    BY <1>1
  <2> QED
    BY <1>5, <1>16, <2>1
<1>18. Said(list) = h[n]
  <2>1. Said(list) = it[1 .. n]
    BY <1>1, SaidIs DEF it
  <2> QED
    BY <1>15, <2>1
<1> QED
  BY <1>16, <1>17, <1>18 DEF SaidStages, n, B

\* A list in which no answer without a shape stands before one of the same status.
Shaped(list) ==
    \A i, j \in DOMAIN list :
       i < j /\ list[i][1] = list[j][1] /\ BodySchemas(list[i][2]) = {} => BodySchemas(list[j][2]) = {}

\* The first m answers stand in a description, and it states no other status.
Stand(acc, list, m) ==
    /\ \A i \in 1 .. m : list[i][1] \in DOMAIN acc /\ BodySchemas(list[i][2]) \subseteq acc[list[i][1]]
    /\ \A c \in DOMAIN acc : \E i \in 1 .. m : list[i][1] = c

\* The description of such a list states each of its answers.
LEMMA SaidStands ==
  ASSUME NEW list, list \in Seq(Range(list)), Shaped(list)
  PROVE  \A a \in Range(list) : a[1] \in DOMAIN Said(list) /\ BodySchemas(a[2]) \subseteq Said(list)[a[1]]
<1> DEFINE n == Len(list)
           B == Described1(Codes(list), Shapes(list))
<1>1. PICK h : /\ h \in [0 .. n -> B] /\ h[0] = <<>> /\ h[n] = Said(list)
               /\ \A m \in 1 .. n : h[m] = Said1(h[m - 1], list[m])
  BY SaidStaged DEF SaidStages
<1>2. n \in Nat /\ DOMAIN list = 1 .. n
  OBVIOUS
<1> HIDE DEF n, B
<1> DEFINE Has == {m \in Nat : m <= n => Stand(h[m], list, m)}
<1>3. 0 \in Has
  <2>1. Stand(h[0], list, 0)
    BY <1>1 DEF Stand
  <2> QED
    BY <2>1
<1>4. ASSUME NEW m \in Nat, m \in Has PROVE m + 1 \in Has
  <2> SUFFICES ASSUME m + 1 <= n PROVE Stand(h[m + 1], list, m + 1)
    OBVIOUS
  <2> DEFINE acc == h[m]
             c == list[m + 1][1]
             b == BodySchemas(list[m + 1][2])
             v == IF c \in DOMAIN acc THEN MergeAnswers(acc[c], b) ELSE b
             next == h[m + 1]
  <2>1. m + 1 \in 1 .. n /\ (m + 1) - 1 = m /\ m <= n /\ Stand(acc, list, m)
    BY <1>2, <1>4
  <2>2. next = Put(acc, c, v)
    <3>1. next = Said1(h[(m + 1) - 1], list[m + 1])
      BY <1>1, <2>1
    <3> QED
      BY <2>1, <3>1 DEF Said1
  <2>3. /\ \A i \in 1 .. m : list[i][1] \in DOMAIN acc /\ BodySchemas(list[i][2]) \subseteq acc[list[i][1]]
        /\ \A x \in DOMAIN acc : \E i \in 1 .. m : list[i][1] = x
    BY <2>1 DEF Stand
  <2>4. b \subseteq v /\ (c \in DOMAIN acc => acc[c] \subseteq v)
    <3>1. CASE c \notin DOMAIN acc
      BY <3>1
    <3>2. CASE c \in DOMAIN acc /\ acc[c] = {}
      <4>1. PICK i \in 1 .. m : list[i][1] = c
        BY <2>3, <3>2
      <4>2. BodySchemas(list[i][2]) = {}
        BY <2>3, <3>2, <4>1
      <4>3. i < m + 1 /\ i \in DOMAIN list /\ m + 1 \in DOMAIN list
        BY <1>2, <2>1
      <4>4. b = {}
        BY <4>1, <4>2, <4>3 DEF Shaped
      <4> QED
        BY <3>2, <4>4
    <3>3. CASE c \in DOMAIN acc /\ acc[c] # {}
      BY <3>3 DEF MergeAnswers
    <3> QED
      BY <3>1, <3>2, <3>3
  <2> HIDE DEF v, b
  <2>5. DOMAIN next = DOMAIN acc \cup {c} /\ next[c] = v /\ \A x \in DOMAIN acc \ {c} : next[x] = acc[x]
    BY <2>2 DEF Put
  <2> HIDE DEF acc, next, c
  <2>6. ASSUME NEW i \in 1 .. m + 1
        PROVE  list[i][1] \in DOMAIN next /\ BodySchemas(list[i][2]) \subseteq next[list[i][1]]
    <3>1. CASE i = m + 1
      BY <2>4, <2>5, <3>1 DEF b, c
    <3>2. CASE i \in 1 .. m
      <4>1. list[i][1] \in DOMAIN acc /\ BodySchemas(list[i][2]) \subseteq acc[list[i][1]]
        BY <2>3, <3>2
      <4>2. acc[list[i][1]] \subseteq next[list[i][1]]
        BY <2>4, <2>5, <4>1
      <4> QED
        BY <2>5, <4>1, <4>2
    <3> QED
      BY <3>1, <3>2
  <2>7. ASSUME NEW x \in DOMAIN next PROVE \E i \in 1 .. m + 1 : list[i][1] = x
    <3>1. CASE x = c
      BY <3>1 DEF c
    <3>2. CASE x \in DOMAIN acc
      <4>1. PICK i \in 1 .. m : list[i][1] = x
        BY <2>3, <3>2
      <4> QED
        BY <4>1
    <3> QED
      BY <2>5, <3>1, <3>2
  <2> QED
    BY <2>6, <2>7 DEF Stand, next
<1>5. n \in Has
  <2> HIDE DEF Has
  <2> QED
    BY <1>2, <1>3, <1>4, SetInduction
<1>6. Stand(Said(list), list, n)
  BY <1>1, <1>2, <1>5
<1> QED
  BY <1>2, <1>6 DEF Stand, Range

\* The responses of a route are the answers it states, under those that the description fills itself.
LEMMA ResponsesAre ==
  ASSUME NEW rt
  PROVE  Responses(rt) = LET bound == IF InputOf(rt.input) = {} THEN Said(Stated(rt))
                                      ELSE Put(Put(Said(Stated(rt)), 400, {"Problem"}), 422, {"ValidationProblem"})
                         IN Put(bound, 500, {"Problem"})
BY DEF Responses, Said

\* A route that can hold what it states does: its own answers, and those of the router.
LEMMA ResponsesHold ==
  ASSUME NEW rt, Stated(rt) \in Seq(Range(Stated(rt))), StatesWhole(rt), rt.answers \in Seq(Range(rt.answers))
  PROVE  LET said == Responses(rt) IN
         /\ \A a \in Range(Stated(rt)) : a[1] \in DOMAIN said /\ BodySchemas(a[2]) \subseteq said[a[1]]
         /\ 500 \in DOMAIN said /\ said[500] = {"Problem"}
         /\ InputOf(rt.input) # {} => /\ 400 \in DOMAIN said /\ said[400] = {"Problem"}
                                      /\ 422 \in DOMAIN said /\ said[422] = {"ValidationProblem"}
<1> DEFINE own == Said(Stated(rt))
           bound == IF InputOf(rt.input) = {} THEN own ELSE Put(Put(own, 400, {"Problem"}), 422, {"ValidationProblem"})
           said == Put(bound, 500, {"Problem"})
<1>1. Responses(rt) = said
  BY ResponsesAre
<1>2. \A a \in Range(Stated(rt)) : a[1] \in DOMAIN own /\ BodySchemas(a[2]) \subseteq own[a[1]]
  BY SaidStands DEF StatesWhole, Shaped
<1> HIDE DEF own
<1>3. \A a \in Range(Stated(rt)) : a[1] \notin Filled(rt)
  <2> DEFINE first == <<IF rt.body = "nobody" THEN 204 ELSE SuccessOf(rt.method), rt.body>>
             A == Range(rt.answers) \cup {first}
  <2>1. <<first>> \in Seq(A) /\ Range(<<first>>) = {first}
    BY RangeOfOne
  <2>2. rt.answers \in Seq(A)
    OBVIOUS
  <2>3. first[1] \in {200, 201, 204}
    BY DEF SuccessOf
  <2>4. Stated(rt) = <<first>> \o rt.answers
    BY DEF Stated
  <2> HIDE DEF first, A
  <2>5. Range(Stated(rt)) = {first} \cup Range(rt.answers)
    <3> DEFINE one == <<first>>
    <3>1. one \in Seq(A) /\ Range(one) = {first} /\ Stated(rt) = one \o rt.answers
      BY <2>1, <2>4
    <3> HIDE DEF one
    <3>2. Range(one \o rt.answers) = Range(one) \cup Range(rt.answers)
      BY <2>2, <3>1, RangeOfConcat
    <3> QED
      BY <3>1, <3>2
  <2>6. first[1] \notin Filled(rt)
    BY <2>3 DEF Filled
  <2> QED
    BY <2>5, <2>6 DEF StatesWhole
<1>4. CASE InputOf(rt.input) = {}
  <2>1. DOMAIN said = DOMAIN own \cup {500} /\ said[500] = {"Problem"} /\ \A x \in DOMAIN own \ {500} : said[x] = own[x]
    BY <1>4 DEF Put
  <2>2. Filled(rt) = {500}
    BY <1>4 DEF Filled
  <2> HIDE DEF said
  <2> QED
    BY <1>1, <1>2, <1>3, <1>4, <2>1, <2>2
<1>5. CASE InputOf(rt.input) # {}
  <2> DEFINE one == Put(own, 400, {"Problem"})
             two == Put(one, 422, {"ValidationProblem"})
  <2>1. DOMAIN one = DOMAIN own \cup {400} /\ one[400] = {"Problem"} /\ \A x \in DOMAIN own \ {400} : one[x] = own[x]
    BY DEF Put
  <2>2. said = Put(two, 500, {"Problem"})
    BY <1>5
  <2> HIDE DEF one, said
  <2>3. DOMAIN two = DOMAIN one \cup {422} /\ two[422] = {"ValidationProblem"} /\ \A x \in DOMAIN one \ {422} : two[x] = one[x]
    BY DEF Put
  <2> HIDE DEF two
  <2>4. DOMAIN said = DOMAIN two \cup {500} /\ said[500] = {"Problem"} /\ \A x \in DOMAIN two \ {500} : said[x] = two[x]
    BY <2>2 DEF Put
  <2>5. Filled(rt) = {400, 422, 500}
    BY <1>5 DEF Filled
  <2>6. said[400] = {"Problem"} /\ said[422] = {"ValidationProblem"} /\ {400, 422, 500} \subseteq DOMAIN said
    BY <2>1, <2>3, <2>4
  <2>7. \A x \in DOMAIN own \ {400, 422, 500} : x \in DOMAIN said /\ said[x] = own[x]
    BY <2>1, <2>3, <2>4
  <2> QED
    BY <1>1, <1>2, <1>3, <2>4, <2>5, <2>6, <2>7
<1> QED
  BY <1>4, <1>5

-----------------------------------------------------------------------------
(* A route that came past the generator has no fault, and a route that came past the description has one of its own;  *)
(* an answer is the last step; what a handler receives kept every rule of every field.                                *)

RouteInv ==
    /\ route \in Routes
    /\ phase \notin {"sources", "refused"} => Faults(route.input) = {}
    /\ phase \notin {"sources", "generated", "refused"} =>
          doc.params = InputOf(route.input) /\ doc.responses = Responses(route)
    /\ answer # {} => phase = "answered"
    /\ \A a, b \in bind : a = b
    /\ phase = "valid" =>
          \A b \in bind : \A f \in Range(ReadFields(route.input)) : \A r \in Range(f.rules) : ~Fails(r, f.kind, b.in[f.name])

\* What RoutesAssumption gives the lemmas above.
LEMMA RouteShape ==
  ASSUME NEW rt \in Routes
  PROVE  /\ ReadFields(rt.input) \in Seq(Range(ReadFields(rt.input)))
         /\ Range(ReadFields(rt.input)) = {f \in Range(rt.input) : Accepted(f)}
         /\ \A f \in Range(ReadFields(rt.input)) : f.rules \in Seq(Range(f.rules))
         /\ Stated(rt) \in Seq(Range(Stated(rt)))
         /\ Range(Stated(rt)) = {Stated(rt)[1]} \cup Range(rt.answers)
         /\ Stated(rt)[1] = <<IF rt.body = "nobody" THEN 204 ELSE SuccessOf(rt.method), rt.body>>
<1>1. /\ rt.input \in Seq(Range(rt.input)) /\ rt.answers \in Seq(Range(rt.answers))
      /\ \A f \in Range(rt.input) : f.rules \in Seq(Range(f.rules))
  BY RoutesAssumption DEF RoutesAssumption
<1>2. /\ ReadFields(rt.input) \in Seq(Range(rt.input))
      /\ Range(ReadFields(rt.input)) = {f \in Range(rt.input) : Accepted(f)}
  BY <1>1, ReadsTheAccepted
<1>3. ReadFields(rt.input) \in Seq(Range(ReadFields(rt.input)))
  BY <1>2 DEF Range
<1> DEFINE first == <<IF rt.body = "nobody" THEN 204 ELSE SuccessOf(rt.method), rt.body>>
           A == Range(rt.answers) \cup {first}
           one == <<first>>
<1>4. one \in Seq(A) /\ Range(one) = {first} /\ Stated(rt) = one \o rt.answers /\ Len(one) = 1 /\ one[1] = first
  BY RangeOfOne DEF Stated
<1>5. rt.answers \in Seq(A)
  BY <1>1
<1> HIDE DEF first, A, one
<1>6. Stated(rt) \in Seq(A) /\ Range(Stated(rt)) = {first} \cup Range(rt.answers)
  BY <1>4, <1>5, RangeOfConcat
<1>7. Stated(rt)[1] = first
  BY <1>4, <1>5
<1>8. Stated(rt) \in Seq(Range(Stated(rt)))
  BY <1>6 DEF Range
<1> QED
  BY <1>1, <1>2, <1>3, <1>6, <1>7, <1>8 DEF first

\* The check of an input is a list.
LEMMA CheckShape ==
  ASSUME NEW rt \in Routes, NEW check \in {<<>>, rt.check}
  PROVE  check \in Seq(Range(check))
<1>1. rt.check \in Seq(Range(rt.check))
  BY RoutesAssumption DEF RoutesAssumption
<1>2. <<>> \in Seq(Range(<<>>))
  OBVIOUS
<1> QED
  BY <1>1, <1>2

\* Every step keeps the invariant.
LEMMA RouteInvInit == ExchangeInit => RouteInv
BY DEF ExchangeInit, RouteInv

LEMMA RouteInvNext == RouteInv /\ [ExchangeNext]_exchangeVars => RouteInv'
<1> SUFFICES ASSUME RouteInv, [ExchangeNext]_exchangeVars PROVE RouteInv'
  OBVIOUS
<1>1. ASSUME Generate PROVE RouteInv'
  BY <1>1 DEF Generate, RouteInv
<1>2. ASSUME Describe PROVE RouteInv'
  <2>1. doc'.params = InputOf(route.input) /\ doc'.responses = Responses(route)
    BY <1>2 DEF Describe
  <2>2. /\ phase = "generated" /\ phase' \in {"described", "refused"}
        /\ UNCHANGED <<route, iface, call, req, bind, msgs, answer>>
    BY <1>2 DEF Describe
  <2> QED
    BY <2>1, <2>2 DEF RouteInv
<1>3. ASSUME NEW r, Request(r) PROVE RouteInv'
  BY <1>3 DEF Request, Arrives, RouteInv
<1>4. ASSUME NEW m, NEW args, CallRoute(m, args) PROVE RouteInv'
  <2>1. phase = "described" /\ phase' \in {"unmatched", "arrived"} /\ UNCHANGED <<route, iface, doc, bind, msgs, answer>>
    BY <1>4 DEF CallRoute, Arrives
  <2> QED
    BY <2>1 DEF RouteInv
<1>5. ASSUME NEW r, BindInput(r) PROVE RouteInv'
  <2> DEFINE b == Bind(route.input, r, route.method)
  <2>1. /\ phase = "arrived" /\ bind' = {b} /\ phase' \in {"answered", "bound"} /\ (answer' # {} => phase' = "answered")
        /\ UNCHANGED <<route, iface, doc, call, req, msgs>>
    BY <1>5 DEF BindInput
  <2> HIDE DEF b
  <2> QED
    BY <2>1 DEF RouteInv
<1>6. ASSUME NEW b \in bind, ValidateInput(b) PROVE RouteInv'
  <2>1. /\ phase = "bound" /\ phase' \in {"valid", "answered"} /\ (answer' # {} => phase' = "answered")
        /\ UNCHANGED <<route, iface, doc, call, req, bind>>
    BY <1>6 DEF ValidateInput
  <2>2. PICK check \in {<<>>, route.check} : msgs' = Validate(route.input, b.in, check)
    BY <1>6 DEF ValidateInput
  <2>3. phase' = "valid" => msgs' = <<>>
    BY <1>6 DEF ValidateInput
  <2>4. ASSUME phase' = "valid"
        PROVE  \A f \in Range(ReadFields(route.input)) : \A r \in Range(f.rules) : ~Fails(r, f.kind, b.in[f.name])
    <3>1. route \in Routes
      BY DEF RouteInv
    <3>2. Validate(route.input, b.in, check) = <<>>
      BY <2>2, <2>3, <2>4
    <3> QED
      BY <3>1, <3>2, RouteShape, CheckShape, ValidateMarks
  <2>5. \A a \in bind' : a = b
    BY <2>1 DEF RouteInv
  <2> QED
    BY <2>1, <2>4, <2>5 DEF RouteInv
<1>7. ASSUME Handle PROVE RouteInv'
  BY <1>7 DEF Handle, RouteInv
<1>8. CASE UNCHANGED exchangeVars
  BY <1>8 DEF exchangeVars, RouteInv
<1> QED
  BY <1>1, <1>2, <1>3, <1>4, <1>5, <1>6, <1>7, <1>8 DEF ExchangeNext

LEMMA RouteInvHolds == ExchangeSpec => []RouteInv
BY RouteInvInit, RouteInvNext, PTL DEF ExchangeSpec

\* A field that the generator takes without a fault is one that it reads.
LEMMA TakenIsRead ==
  ASSUME NEW st, Faults(st) = {}, NEW f \in Range(st), ~f.skip
  PROVE  Accepted(f)
<1>1. FieldFaults(f) = {}
  BY DEF Faults, Range
<1> QED
  BY <1>1 DEF FieldFaults, Accepted

\* A handler receives no value outside the bounds of its description, for every input type that the generator takes,
\* every request and every Check method: the rules that codegen/emit.go runs are the ones that openapi/reflect.go reads.
THEOREM BoundsMet == ExchangeSpec => []HandlerMeetsTheBounds
<1>1. RouteInv => HandlerMeetsTheBounds
  <2> SUFFICES ASSUME RouteInv, phase = "valid", NEW b \in bind, NEW p \in doc.params, ~FieldNamed(p.go).skip
               PROVE  LET f == FieldNamed(p.go)
                          v == b.in[p.go]
                      IN /\ \A r \in p.bounds : Meets(r, f.kind, v)
                         /\ p.required /\ p.in # "path" => ~Blank(f.kind, v)
    BY DEF HandlerMeetsTheBounds
  <2>1. route \in Routes /\ Faults(route.input) = {} /\ p \in InputOf(route.input)
    BY DEF RouteInv
  <2>2. /\ route.input \in Seq(Range(route.input))
        /\ \A f, g \in Range(route.input) : f.name = g.name => f = g
    BY <2>1, RoutesAssumption DEF RoutesAssumption
  <2>3. PICK f \in Range(route.input) : \E in \in Place(f) : p = MemberOf(f, in)
    BY <2>1, <2>2, StatesItsFields
  <2>4. PICK in \in Place(f) : p = MemberOf(f, in)
    BY <2>3
  <2>5. /\ p.go = f.name /\ p.bounds = Bounds(f) /\ p.in = in[1]
        /\ p.required = (in[1] = "path" \/ Requires(f))
    BY <2>4, Zenon DEF MemberOf
  <2>6. FieldNamed(p.go) = f
    <3>1. PICK i \in DOMAIN route.input : route.input[i] = f
      BY DEF Range
    <3>2. FieldNamed(p.go) \in Range(route.input) /\ FieldNamed(p.go).name = p.go
      BY <2>5, <3>1 DEF FieldNamed, Range
    <3> QED
      BY <2>2, <2>5, <3>2
  <2> DEFINE v == b.in[f.name]
  <2>7. \A r \in Range(f.rules) : ~Fails(r, f.kind, v)
    <3>1. f \in Range(ReadFields(route.input))
      BY <2>1, <2>6, RouteShape, TakenIsRead
    <3> QED
      BY <3>1 DEF RouteInv
  <2> HIDE DEF v
  <2>8. ASSUME NEW r \in Bounds(f) PROVE Meets(r, f.kind, v)
    <3>1. r.name \in {"min", "max", "email", "uuid", "oneof"} /\ ~Fails(r, f.kind, v)
      BY <2>7 DEF Bounds
    <3>2. DOMAIN Formats = {"email", "uuid"}
      BY DEF Formats
    <3> QED
      BY <3>1, <3>2 DEF Fails, Meets
  <2>9. ASSUME Requires(f) PROVE ~Blank(f.kind, v)
    <3>1. PICK r \in Range(f.rules) : r.name = "required"
      BY <2>9 DEF Requires
    <3>2. ~Fails(r, f.kind, v)
      BY <2>7
    <3>3. "required" \notin DOMAIN Formats
      BY DEF Formats
    <3> QED
      BY <3>1, <3>2, <3>3 DEF Fails
  <2> QED
    BY <2>5, <2>6, <2>8, <2>9 DEF v
<1> QED
  BY <1>1, RouteInvHolds, PTL

\* Every answer that the router makes for a route that can hold what it states stands in its description, with its
\* status and its type: the answer of the handler, a stated problem, and the faults that the router answers before and
\* after it. Of a Response that the application built, the theorem says nothing.
THEOREM AnswersDescribed == ExchangeSpec => []EveryAnswerDescribed
<1>1. ExchangeInit => EveryAnswerDescribed
  BY DEF ExchangeInit, EveryAnswerDescribed
<1>2. RouteInv /\ EveryAnswerDescribed /\ [ExchangeNext]_exchangeVars => EveryAnswerDescribed'
  <2> SUFFICES ASSUME RouteInv, EveryAnswerDescribed, [ExchangeNext]_exchangeVars, StatesWhole(route)', NEW a \in answer', ~a.own
               PROVE  a.code \in DOMAIN doc'.responses /\ a.body \subseteq doc'.responses[a.code]
    BY DEF EveryAnswerDescribed
  <2>1. route' = route
    BY DEF ExchangeNext, exchangeVars, Generate, Describe, Request, CallRoute, BindInput, ValidateInput, Handle
  <2>2. StatesWhole(route) /\ route \in Routes
    BY <2>1 DEF RouteInv
  <2>3. CASE a \in answer /\ doc' = doc
    BY <2>2, <2>3 DEF EveryAnswerDescribed
  <2> DEFINE said == Responses(route)
  <2>4. /\ \A s \in Range(Stated(route)) : s[1] \in DOMAIN said /\ BodySchemas(s[2]) \subseteq said[s[1]]
        /\ 500 \in DOMAIN said /\ said[500] = {"Problem"}
        /\ InputOf(route.input) # {} => /\ 400 \in DOMAIN said /\ said[400] = {"Problem"}
                                        /\ 422 \in DOMAIN said /\ said[422] = {"ValidationProblem"}
    <3>1. route.answers \in Seq(Range(route.answers))
      BY <2>2, RoutesAssumption DEF RoutesAssumption
    <3> QED
      BY <2>2, <3>1, RouteShape, ResponsesHold
  <2>5. phase \in {"arrived", "bound", "valid"} => doc.responses = said
    BY DEF RouteInv
  <2> HIDE DEF said
  <2>6. ASSUME NEW r, BindInput(r), a \notin answer PROVE a.code \in DOMAIN doc'.responses /\ a.body \subseteq doc'.responses[a.code]
    <3>1. Bind(route.input, r, route.method).fault /\ a = Made(400, {"Problem"}) /\ doc' = doc /\ phase = "arrived"
      BY <2>6 DEF BindInput
    <3>2. ReadFields(route.input) # <<>>
      BY <3>1, FaultNeedsField
    <3>3. InputOf(route.input) # {}
      BY <2>2, <3>2 DEF StatesWhole
    <3> QED
      BY <2>4, <2>5, <3>1, <3>3 DEF Made
  <2>7. ASSUME NEW b \in bind, ValidateInput(b), a \notin answer
        PROVE  a.code \in DOMAIN doc'.responses /\ a.body \subseteq doc'.responses[a.code]
    <3>1. msgs' # <<>> /\ doc' = doc /\ phase = "bound"
      BY <2>7 DEF ValidateInput
    <3>5. a = Made(422, {"ValidationProblem"})
      BY <2>7, <3>1 DEF ValidateInput, Replaced
    <3>2. PICK check \in {<<>>, route.check} : msgs' = Validate(route.input, b.in, check)
      BY <2>7 DEF ValidateInput
    <3>3. ReadFields(route.input) # <<>> \/ route.check # <<>>
      <4> SUFFICES ASSUME ReadFields(route.input) = <<>>, route.check = <<>> PROVE FALSE
        OBVIOUS
      <4>1. check = <<>>
        OBVIOUS
      <4>2. Validate(route.input, b.in, check) = <<>>
        BY <2>2, <4>1, RouteShape, CheckShape, ValidateMarks
      <4> QED
        BY <3>1, <3>2, <4>2
    <3>4. InputOf(route.input) # {}
      BY <2>2, <3>3 DEF StatesWhole
    <3> QED
      BY <2>4, <2>5, <3>1, <3>4, <3>5 DEF Made
  <2>8. ASSUME Handle PROVE a.code \in DOMAIN doc'.responses /\ a.body \subseteq doc'.responses[a.code]
    <3>1. doc' = doc /\ phase = "valid"
      BY <2>8 DEF Handle
    <3>2. /\ Range(Stated(route)) = {Stated(route)[1]} \cup Range(route.answers)
          /\ Stated(route)[1] = <<IF route.body = "nobody" THEN 204 ELSE SuccessOf(route.method), route.body>>
      BY <2>2, RouteShape
    <3>6. PICK built \in Built :
             \/ \E status \in {0} \cup {s[1] : s \in {s \in Range(route.answers) : s[2] = route.body}} :
                  \E value \in Values(route) : answer' = {AnswerOf(route, status, value, built)}
             \/ \E code \in {s[1] : s \in {s \in Range(route.answers) : s[2] = "Problem"}} :
                  answer' = {Replaced(route, "error", ProblemOf([problem |-> TRUE, code |-> code]), built)}
             \/ answer' = {Replaced(route, "error", ProblemOf([problem |-> FALSE, code |-> 0]), built)}
      BY <2>8 DEF Handle
    <3>3. CASE \E status \in {0} \cup {s[1] : s \in {s \in Range(route.answers) : s[2] = route.body}} :
                 \E value \in Values(route) : answer' = {AnswerOf(route, status, value, built)}
      <4>1. PICK status \in {0} \cup {s[1] : s \in {s \in Range(route.answers) : s[2] = route.body}},
                 value \in Values(route) : answer' = {AnswerOf(route, status, value, built)}
        BY <3>3
      <4>2. a.code = (IF status # 0 THEN status ELSE IF route.body = "nobody" THEN 204 ELSE SuccessOf(route.method))
            /\ a.body = BodySchemas(route.body)
        BY <4>1 DEF AnswerOf, Replaced, Made
      <4>3. CASE status = 0
        <5>1. a.code = Stated(route)[1][1] /\ a.body = BodySchemas(Stated(route)[1][2])
          BY <3>2, <4>2, <4>3
        <5>2. Stated(route)[1] \in Range(Stated(route))
          BY <3>2
        <5>3. a.code \in DOMAIN said /\ a.body \subseteq said[a.code]
          BY <2>4, <5>1, <5>2
        <5> QED
          BY <2>5, <3>1, <5>3
      <4>4. CASE status # 0
        <5>1. PICK s \in Range(route.answers) : s[2] = route.body /\ s[1] = status
          BY <4>1, <4>4
        <5>2. a.code = s[1] /\ a.body = BodySchemas(s[2])
          BY <4>2, <4>4, <5>1
        <5> QED
          BY <2>4, <2>5, <3>1, <3>2, <5>2
      <4> QED
        BY <4>3, <4>4
    <3>4. CASE \E code \in {s[1] : s \in {s \in Range(route.answers) : s[2] = "Problem"}} :
                 answer' = {Replaced(route, "error", ProblemOf([problem |-> TRUE, code |-> code]), built)}
      <4>1. PICK s \in Range(route.answers) :
              s[2] = "Problem" /\ answer' = {Replaced(route, "error", ProblemOf([problem |-> TRUE, code |-> s[1]]), built)}
        BY <3>4
      <4>2. a.code = s[1] /\ a.body = {"Problem"}
        BY <4>1 DEF Replaced, ProblemOf, Made
      <4>3. BodySchemas(s[2]) = {"Problem"}
        BY <4>1 DEF BodySchemas
      <4> QED
        BY <2>4, <2>5, <3>1, <3>2, <4>2, <4>3
    <3>5. CASE answer' = {Replaced(route, "error", ProblemOf([problem |-> FALSE, code |-> 0]), built)}
      <4>1. a.code = 500 /\ a.body = {"Problem"}
        BY <3>5 DEF Replaced, ProblemOf, Made
      <4> QED
        BY <2>4, <2>5, <3>1, <4>1
    <3> QED
      BY <3>3, <3>4, <3>5, <3>6
  <2>9. CASE Generate
    BY <2>3, <2>9 DEF Generate
  <2>10. CASE Describe
    <3>1. answer' = answer /\ phase = "generated"
      BY <2>10 DEF Describe
    <3> QED
      BY <3>1 DEF RouteInv
  <2>11. ASSUME NEW r, Request(r) PROVE a.code \in DOMAIN doc'.responses /\ a.body \subseteq doc'.responses[a.code]
    BY <2>3, <2>11 DEF Request
  <2>12. ASSUME NEW m, NEW args, CallRoute(m, args) PROVE a.code \in DOMAIN doc'.responses /\ a.body \subseteq doc'.responses[a.code]
    BY <2>3, <2>12 DEF CallRoute
  <2>13. CASE UNCHANGED exchangeVars
    BY <2>3, <2>13 DEF exchangeVars
  <2>14. ASSUME NEW r, BindInput(r), a \in answer PROVE FALSE
    BY <2>14 DEF BindInput, RouteInv
  <2>15. ASSUME NEW b, ValidateInput(b), a \in answer PROVE FALSE
    BY <2>15 DEF ValidateInput, RouteInv
  <2> QED
    BY <2>6, <2>7, <2>8, <2>9, <2>10, <2>11, <2>12, <2>13, <2>14, <2>15 DEF ExchangeNext
<1> QED
  BY <1>1, <1>2, RouteInvHolds, PTL DEF ExchangeSpec
=============================================================================
