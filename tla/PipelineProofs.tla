---------------------------- MODULE PipelineProofs ---------------------------
(***************************************************************************)
(* Proofs about the request stack, for every set of requests, every choice *)
(* of middleware and every status that an adapted middleware answers.      *)
(***************************************************************************)
EXTENDS Pipeline, TLAPS

\* The layers outside the transaction, on the way in and on the way out.
Front == {"recover", "accessLog", "trace", "flash", "session", "csrf", "transaction"}
Back == {"router", "recover", "accessLog", "trace", "flash", "session", "csrf"}

\* The layers outside the session.
Edge == {"router", "recover", "accessLog", "trace", "flash"}

\* The transaction of a request that is inside of its layer.
TxInside == IF "transaction" \in layers THEN "open" ELSE "none"

\* The cells of the way are functions on the requests.
WayTypes ==
  /\ at \in [Requests -> Front \cup {"auth", "handler", "router"}]
  /\ dir \in [Requests -> {"idle", "in", "out", "panic", "sent", "cut", "received", "broken", "aborted"}]
  /\ DOMAIN out = Requests
  /\ tx \in [Requests -> {"none", "open", "committed", "rolledBack"}]
  /\ DOMAIN wire = Requests
  /\ \A q \in Requests : DOMAIN wire[q] = {"by", "code"}

\* The place of a request tells what became of its transaction.
TxShape ==
  \A q \in Requests :
    /\ dir[q] = "idle" => tx[q] = "none"
    /\ dir[q] = "in" => at[q] # "router"
    /\ dir[q] = "in" /\ at[q] \in Front => tx[q] = "none"
    /\ dir[q] = "in" /\ at[q] \in {"auth", "handler"} => tx[q] = TxInside
    /\ dir[q] \in {"out", "panic"} => at[q] # "handler"
    /\ dir[q] \in {"out", "panic"} /\ at[q] \in {"auth", "transaction"} => tx[q] = TxInside
    /\ dir[q] \in {"out", "panic"} /\ at[q] \in Back => tx[q] # "open"
    /\ dir[q] \in {"sent", "cut", "received", "broken", "aborted"} => tx[q] # "open"
    /\ dir[q] = "panic" /\ q \notin turned => tx[q] # "committed"
    /\ dir[q] \in {"sent", "cut"} => at[q] = "router"
    /\ q \in turned => dir[q] \notin {"idle", "in"}
    /\ q \in turned /\ dir[q] \in {"out", "panic"} => at[q] \in Edge
    /\ q \in rows <=> tx[q] = "committed"

\* The next and the previous layer of each.
LEMMA LayerOrder ==
  /\ DOMAIN Inner = Front \cup {"auth"}
  /\ Inner["recover"] = "accessLog" /\ Inner["accessLog"] = "trace" /\ Inner["trace"] = "flash"
  /\ Inner["flash"] = "session" /\ Inner["session"] = "csrf" /\ Inner["csrf"] = "transaction"
  /\ Inner["transaction"] = "auth" /\ Inner["auth"] = "handler"
  /\ Outer["handler"] = "auth" /\ Outer["auth"] = "transaction" /\ Outer["transaction"] = "csrf"
  /\ Outer["csrf"] = "session" /\ Outer["session"] = "flash" /\ Outer["flash"] = "trace"
  /\ Outer["trace"] = "accessLog" /\ Outer["accessLog"] = "recover" /\ Outer["recover"] = "router"
  BY DEF Inner, Outer, Front

\* A middleware that sends is the first one to do so, or one of several.
LEMMA SendsOnce ==
  ASSUME WayTypes, NEW r \in Requests, NEW code, Sends(r, code)
  PROVE  /\ DOMAIN wire' = Requests
         /\ \A q \in Requests : DOMAIN wire'[q] = {"by", "code"} /\ (q # r => wire'[q] = wire[q])
         /\ wire'[r].by = IF wire[r].by = "nobody" THEN "middleware" ELSE "both"
         /\ wire[r].by = "nobody" => wire'[r].code = code
<1>1. CASE wire[r].by = "nobody"
  BY <1>1 DEF WayTypes, Sends
<1>2. CASE wire[r].by # "nobody"
  BY <1>2 DEF WayTypes, Sends
<1> QED
  BY <1>1, <1>2

\* An adapted middleware may send nothing.
LEMMA MaySendOnce ==
  ASSUME WayTypes, NEW r \in Requests, MaySend(r)
  PROVE  /\ DOMAIN wire' = Requests
         /\ \A q \in Requests : DOMAIN wire'[q] = {"by", "code"} /\ (q # r => wire'[q] = wire[q])
         /\ \/ wire' = wire
            \/ wire'[r].by = IF wire[r].by = "nobody" THEN "middleware" ELSE "both"
  BY SendsOnce DEF MaySend, WayTypes

\* The last layer inward is the handler, the last one outward the router.
LEMMA LayerTypes ==
  /\ \A a \in DOMAIN Inner : Inner[a] \in Front \cup {"auth", "handler"}
  /\ \A a \in DOMAIN Inner \cup {"handler"} : Outer[a] \in Front \cup {"auth", "router"}
  BY LayerOrder DEF Front

-----------------------------------------------------------------------------
(* The inductive invariant. *)

\* What a result on its way out says of the answer that is on the wire.
OutShape ==
  \A q \in Requests :
    /\ wire[q].by \in {"nobody", "middleware", "router", "both"}
    /\ dir[q] = "idle" => wire[q].by = "nobody"
    /\ dir[q] = "in" /\ at[q] \in {"recover", "accessLog", "trace", "flash", "session"} => wire[q].by = "nobody"
    /\ dir[q] \in {"in", "out", "panic", "broken", "aborted"} => wire[q].by # "router"
    /\ dir[q] = "out" => out[q].kind \in {"response", "written", "error"}
    /\ dir[q] = "out" /\ out[q].kind = "written" =>
         wire[q].by # "nobody" /\ (wire[q].by = "middleware" => wire[q].code = out[q].code)
    /\ dir[q] = "out" /\ out[q].kind = "error" => ~Success(out[q].code)

\* Outside the transaction a result that the router will write tells whether
\* the transaction committed, and so does the status that it wrote.  Where the
\* session middleware has turned a panic or a result, what is left is a 204 or
\* a 500.
StatusShape ==
  "transaction" \in layers =>
    \A q \in Requests :
      /\ dir[q] \in {"out", "sent", "cut"} /\ at[q] \in Back /\ out[q].kind # "written" =>
           IF q \in turned THEN out[q].code \in {204, 500}
           ELSE Success(out[q].code) <=> tx[q] = "committed"
      /\ wire[q].by = "router" /\ q \notin turned => (Success(wire[q].code) <=> tx[q] = "committed")

\* The trace and the access log write the status of the result that passes.
ObserverShape ==
  /\ DOMAIN logged = Requests
  /\ DOMAIN span = Requests
  /\ \A q \in Requests :
      /\ dir[q] \in {"idle", "in", "panic"} => span[q] = 0 /\ logged[q] = 0
      /\ dir[q] = "out" /\ at[q] \notin {"accessLog", "recover", "router"} => span[q] = 0
      /\ dir[q] = "out" /\ at[q] \notin {"recover", "router"} => logged[q] = 0
      /\ dir[q] = "out" /\ out[q].kind # "error" =>
           span[q] \in {0, out[q].code} /\ logged[q] \in {0, out[q].code}
      /\ dir[q] = "sent" /\ out[q].kind # "error" /\ wire[q].by # "both" =>
           span[q] \in {0, wire[q].code} /\ logged[q] \in {0, wire[q].code}

\* Each layer opens, closes or leaves alone the transaction of its own request.
LEMMA TxStep == WayTypes /\ TxShape /\ [Next]_vars => (WayTypes /\ TxShape)'
<1> SUFFICES ASSUME WayTypes, TxShape, [Next]_vars PROVE (WayTypes /\ TxShape)'
  OBVIOUS
<1> USE LayerOrder DEF WayTypes, TxShape, TxInside, Front, Back, Edge, wayVars, ctxVars, logVars, browserVars
<1>1. ASSUME NEW r \in Requests, Send(r), UNCHANGED layers PROVE (WayTypes /\ TxShape)'
  BY <1>1 DEF Send
<1>2. ASSUME NEW r \in Requests, Receive(r), UNCHANGED layers PROVE (WayTypes /\ TxShape)'
  BY <1>2 DEF Receive
<1>3. ASSUME NEW r \in Requests, Pass(r), UNCHANGED layers PROVE (WayTypes /\ TxShape)'
  BY <1>3 DEF Pass, CallNext, Give, Unwind
<1>4. ASSUME NEW r \in Requests, Recover(r), UNCHANGED layers PROVE (WayTypes /\ TxShape)'
  BY <1>4 DEF Recover, Panicking, Give, Unwind
<1>5. ASSUME NEW r \in Requests, AccessLog(r), UNCHANGED layers PROVE (WayTypes /\ TxShape)'
  BY <1>5 DEF AccessLog, Leaving, Give
<1>6. ASSUME NEW r \in Requests, Trace(r), UNCHANGED layers PROVE (WayTypes /\ TxShape)'
  BY <1>6 DEF Trace, Leaving, Give
<1>7. ASSUME NEW r \in Requests, FlashRead(r), UNCHANGED layers PROVE (WayTypes /\ TxShape)'
  BY <1>7 DEF FlashRead, Entering, CallNext
<1>8. ASSUME NEW r \in Requests, FlashWrite(r), UNCHANGED layers PROVE (WayTypes /\ TxShape)'
  BY <1>8 DEF FlashWrite, Leaving, Give
<1>9. ASSUME NEW r \in Requests, CheckToken(r), UNCHANGED layers PROVE (WayTypes /\ TxShape)'
  BY <1>9 DEF CheckToken, Entering, Give, CallNext
<1>10. ASSUME NEW r \in Requests, Begin(r), UNCHANGED layers PROVE (WayTypes /\ TxShape)'
  BY <1>10 DEF Begin, Entering, CallNext, Give
<1>11. ASSUME NEW r \in Requests, Commit(r), UNCHANGED layers PROVE (WayTypes /\ TxShape)'
  BY <1>11 DEF Commit, Leaving, Commits, Give
<1>12. ASSUME NEW r \in Requests, Rollback(r), UNCHANGED layers PROVE (WayTypes /\ TxShape)'
  BY <1>12 DEF Rollback, Give, Unwind
<1>13. ASSUME NEW r \in Requests, Adapted(r), UNCHANGED layers PROVE (WayTypes /\ TxShape)'
  <2>1. CASE MaySend(r) /\ (CallNext(r) \/ Unwind(r))
    BY <1>13, <2>1, MaySendOnce DEF Adapted, CallNext, Unwind
  <2>2. ASSUME NEW code \in SelfAnswers, Sends(r, code), Give(r, [kind |-> "written", code |-> code])
        PROVE  (WayTypes /\ TxShape)'
    BY <1>13, <2>2, SendsOnce DEF Adapted, Give
  <2> QED
    BY <1>13, <2>1, <2>2 DEF Adapted
<1>14. ASSUME NEW r \in Requests, Handler(r), UNCHANGED layers PROVE (WayTypes /\ TxShape)'
  BY <1>14 DEF Handler, Entering, Give, Unwind
<1>15. ASSUME NEW r \in Requests, Write(r), UNCHANGED layers PROVE (WayTypes /\ TxShape)'
  BY <1>15 DEF Write
<1>16. ASSUME NEW r \in Requests, Abort(r), UNCHANGED layers PROVE (WayTypes /\ TxShape)'
  BY <1>16 DEF Abort, Panicking
<1>17. CASE UNCHANGED vars
  BY <1>17 DEF vars
<1>18. ASSUME NEW r \in Requests, AdaptedReturns(r), UNCHANGED layers PROVE (WayTypes /\ TxShape)'
  BY <1>18, MaySendOnce DEF AdaptedReturns, Give, Unwind
<1> QED
  BY <1>1, <1>2, <1>3, <1>4, <1>5, <1>6, <1>7, <1>8, <1>9,
     <1>10, <1>11, <1>12, <1>13, <1>14, <1>15, <1>16, <1>17, <1>18 DEF Next, Browse, Step

\* What is on the wire before the router writes was sent by an adapted middleware,
\* and its result is marked as written.
LEMMA OutStep ==
  WayTypes /\ TxShape /\ OutShape /\ [Next]_vars => OutShape'
<1> SUFFICES ASSUME WayTypes, TxShape, OutShape, [Next]_vars PROVE OutShape'
  OBVIOUS
<1> USE LayerOrder DEF WayTypes, TxShape, OutShape, Success, Front, Back, Edge, wayVars, ctxVars, logVars, browserVars
<1>1. ASSUME NEW r \in Requests, Send(r), UNCHANGED layers PROVE OutShape'
  BY <1>1 DEF Send
<1>2. ASSUME NEW r \in Requests, Receive(r), UNCHANGED layers PROVE OutShape'
  BY <1>2 DEF Receive
<1>3. ASSUME NEW r \in Requests, Pass(r), UNCHANGED layers PROVE OutShape'
  BY <1>3 DEF Pass, CallNext, Give, Unwind
<1>4. ASSUME NEW r \in Requests, Recover(r), UNCHANGED layers PROVE OutShape'
  BY <1>4 DEF Recover, Panicking, Give, Unwind
<1>5. ASSUME NEW r \in Requests, AccessLog(r), UNCHANGED layers PROVE OutShape'
  BY <1>5 DEF AccessLog, Leaving, Give
<1>6. ASSUME NEW r \in Requests, Trace(r), UNCHANGED layers PROVE OutShape'
  BY <1>6 DEF Trace, Leaving, Give
<1>7. ASSUME NEW r \in Requests, FlashRead(r), UNCHANGED layers PROVE OutShape'
  BY <1>7 DEF FlashRead, Entering, CallNext
<1>8. ASSUME NEW r \in Requests, FlashWrite(r), UNCHANGED layers PROVE OutShape'
  BY <1>8 DEF FlashWrite, Leaving, Give
<1>9. ASSUME NEW r \in Requests, CheckToken(r), UNCHANGED layers PROVE OutShape'
  BY <1>9 DEF CheckToken, Entering, Give, CallNext
<1>10. ASSUME NEW r \in Requests, Begin(r), UNCHANGED layers PROVE OutShape'
  BY <1>10 DEF Begin, Entering, CallNext, Give
<1>11. ASSUME NEW r \in Requests, Commit(r), UNCHANGED layers PROVE OutShape'
  BY <1>11 DEF Commit, Leaving, Commits, Give
<1>12. ASSUME NEW r \in Requests, Rollback(r), UNCHANGED layers PROVE OutShape'
  BY <1>12 DEF Rollback, Commits, Give, Unwind
<1>13. ASSUME NEW r \in Requests, Adapted(r), UNCHANGED layers PROVE OutShape'
  <2>1. CASE MaySend(r) /\ (CallNext(r) \/ Unwind(r))
    BY <1>13, <2>1, MaySendOnce DEF Adapted, CallNext, Unwind
  <2>2. ASSUME NEW code \in SelfAnswers, Sends(r, code), Give(r, [kind |-> "written", code |-> code])
        PROVE  OutShape'
    BY <1>13, <2>2, SendsOnce DEF Adapted, Give
  <2> QED
    BY <1>13, <2>1, <2>2 DEF Adapted
<1>14. ASSUME NEW r \in Requests, Handler(r), UNCHANGED layers PROVE OutShape'
  BY <1>14 DEF Handler, Entering, Give, Unwind
<1>15. ASSUME NEW r \in Requests, Write(r), UNCHANGED layers PROVE OutShape'
  BY <1>15 DEF Write
<1>16. ASSUME NEW r \in Requests, Abort(r), UNCHANGED layers PROVE OutShape'
  BY <1>16 DEF Abort, Panicking
<1>17. CASE UNCHANGED vars
  BY <1>17 DEF vars
<1>18. ASSUME NEW r \in Requests, AdaptedReturns(r), UNCHANGED layers PROVE OutShape'
  <2>1. MaySend(r) /\ dir[r] \in {"out", "panic"}
    BY <1>18 DEF AdaptedReturns
  <2>2. CASE dir[r] = "out" /\ Give(r, out[r])
    BY <2>1, <2>2, MaySendOnce DEF Give
  <2>3. CASE Give(r, [kind |-> "response", code |-> 204])
    BY <2>1, <2>3, MaySendOnce DEF Give
  <2>4. CASE Unwind(r)
    BY <2>1, <2>4, MaySendOnce DEF Unwind
  <2> QED
    BY <1>18, <2>2, <2>3, <2>4 DEF AdaptedReturns
<1> QED
  BY <1>1, <1>2, <1>3, <1>4, <1>5, <1>6, <1>7, <1>8, <1>9,
     <1>10, <1>11, <1>12, <1>13, <1>14, <1>15, <1>16, <1>17, <1>18 DEF Next, Browse, Step

\* A request leaves the transaction with a result that tells whether it
\* committed, and every layer outside hands on what it got.
LEMMA StatusStep ==
  WayTypes /\ TxShape /\ OutShape /\ StatusShape /\ [Next]_vars => StatusShape'
<1> SUFFICES ASSUME WayTypes, TxShape, OutShape, StatusShape, [Next]_vars PROVE StatusShape'
  OBVIOUS
<1> USE LayerOrder DEF WayTypes, TxShape, OutShape, StatusShape, TxInside, Success, Front, Back, Edge, wayVars, ctxVars, logVars, browserVars
<1>1. ASSUME NEW r \in Requests, Send(r), UNCHANGED layers PROVE StatusShape'
  BY <1>1 DEF Send
<1>2. ASSUME NEW r \in Requests, Receive(r), UNCHANGED layers PROVE StatusShape'
  BY <1>2 DEF Receive
<1>3. ASSUME NEW r \in Requests, Pass(r), UNCHANGED layers PROVE StatusShape'
  BY <1>3 DEF Pass, CallNext, Give, Unwind
<1>4. ASSUME NEW r \in Requests, Recover(r), UNCHANGED layers PROVE StatusShape'
  BY <1>4 DEF Recover, Panicking, Give, Unwind
<1>5. ASSUME NEW r \in Requests, AccessLog(r), UNCHANGED layers PROVE StatusShape'
  BY <1>5 DEF AccessLog, Leaving, Give
<1>6. ASSUME NEW r \in Requests, Trace(r), UNCHANGED layers PROVE StatusShape'
  BY <1>6 DEF Trace, Leaving, Give
<1>7. ASSUME NEW r \in Requests, FlashRead(r), UNCHANGED layers PROVE StatusShape'
  BY <1>7 DEF FlashRead, Entering, CallNext
<1>8. ASSUME NEW r \in Requests, FlashWrite(r), UNCHANGED layers PROVE StatusShape'
  BY <1>8 DEF FlashWrite, Leaving, Give
<1>9. ASSUME NEW r \in Requests, CheckToken(r), UNCHANGED layers PROVE StatusShape'
  BY <1>9 DEF CheckToken, Entering, Give, CallNext
<1>10. ASSUME NEW r \in Requests, Begin(r), UNCHANGED layers PROVE StatusShape'
  BY <1>10 DEF Begin, Entering, CallNext, Give
<1>11. ASSUME NEW r \in Requests, Commit(r), UNCHANGED layers PROVE StatusShape'
  BY <1>11 DEF Commit, Leaving, Commits, Give
<1>12. ASSUME NEW r \in Requests, Rollback(r), UNCHANGED layers PROVE StatusShape'
  BY <1>12 DEF Rollback, Commits, Give, Unwind
<1>13. ASSUME NEW r \in Requests, Adapted(r), UNCHANGED layers PROVE StatusShape'
  <2>1. CASE MaySend(r) /\ (CallNext(r) \/ Unwind(r))
    BY <1>13, <2>1, MaySendOnce DEF Adapted, CallNext, Unwind
  <2>2. ASSUME NEW code \in SelfAnswers, Sends(r, code), Give(r, [kind |-> "written", code |-> code])
        PROVE  StatusShape'
    BY <1>13, <2>2, SendsOnce DEF Adapted, Give
  <2> QED
    BY <1>13, <2>1, <2>2 DEF Adapted
<1>14. ASSUME NEW r \in Requests, Handler(r), UNCHANGED layers PROVE StatusShape'
  BY <1>14 DEF Handler, Entering, Give, Unwind
<1>15. ASSUME NEW r \in Requests, Write(r), UNCHANGED layers PROVE StatusShape'
  BY <1>15 DEF Write
<1>16. ASSUME NEW r \in Requests, Abort(r), UNCHANGED layers PROVE StatusShape'
  BY <1>16 DEF Abort, Panicking
<1>17. CASE UNCHANGED vars
  BY <1>17 DEF vars
<1>18. ASSUME NEW r \in Requests, AdaptedReturns(r), UNCHANGED layers PROVE StatusShape'
  BY <1>18, MaySendOnce DEF AdaptedReturns, Give, Unwind
<1> HIDE DEF WayTypes, TxShape, OutShape, StatusShape
<1> QED
  BY <1>1, <1>2, <1>3, <1>4, <1>5, <1>6, <1>7, <1>8, <1>9,
     <1>10, <1>11, <1>12, <1>13, <1>14, <1>15, <1>16, <1>17, <1>18 DEF Next, Browse, Step

\* The layers outside the trace and the access log hand on what those saw.
LEMMA ObserverStep ==
  WayTypes /\ OutShape /\ ObserverShape /\ [Next]_vars => ObserverShape'
<1> SUFFICES ASSUME WayTypes, OutShape, ObserverShape, [Next]_vars PROVE ObserverShape'
  OBVIOUS
<1> USE LayerOrder DEF WayTypes, OutShape, ObserverShape, Front, wayVars, ctxVars, logVars, browserVars
<1>1. ASSUME NEW r \in Requests, Send(r), UNCHANGED layers PROVE ObserverShape'
  BY <1>1 DEF Send
<1>2. ASSUME NEW r \in Requests, Receive(r), UNCHANGED layers PROVE ObserverShape'
  BY <1>2 DEF Receive
<1>3. ASSUME NEW r \in Requests, Pass(r), UNCHANGED layers PROVE ObserverShape'
  BY <1>3 DEF Pass, CallNext, Give, Unwind
<1>4. ASSUME NEW r \in Requests, Recover(r), UNCHANGED layers PROVE ObserverShape'
  BY <1>4 DEF Recover, Panicking, Give, Unwind
<1>5. ASSUME NEW r \in Requests, AccessLog(r), UNCHANGED layers PROVE ObserverShape'
  BY <1>5 DEF AccessLog, Leaving, Give, StatusOf
<1>6. ASSUME NEW r \in Requests, Trace(r), UNCHANGED layers PROVE ObserverShape'
  BY <1>6 DEF Trace, Leaving, Give, StatusOf
<1>7. ASSUME NEW r \in Requests, FlashRead(r), UNCHANGED layers PROVE ObserverShape'
  BY <1>7 DEF FlashRead, Entering, CallNext
<1>8. ASSUME NEW r \in Requests, FlashWrite(r), UNCHANGED layers PROVE ObserverShape'
  BY <1>8 DEF FlashWrite, Leaving, Give
<1>9. ASSUME NEW r \in Requests, CheckToken(r), UNCHANGED layers PROVE ObserverShape'
  BY <1>9 DEF CheckToken, Entering, Give, CallNext
<1>10. ASSUME NEW r \in Requests, Begin(r), UNCHANGED layers PROVE ObserverShape'
  BY <1>10 DEF Begin, Entering, CallNext, Give
<1>11. ASSUME NEW r \in Requests, Commit(r), UNCHANGED layers PROVE ObserverShape'
  BY <1>11 DEF Commit, Leaving, Commits, Give
<1>12. ASSUME NEW r \in Requests, Rollback(r), UNCHANGED layers PROVE ObserverShape'
  BY <1>12 DEF Rollback, Commits, Give, Unwind
<1>13. ASSUME NEW r \in Requests, Adapted(r), UNCHANGED layers PROVE ObserverShape'
  <2>1. CASE MaySend(r) /\ (CallNext(r) \/ Unwind(r))
    BY <1>13, <2>1, MaySendOnce DEF Adapted, CallNext, Unwind
  <2>2. ASSUME NEW code \in SelfAnswers, Sends(r, code), Give(r, [kind |-> "written", code |-> code])
        PROVE  ObserverShape'
    BY <1>13, <2>2, SendsOnce DEF Adapted, Give
  <2> QED
    BY <1>13, <2>1, <2>2 DEF Adapted
<1>14. ASSUME NEW r \in Requests, Handler(r), UNCHANGED layers PROVE ObserverShape'
  BY <1>14 DEF Handler, Entering, Give, Unwind
<1>15. ASSUME NEW r \in Requests, Write(r), UNCHANGED layers PROVE ObserverShape'
  BY <1>15 DEF Write
<1>16. ASSUME NEW r \in Requests, Abort(r), UNCHANGED layers PROVE ObserverShape'
  BY <1>16 DEF Abort, Panicking
<1>17. CASE UNCHANGED vars
  BY <1>17 DEF vars
<1>18. ASSUME NEW r \in Requests, AdaptedReturns(r), UNCHANGED layers PROVE ObserverShape'
  BY <1>18, MaySendOnce DEF AdaptedReturns, Give, Unwind
<1> QED
  BY <1>1, <1>2, <1>3, <1>4, <1>5, <1>6, <1>7, <1>8, <1>9,
     <1>10, <1>11, <1>12, <1>13, <1>14, <1>15, <1>16, <1>17, <1>18 DEF Next, Browse, Step

-----------------------------------------------------------------------------

StackInv == WayTypes /\ TxShape /\ OutShape /\ StatusShape /\ ObserverShape

LEMMA StackInvariant == Spec => []StackInv
<1>1. Init => StackInv
  BY DEF Init, StackInv, WayTypes, TxShape, OutShape, StatusShape, ObserverShape, Front, Back, Edge
<1>2. StackInv /\ [Next]_vars => StackInv'
  BY TxStep, OutStep, StatusStep, ObserverStep DEF StackInv
<1> QED
  BY <1>1, <1>2, PTL DEF Spec

\* No transaction outlives its request, whatever the handler, the middleware
\* or the commit did.
THEOREM TransactionsEnd == Spec => []NoOpenTransaction
<1>1. StackInv => NoOpenTransaction
  BY DEF StackInv, WayTypes, TxShape, NoOpenTransaction, Front, Back
<1> QED
  BY <1>1, StackInvariant, PTL

\* For every choice of middleware, an answer that the router alone writes tells
\* whether the transaction committed, unless a session middleware turned it
\* after the transaction; and for every answer that is not a handler error and
\* has one writer, the log and the span have the status of the client.
THEOREM StatusTellsTheTruth == Spec => []StatusIsTrue
<1>1. StackInv => StatusTellsCommit
  BY DEF StackInv, TxShape, StatusShape, StatusTellsCommit
<1>2. StackInv => ObserversAgree
  BY DEF StackInv, ObserverShape, ObserversAgree
<1>3. StackInv => StatusIsTrue
  BY <1>1, <1>2 DEF StatusIsTrue
<1> QED
  BY <1>3, StackInvariant, PTL

-----------------------------------------------------------------------------
(* The cookies. *)

\* The cookies and the toasts of each request.
CookieTypes ==
  /\ DOMAIN hdr = Requests
  /\ \A q \in Requests : DOMAIN hdr[q] = {"flash", "csrf"}
  /\ DOMAIN toasts = Requests
  /\ DOMAIN sentWith = Requests

\* A toast that travels tells of rows that are there.  A request adds none but
\* its own to those it carries, and none before it is inside.
ToastShape ==
  "transaction" \in layers =>
    /\ (UNION jar.flash) \cap Requests \subseteq rows
    /\ \A q \in Requests :
         /\ Carried(q) \cap Requests \subseteq rows
         /\ (UNION hdr[q].flash) \cap Requests \subseteq rows
         /\ toasts[q] \subseteq Carried(q) \cup {q}
         /\ dir[q] = "idle" => toasts[q] = {}
    /\ \A t, q \in Requests : <<t, q>> \in shown => t \in rows

\* Inside of Flash, the response of a request that carried toasts clears them.
ClearShape ==
  "flash" \in layers =>
    \A q \in Requests :
      /\ \/ dir[q] = "in" /\ at[q] \in {"session", "csrf", "transaction", "auth", "handler"}
         \/ dir[q] \in {"out", "panic", "sent", "cut"}
      /\ Carried(q) # {}
      => hdr[q].flash # {}

\* A transaction belongs to a request that came past the check of its token.
TokenShape ==
  "csrf" \in layers =>
    \A q \in Unsafe :
      (dir[q] = "in" /\ at[q] \in {"transaction", "auth", "handler"}) \/ tx[q] # "none" =>
        sentWith[q].field # {} /\ sentWith[q].field = sentWith[q].cookies.csrf

\* The layers that have no business with the cookies leave them alone.
LEMMA CookieFrame ==
  ASSUME NEW r,
         Pass(r) \/ Recover(r) \/ AccessLog(r) \/ Trace(r) \/ Begin(r) \/ Commit(r)
           \/ Rollback(r) \/ Adapted(r) \/ AdaptedReturns(r) \/ Write(r) \/ Abort(r)
  PROVE  UNCHANGED <<hdr, toasts, sentWith, jar, shown>> /\ rows \subseteq rows'
<1> USE DEF ctxVars, browserVars
<1>1. CASE Commit(r)
  BY <1>1 DEF Commit
<1>2. CASE Pass(r) \/ Recover(r) \/ AccessLog(r) \/ Trace(r) \/ Begin(r)
  BY <1>2 DEF Pass, Recover, AccessLog, Trace, Begin
<1>3. CASE Rollback(r) \/ Adapted(r) \/ AdaptedReturns(r) \/ Write(r) \/ Abort(r)
  BY <1>3 DEF Rollback, Adapted, AdaptedReturns, Write, Abort
<1> QED
  BY <1>1, <1>2, <1>3

\* The cookies keep their shape.
LEMMA CookieTypeStep ==
  CookieTypes /\ [Next]_vars => CookieTypes'
<1> SUFFICES ASSUME CookieTypes, [Next]_vars PROVE CookieTypes'
  OBVIOUS
<1> USE DEF CookieTypes, SetCookie
<1>1. ASSUME NEW r \in Requests,
             Pass(r) \/ Recover(r) \/ AccessLog(r) \/ Trace(r) \/ Begin(r) \/ Commit(r)
               \/ Rollback(r) \/ Adapted(r) \/ AdaptedReturns(r) \/ Write(r) \/ Abort(r)
      PROVE  CookieTypes'
  <2>1. UNCHANGED <<hdr, toasts, sentWith>>
    BY <1>1, CookieFrame
  <2> QED
    BY <2>1
<1>2. ASSUME NEW r \in Requests, Send(r) PROVE CookieTypes'
  BY <1>2 DEF Send
<1>3. ASSUME NEW r \in Requests, Receive(r) PROVE CookieTypes'
  BY <1>3 DEF Receive, ctxVars
<1>4. ASSUME NEW r \in Requests, FlashRead(r) PROVE CookieTypes'
  BY <1>4 DEF FlashRead
<1>5. ASSUME NEW r \in Requests, FlashWrite(r) PROVE CookieTypes'
  BY <1>5 DEF FlashWrite, ctxVars
<1>6. ASSUME NEW r \in Requests, CheckToken(r) PROVE CookieTypes'
  BY <1>6 DEF CheckToken
<1>7. ASSUME NEW r \in Requests, Handler(r) PROVE CookieTypes'
  BY <1>7 DEF Handler
<1>8. CASE UNCHANGED vars
  BY <1>8 DEF vars, ctxVars
<1> HIDE DEF CookieTypes
<1> QED
  BY <1>1, <1>2, <1>3, <1>4, <1>5, <1>6, <1>7, <1>8 DEF Next, Browse, Step

\* A request carries the cookies it was sent with.
LEMMA SameCarried == ASSUME NEW q, sentWith'[q] = sentWith[q] PROVE Carried(q)' = Carried(q)
  BY DEF Carried

\* Only CheckToken lets a request past it, and it compares the two tokens.
LEMMA TokenStep ==
  WayTypes /\ TxShape /\ CookieTypes /\ TokenShape /\ [Next]_vars => TokenShape'
<1> SUFFICES ASSUME WayTypes, TxShape, DOMAIN sentWith = Requests, TokenShape, [Next]_vars
             PROVE  TokenShape'
  BY DEF CookieTypes
<1> USE PipelineAssumption, LayerOrder
    DEF PipelineAssumption, WayTypes, TxShape, TokenShape, TxInside, Front, Edge, wayVars, ctxVars
<1>1. ASSUME NEW r \in Requests, Send(r), UNCHANGED layers PROVE TokenShape'
  BY <1>1 DEF Send
<1>2. ASSUME NEW r \in Requests, Receive(r), UNCHANGED layers PROVE TokenShape'
  BY <1>2 DEF Receive
<1>3. ASSUME NEW r \in Requests, Pass(r) \/ Begin(r), UNCHANGED layers PROVE TokenShape'
  BY <1>3 DEF Pass, Begin, Entering, CallNext, Give, Unwind
<1>4. ASSUME NEW r \in Requests, CheckToken(r), UNCHANGED layers PROVE TokenShape'
  BY <1>4 DEF CheckToken, Entering, Give, CallNext
<1>5. ASSUME NEW r \in Requests, Recover(r) \/ AccessLog(r) \/ Trace(r), UNCHANGED layers
      PROVE  TokenShape'
  BY <1>5 DEF Recover, AccessLog, Trace, Panicking, Leaving, Give, Unwind
<1>6. ASSUME NEW r \in Requests, FlashRead(r) \/ FlashWrite(r), UNCHANGED layers
      PROVE  TokenShape'
  BY <1>6 DEF FlashRead, FlashWrite, Entering, Leaving, CallNext, Give
<1>7. ASSUME NEW r \in Requests, Commit(r) \/ Rollback(r), UNCHANGED layers PROVE TokenShape'
  <2>1. tx[r] # "none" /\ UNCHANGED sentWith
    BY <1>7 DEF Commit, Rollback
  <2>2. \A q \in Requests : q # r => UNCHANGED <<at[q], dir[q], tx[q]>>
    BY <1>7 DEF Commit, Rollback, Give, Unwind
  <2> QED
    BY <1>7, <2>1, <2>2
<1>8. ASSUME NEW r \in Requests, Adapted(r) \/ Handler(r), UNCHANGED layers PROVE TokenShape'
  <2>1. UNCHANGED <<tx, sentWith>> /\ dir[r] = "in"
    BY <1>8 DEF Adapted, Handler, Entering
  <2>2. \A q \in Requests : q # r => UNCHANGED <<at[q], dir[q]>>
    BY <1>8 DEF Adapted, Handler, CallNext, Give, Unwind
  <2>3. dir'[r] # "in" \/ at'[r] \in {"csrf", "handler"}
    BY <1>8 DEF Adapted, Handler, CallNext, Give, Unwind
  <2>4. at'[r] = "handler" /\ dir'[r] = "in" => at[r] = "auth"
    BY <1>8 DEF Adapted, Handler, Entering, CallNext, Give, Unwind
  <2> QED
    BY <1>8, <2>1, <2>2, <2>3, <2>4
<1>9. ASSUME NEW r \in Requests, Write(r) \/ Abort(r), UNCHANGED layers PROVE TokenShape'
  BY <1>9 DEF Write, Abort
<1>10. CASE UNCHANGED vars
  BY <1>10 DEF vars
<1>11. ASSUME NEW r \in Requests, AdaptedReturns(r), UNCHANGED layers PROVE TokenShape'
  BY <1>11 DEF AdaptedReturns, Give, Unwind
<1> HIDE DEF WayTypes, TxShape, TokenShape
<1> QED
  BY <1>1, <1>2, <1>3, <1>4, <1>5, <1>6, <1>7, <1>8, <1>9, <1>10, <1>11 DEF Next, Browse, Step

\* Flash clears the cookie before it calls next, and nobody takes that back.
LEMMA ClearStep ==
  WayTypes /\ OutShape /\ CookieTypes /\ ClearShape /\ [Next]_vars => ClearShape'
<1> SUFFICES ASSUME WayTypes, OutShape, CookieTypes, ClearShape, [Next]_vars PROVE ClearShape'
  OBVIOUS
<1> USE LayerOrder DEF WayTypes, ClearShape, Front
<1>1. ASSUME NEW r \in Requests,
             Pass(r) \/ Recover(r) \/ AccessLog(r) \/ Trace(r) \/ Begin(r) \/ Commit(r)
               \/ Rollback(r) \/ Adapted(r) \/ AdaptedReturns(r) \/ Write(r) \/ Abort(r),
             UNCHANGED layers
      PROVE  ClearShape'
  <2>1. UNCHANGED hdr /\ \A q \in Requests : Carried(q)' = Carried(q)
    BY <1>1, CookieFrame, SameCarried
  <2>2. \A q \in Requests : q # r => UNCHANGED <<at[q], dir[q]>>
    BY <1>1 DEF Pass, Recover, AccessLog, Trace, Begin, Commit, Rollback, Adapted, AdaptedReturns, Write, Abort,
                CallNext, Give, Unwind
  <2>3. /\ "flash" \in layers
        /\ dir[r] = "in"
        /\ at'[r] \in {"session", "csrf", "transaction", "auth", "handler"} \/ dir'[r] # "in"
        => at[r] \in {"session", "csrf", "transaction", "auth", "handler"}
    BY <1>1 DEF Pass, Recover, AccessLog, Trace, Begin, Commit, Rollback, Adapted, AdaptedReturns, Write, Abort,
                Entering, Leaving, Panicking, CallNext, Give, Unwind
  <2>4. dir[r] \in {"in", "out", "panic"}
    BY <1>1 DEF Pass, Recover, AccessLog, Trace, Begin, Commit, Rollback, Adapted, AdaptedReturns, Write, Abort,
                Entering, Leaving, Panicking
  <2> QED
    BY <1>1, <2>1, <2>2, <2>3, <2>4
<1>2. ASSUME NEW r \in Requests, Send(r), UNCHANGED layers PROVE ClearShape'
  <2>1. \A q \in Requests : q # r => UNCHANGED <<at[q], dir[q], hdr[q]>> /\ Carried(q)' = Carried(q)
    BY <1>2, SameCarried DEF Send
  <2>2. dir'[r] = "in" /\ at'[r] = "recover"
    BY <1>2 DEF Send
  <2> QED
    BY <1>2, <2>1, <2>2
<1>3. ASSUME NEW r \in Requests, Receive(r), UNCHANGED layers PROVE ClearShape'
  <2>1. UNCHANGED <<at, hdr>> /\ \A q \in Requests : Carried(q)' = Carried(q)
    BY <1>3, SameCarried DEF Receive, ctxVars
  <2> QED
    BY <1>3, <2>1 DEF Receive
<1>4. ASSUME NEW r \in Requests, FlashRead(r), UNCHANGED layers PROVE ClearShape'
  <2>1. \A q \in Requests : Carried(q)' = Carried(q)
    BY <1>4, SameCarried DEF FlashRead
  <2>2. \A q \in Requests : q # r => UNCHANGED <<at[q], dir[q], hdr[q]>>
    BY <1>4 DEF FlashRead, CallNext, SetCookie, CookieTypes
  <2>3. wire[r].by = "nobody"
    BY <1>4 DEF FlashRead, Entering, OutShape
  <2>4. Carried(r) # {} => hdr'[r].flash # {}
    <3> HIDE DEF WayTypes, ClearShape
    <3> QED
      BY <1>4, <2>3 DEF FlashRead, SetCookie, CookieTypes
  <2> QED
    BY <1>4, <2>1, <2>2, <2>4
<1>5. ASSUME NEW r \in Requests, FlashWrite(r) \/ CheckToken(r) \/ Handler(r), UNCHANGED layers
      PROVE  ClearShape'
  <2>1. \A q \in Requests : Carried(q)' = Carried(q)
    BY <1>5, SameCarried DEF FlashWrite, CheckToken, Handler, ctxVars
  <2>2. \A q \in Requests : q # r => UNCHANGED <<at[q], dir[q], hdr[q]>>
    BY <1>5 DEF FlashWrite, CheckToken, Handler, CallNext, Give, Unwind, SetCookie, CookieTypes
  <2>3. hdr[r].flash # {} => hdr'[r].flash # {}
    <3> HIDE DEF WayTypes, ClearShape
    <3> QED
      BY <1>5 DEF FlashWrite, CheckToken, Handler, SetCookie, CookieTypes
  <2>4. dir[r] = "out" \/ (dir[r] = "in" /\ at[r] \in {"csrf", "handler"})
    BY <1>5 DEF FlashWrite, CheckToken, Handler, Entering, Leaving
  <2> QED
    BY <1>5, <2>1, <2>2, <2>3, <2>4
<1>6. CASE UNCHANGED vars
  <2>1. UNCHANGED <<at, dir, hdr, layers>> /\ \A q \in Requests : Carried(q)' = Carried(q)
    BY <1>6, SameCarried DEF vars, wayVars, ctxVars
  <2> QED
    BY <2>1
<1> HIDE DEF WayTypes, ClearShape
<1> QED
  BY <1>1, <1>2, <1>3, <1>4, <1>5, <1>6 DEF Next, Browse, Step

\* The result of a request on its way out to the browser tells of its rows.
LEMMA SuccessHasRows ==
  ASSUME TxShape, StatusShape, "transaction" \in layers, NEW r \in Requests,
         dir[r] \in {"out", "sent", "cut"}, at[r] \in Back, out[r].kind # "written",
         Success(out[r].code), out[r].code # 204
  PROVE  r \in rows
  BY DEF TxShape, StatusShape, Success

\* Where a toast may be, it tells of rows that are there.
LEMMA ToastStep ==
  WayTypes /\ TxShape /\ OutShape /\ StatusShape /\ CookieTypes /\ ToastShape /\ [Next]_vars => ToastShape'
<1> SUFFICES ASSUME WayTypes, TxShape, OutShape, StatusShape, CookieTypes, ToastShape,
                    [Next]_vars, "transaction" \in layers, UNCHANGED layers
             PROVE  ToastShape'
  BY DEF ToastShape, Next, Browse, Step, vars
<1>1. ASSUME NEW r \in Requests,
             Pass(r) \/ Recover(r) \/ AccessLog(r) \/ Trace(r) \/ Begin(r) \/ Commit(r)
               \/ Rollback(r) \/ Adapted(r) \/ AdaptedReturns(r) \/ Write(r) \/ Abort(r)
      PROVE  ToastShape'
  <2>1. UNCHANGED <<hdr, toasts, jar, shown>> /\ rows \subseteq rows'
    BY <1>1, CookieFrame
  <2>2. \A q \in Requests : Carried(q)' = Carried(q)
    BY <1>1, CookieFrame, SameCarried
  <2>3. \A q \in Requests : dir'[q] = "idle" => dir[q] = "idle"
    BY <1>1 DEF WayTypes, Pass, Recover, AccessLog, Trace, Begin, Commit, Rollback, Adapted, AdaptedReturns, Write,
                Abort, CallNext, Give, Unwind
  <2> QED
    BY <2>1, <2>2, <2>3 DEF ToastShape
<1>2. ASSUME NEW r \in Requests, Send(r) PROVE ToastShape'
  <2>1. UNCHANGED <<hdr, toasts, rows, jar, shown>>
    BY <1>2 DEF Send, browserVars
  <2>2. \A q \in Requests : q # r => Carried(q)' = Carried(q)
    BY <1>2, SameCarried DEF Send, CookieTypes
  <2>3. Carried(r)' = (UNION jar.flash)
    BY <1>2 DEF Send, Carried, CookieTypes
  <2>4. toasts[r] = {}
    BY <1>2 DEF Send, ToastShape
  <2>5. \A q \in Requests : dir'[q] = "idle" => dir[q] = "idle"
    BY <1>2 DEF Send, WayTypes
  <2> QED
    BY <2>1, <2>2, <2>3, <2>4, <2>5 DEF ToastShape
<1>3. ASSUME NEW r \in Requests, Receive(r) PROVE ToastShape'
  <2>1. UNCHANGED <<hdr, toasts, rows>> /\ \A q \in Requests : Carried(q)' = Carried(q)
    BY <1>3, SameCarried DEF Receive, ctxVars
  <2>2. (UNION jar'.flash) \subseteq (UNION jar.flash) \cup (UNION hdr[r].flash)
    <3>1. jar'.flash = jar.flash \/ jar'.flash = hdr[r].flash \ {{}}
      BY <1>3 DEF Receive
    <3> QED
      BY <3>1
  <2>3. CASE shown' = shown
    <3>1. \A q \in Requests : dir'[q] = "idle" => dir[q] = "idle"
      BY <1>3 DEF Receive, WayTypes
    <3> QED
      BY <2>1, <2>2, <2>3, <3>1 DEF ToastShape
  <2>4. CASE /\ dir[r] = "sent"
             /\ out[r] = [kind |-> "response", code |-> 200]
             /\ shown' = shown \cup (toasts[r] \X {r})
    <3>1. r \in rows
      BY <2>4, SuccessHasRows DEF Success, TxShape, Back
    <3>2. toasts[r] \cap Requests \subseteq rows
      BY <3>1 DEF ToastShape
    <3>3. \A t, q \in Requests : <<t, q>> \in shown' => t \in rows
      BY <2>4, <3>2 DEF ToastShape
    <3>4. \A q \in Requests : dir'[q] = "idle" => dir[q] = "idle"
      BY <1>3 DEF Receive, WayTypes
    <3> QED
      BY <2>1, <2>2, <3>3, <3>4 DEF ToastShape
  <2> QED
    BY <1>3, <2>3, <2>4 DEF Receive
<1>4. ASSUME NEW r \in Requests, FlashRead(r) PROVE ToastShape'
  <2>1. UNCHANGED <<rows, jar, shown, dir>> /\ \A q \in Requests : Carried(q)' = Carried(q)
    BY <1>4, SameCarried DEF FlashRead, browserVars, CallNext
  <2>2. toasts' = [toasts EXCEPT ![r] = @ \cup Carried(r)] /\ dir[r] = "in"
    BY <1>4 DEF FlashRead, Entering
  <2>3. \A q \in Requests : (UNION hdr'[q].flash) \subseteq (UNION hdr[q].flash)
    <3>1. \A q \in Requests : hdr'[q].flash = hdr[q].flash \/ hdr'[q].flash = {{}}
      BY <1>4 DEF FlashRead, SetCookie, CookieTypes
    <3> QED
      BY <3>1
  <2> QED
    BY <2>1, <2>2, <2>3 DEF ToastShape, CookieTypes
<1>5. ASSUME NEW r \in Requests, FlashWrite(r) PROVE ToastShape'
  <2>1. UNCHANGED <<toasts, rows, jar, shown>> /\ \A q \in Requests : Carried(q)' = Carried(q)
    BY <1>5, SameCarried DEF FlashWrite, browserVars, ctxVars
  <2>2. \A q \in Requests : dir'[q] = "idle" => dir[q] = "idle"
    BY <1>5 DEF FlashWrite, Give, WayTypes
  <2>3. \A q \in Requests : (UNION hdr'[q].flash) \cap Requests \subseteq rows
    <3>1. CASE hdr' = hdr
      BY <3>1 DEF ToastShape
    <3>2. CASE hdr' # hdr
      <4>1. wire[r].by = "nobody" /\ Redirects(out[r].code)
        BY <1>5, <3>2 DEF FlashWrite, SetCookie
      <4>2. r \in rows
        <5>1. dir[r] = "out" /\ at[r] = "flash"
          BY <1>5 DEF FlashWrite, Leaving
        <5>2. out[r].kind # "written"
          BY <4>1, <5>1 DEF OutShape
        <5> QED
          BY <4>1, <5>1, <5>2, SuccessHasRows DEF Back, Success, Redirects
      <4>3. toasts[r] \cap Requests \subseteq rows
        BY <4>2 DEF ToastShape
      <4>4. \A q \in Requests : hdr'[q].flash = hdr[q].flash \/ (q = r /\ hdr'[q].flash = {toasts[r]})
        BY <1>5 DEF FlashWrite, SetCookie, CookieTypes
      <4> QED
        BY <4>3, <4>4 DEF ToastShape
    <3> QED
      BY <3>1, <3>2
  <2> QED
    BY <2>1, <2>2, <2>3 DEF ToastShape
<1>6. ASSUME NEW r \in Requests, CheckToken(r) PROVE ToastShape'
  <2>1. UNCHANGED <<toasts, rows, jar, shown>> /\ \A q \in Requests : Carried(q)' = Carried(q)
    BY <1>6, SameCarried DEF CheckToken, browserVars
  <2>2. \A q \in Requests : dir'[q] = "idle" => dir[q] = "idle"
    BY <1>6 DEF CheckToken, Give, CallNext, WayTypes
  <2>3. \A q \in Requests : hdr'[q].flash = hdr[q].flash
    BY <1>6 DEF CheckToken, SetCookie, CookieTypes
  <2> QED
    BY <2>1, <2>2, <2>3 DEF ToastShape
<1>7. ASSUME NEW r \in Requests, Handler(r) PROVE ToastShape'
  <2>1. UNCHANGED <<hdr, rows, jar, shown>> /\ \A q \in Requests : Carried(q)' = Carried(q)
    BY <1>7, SameCarried DEF Handler, browserVars
  <2>2. \A q \in Requests : dir'[q] = "idle" => q # r /\ dir[q] = "idle"
    BY <1>7 DEF Handler, Give, Unwind, WayTypes
  <2>3. PICK t \in {{}, {r}} : toasts' = [toasts EXCEPT ![r] = @ \cup t]
    BY <1>7 DEF Handler
  <2> QED
    BY <2>1, <2>2, <2>3 DEF ToastShape, CookieTypes
<1>8. CASE UNCHANGED vars
  <2>1. UNCHANGED <<dir, hdr, toasts, rows, jar, shown>> /\ \A q \in Requests : Carried(q)' = Carried(q)
    BY <1>8, SameCarried DEF vars, wayVars, ctxVars, browserVars
  <2> QED
    BY <2>1 DEF ToastShape
<1> QED
  BY <1>1, <1>2, <1>3, <1>4, <1>5, <1>6, <1>7, <1>8 DEF Next, Browse, Step

-----------------------------------------------------------------------------

CookieInv == CookieTypes /\ TokenShape /\ ClearShape /\ ToastShape

LEMMA CookieInvariant == Spec => []CookieInv
<1>1. Init => CookieInv
  <2> SUFFICES ASSUME Init PROVE CookieInv
    OBVIOUS
  <2>1. CookieTypes
    BY DEF Init, CookieTypes, None
  <2>2. TokenShape
    BY PipelineAssumption DEF PipelineAssumption, Init, TokenShape
  <2>3. ClearShape
    BY DEF Init, ClearShape
  <2>4. \A q \in Requests : Carried(q) = {} /\ (UNION hdr[q].flash) = {}
    BY DEF Init, Carried, None
  <2>5. (UNION jar.flash) \subseteq {Old}
    BY DEF Init
  <2>6. ToastShape
    BY <2>4, <2>5, PipelineAssumption DEF PipelineAssumption, Init, ToastShape
  <2> QED
    BY <2>1, <2>2, <2>3, <2>6 DEF CookieInv
<1>2. StackInv /\ CookieInv /\ [Next]_vars => CookieInv'
  BY CookieTypeStep, TokenStep, ClearStep, ToastStep DEF StackInv, CookieInv
<1> QED
  BY <1>1, <1>2, StackInvariant, PTL DEF Spec

\* A toast tells of rows that are there, a toast that was read is cleared, and
\* a forged form opens no transaction, for every choice of middleware.
THEOREM BrowserHoldsTheTruth == Spec => []BrowserIsTrue
<1>1. CookieInv => ToastsAreTrue
  BY DEF CookieInv, ToastShape, ToastsAreTrue
<1>2. CookieInv => ReadToastsAreCleared
  BY DEF CookieInv, ClearShape, ReadToastsAreCleared
<1>3. StackInv /\ CookieInv => ForgedFormOpensNothing
  BY PipelineAssumption
     DEF PipelineAssumption, StackInv, TxShape, CookieInv, TokenShape, ForgedFormOpensNothing
<1>4. StackInv /\ CookieInv => BrowserIsTrue
  BY <1>1, <1>2, <1>3 DEF BrowserIsTrue
<1> QED
  BY <1>4, StackInvariant, CookieInvariant, PTL
=============================================================================
