------------------------------ MODULE Pipeline ------------------------------
(***************************************************************************)
(* The requests of one browser through the middleware of router.Stack      *)
(* (router/stack.go): recover, access log, trace, flash, session, CSRF,    *)
(* transaction and authentication around a handler.  A request goes in     *)
(* layer by layer, and its result, or its panic, comes out layer by layer. *)
(* The requests share the cookies of the browser and the database.         *)
(*                                                                         *)
(* A step is the code of one layer on one side of its call of next.  The   *)
(* request ID is left out: it only sets a header and a context value.      *)
(*                                                                         *)
(* External: the handler, the net/http middleware behind Adapt, the        *)
(* transaction of drel and the browser.  An adapted middleware calls next  *)
(* at most once and in its own goroutine.  The error handler is that of    *)
(* the router, which answers an error with no 2xx and no 3xx.  The rows of *)
(* a request are one unit: they are all in the database or none is.        *)
(***************************************************************************)
EXTENDS Naturals

CONSTANTS
  Requests,     \* the requests of the browser
  Unsafe,       \* those with a method that CSRF checks
  Chains,       \* the middleware of each application that the model starts
  SelfAnswers,  \* the statuses that an adapted middleware answers itself
  Strays,       \* the statuses that one writes although it calls next
  Meddled,      \* the requests around which an adapted middleware may do so,
                \* or do more after next than hand on its result
  Old           \* names the CSRF token and the toast of an earlier visit

ASSUME PipelineAssumption ==
  /\ Unsafe \subseteq Requests
  /\ Meddled \subseteq Requests
  /\ Chains \subseteq SUBSET {"accessLog", "trace", "flash", "session", "csrf", "transaction", "auth"}
  /\ SelfAnswers \subseteq {200, 302, 401, 500}
  /\ Strays \subseteq {200, 302, 401, 500}
  /\ Old \notin Requests

VARIABLES
  layers,   \* the middleware of this application, fixed by its Stack
  at,       \* the layer that holds each request
  dir,      \* where the request is on its way
  out,      \* the result on its way out
  tx,       \* the transaction of each request
  wire,     \* the status on the wire, and who sent it
  hdr,      \* the cookies that the response header sets
  toasts,   \* Ctx.toasts, each named by the request that added it
  token,    \* the CSRF token in the context
  sentWith, \* the cookies and the form field that the request carries
  logged,   \* the status in the line of the access log
  span,     \* the status in the server span
  rows,     \* the requests whose rows are in the database
  jar,      \* the cookies of the browser
  pages,    \* the tokens in the forms of the open pages
  shown,    \* the toasts that a page showed, each with that page
  turned    \* history: the requests whose session middleware, outside of the
            \* transaction, panicked after next or recovered a panic of next

wayVars == <<at, dir, out>>
ctxVars == <<toasts, token, sentWith>>
logVars == <<logged, span>>
browserVars == <<jar, pages, shown>>
vars == <<layers, wayVars, tx, wire, hdr, ctxVars, logVars, rows, browserVars, turned>>

-----------------------------------------------------------------------------

\* The order of Stack.build, from the outermost layer.  The router calls the
\* first one, and the last one calls the handler.
Inner ==
  [recover |-> "accessLog", accessLog |-> "trace", trace |-> "flash", flash |-> "session",
   session |-> "csrf", csrf |-> "transaction", transaction |-> "auth", auth |-> "handler"]

Outer ==
  [handler |-> "auth", auth |-> "transaction", transaction |-> "csrf", csrf |-> "session",
   session |-> "flash", flash |-> "trace", trace |-> "accessLog", accessLog |-> "recover",
   recover |-> "router"]

\* The names of tokens and of toasts.  A cookie or a field is a set of at most
\* one value.
Tokens == Requests \cup {Old}
Maybe(S) == {{}} \cup {{x} : x \in S}
Cookies == [flash : Maybe(SUBSET Tokens), csrf : Maybe(Tokens)]
None == [flash |-> {}, csrf |-> {}]

Success(code) == code \in 200 .. 399
Redirects(code) == code \in 300 .. 399

\* The statuses that the model tells apart.
Codes == {200, 204, 302, 401, 404, 419, 500}

\* A nil response answers 204.  A handler that fails returns a nil response.
StatusOf(o) == IF o.kind = "error" THEN 204 ELSE o.code

TypeOK ==
  /\ layers \in Chains
  /\ at \in [Requests -> DOMAIN Outer \cup {"router"}]
  /\ dir \in [Requests -> {"idle", "in", "out", "panic", "sent", "cut", "received", "broken", "aborted"}]
  /\ out \in [Requests -> [kind : {"response", "written", "error"}, code : Codes \cup {0}]]
  /\ tx \in [Requests -> {"none", "open", "committed", "rolledBack"}]
  /\ wire \in [Requests -> [by : {"router", "middleware", "both"}, code : Codes] \cup {[by |-> "nobody", code |-> 0]}]
  /\ hdr \in [Requests -> Cookies]
  /\ toasts \in [Requests -> SUBSET Tokens]
  /\ token \in [Requests -> Maybe(Tokens)]
  /\ sentWith \in [Requests -> [cookies : Cookies, field : Maybe(Tokens)]]
  /\ logged \in [Requests -> Codes \cup {0}]
  /\ span \in [Requests -> Codes \cup {0}]
  /\ rows \subseteq Requests
  /\ jar \in Cookies
  /\ pages \subseteq Tokens
  /\ shown \subseteq Tokens \X Requests
  /\ turned \subseteq Requests

\* The browser is new, or it holds the token and a page of an earlier visit,
\* and perhaps the toast of a redirect that it has not followed yet.
Init ==
  /\ layers \in Chains
  /\ at = [r \in Requests |-> "router"]
  /\ dir = [r \in Requests |-> "idle"]
  /\ out = [r \in Requests |-> [kind |-> "response", code |-> 0]]
  /\ tx = [r \in Requests |-> "none"]
  /\ wire = [r \in Requests |-> [by |-> "nobody", code |-> 0]]
  /\ hdr = [r \in Requests |-> None]
  /\ toasts = [r \in Requests |-> {}]
  /\ token = [r \in Requests |-> {}]
  /\ sentWith = [r \in Requests |-> [cookies |-> None, field |-> {}]]
  /\ logged = [r \in Requests |-> 0]
  /\ span = [r \in Requests |-> 0]
  /\ rows = {}
  /\ \E seen \in {{}, {Old}}, toast \in {{}, {{Old}}} :
       /\ jar = [flash |-> toast, csrf |-> seen]
       /\ pages = seen
  /\ shown = {}
  /\ turned = {}

-----------------------------------------------------------------------------

Entering(r, layer) == dir[r] = "in" /\ at[r] = layer
Leaving(r, layer) == dir[r] = "out" /\ at[r] = layer
Panicking(r, layer) == dir[r] = "panic" /\ at[r] = layer

\* The layer calls next.
CallNext(r) ==
  /\ at' = [at EXCEPT ![r] = Inner[@]]
  /\ UNCHANGED <<dir, out>>

\* The layer returns the result o to the layer around it.
Give(r, o) ==
  /\ at' = [at EXCEPT ![r] = Outer[@]]
  /\ dir' = [dir EXCEPT ![r] = "out"]
  /\ out' = [out EXCEPT ![r] = o]

\* The panic unwinds the layer.
Unwind(r) ==
  /\ at' = [at EXCEPT ![r] = Outer[@]]
  /\ dir' = [dir EXCEPT ![r] = "panic"]
  /\ UNCHANGED out

\* http.SetCookie reaches the client only before the header is sent.
SetCookie(r, name, value) ==
  hdr' = IF wire[r].by = "nobody" THEN [hdr EXCEPT ![r][name] = {value}] ELSE hdr

\* External: the browser sends the request with the cookies that it holds now.
\* A form carries the token of its page.
Send(r) ==
  /\ dir[r] = "idle"
  /\ \E f \in IF r \in Unsafe THEN Maybe(pages) ELSE {{}} :
       sentWith' = [sentWith EXCEPT ![r] = [cookies |-> jar, field |-> f]]
  /\ at' = [at EXCEPT ![r] = "recover"]
  /\ dir' = [dir EXCEPT ![r] = "in"]
  /\ UNCHANGED <<out, tx, wire, hdr, toasts, token, logVars, rows, browserVars, turned>>

\* A layer with nothing to do on this side of next, or that is left out.
Pass(r) ==
  /\ \/ /\ dir[r] = "in"
        /\ at[r] \in {"recover", "accessLog", "trace"} \/ at[r] \in DOMAIN Inner \ (layers \cup {"recover"})
        /\ CallNext(r)
     \/ /\ dir[r] = "out"
        /\ at[r] \in {"recover", "csrf"} \/ at[r] \in DOMAIN Inner \ (layers \cup {"recover"})
             \/ (at[r] = "transaction" /\ tx[r] = "none")
        /\ Give(r, out[r])
     \/ /\ dir[r] = "panic"
        /\ at[r] \in DOMAIN Inner \ ({"recover", "transaction"} \cup ({"session", "auth"} \cap layers))
             \/ (at[r] = "transaction" /\ tx[r] = "none")
        /\ Unwind(r)
  /\ UNCHANGED <<tx, wire, hdr, ctxVars, logVars, rows, browserVars, turned>>

\* Mutant: the recovered panic goes on.
RecoverRethrows(r) ==
  /\ Panicking(r, "recover")
  /\ Unwind(r)
  /\ UNCHANGED <<tx, wire, hdr, ctxVars, logVars, rows, browserVars, turned>>

\* Recover logs the panic and turns it into 500.  Stack hands it the logger of
\* the access log: without one the log call panics again, and nothing is left
\* to recover it.
Recover(r) ==
  /\ Panicking(r, "recover")
  /\ IF "accessLog" \in layers THEN Give(r, [kind |-> "response", code |-> 500]) ELSE Unwind(r)
  /\ UNCHANGED <<tx, wire, hdr, ctxVars, logVars, rows, browserVars, turned>>

AccessLog(r) ==
  /\ "accessLog" \in layers
  /\ Leaving(r, "accessLog")
  /\ logged' = [logged EXCEPT ![r] = StatusOf(out[r])]
  /\ Give(r, out[r])
  /\ UNCHANGED <<tx, wire, hdr, ctxVars, span, rows, browserVars, turned>>

Trace(r) ==
  /\ "trace" \in layers
  /\ Leaving(r, "trace")
  /\ span' = [span EXCEPT ![r] = IF out[r].kind = "error" THEN 500 ELSE StatusOf(out[r])]
  /\ Give(r, out[r])
  /\ UNCHANGED <<tx, wire, hdr, ctxVars, logged, rows, browserVars, turned>>

Carried(r) == UNION sentWith[r].cookies.flash

\* Flash takes the toasts of the last request, and clears the cookie at once.
FlashRead(r) ==
  /\ "flash" \in layers
  /\ Entering(r, "flash")
  /\ toasts' = [toasts EXCEPT ![r] = @ \cup Carried(r)]
  /\ IF Carried(r) # {} THEN SetCookie(r, "flash", {}) ELSE UNCHANGED hdr
  /\ CallNext(r)
  /\ UNCHANGED <<tx, wire, token, sentWith, logVars, rows, browserVars, turned>>

\* Mutant: an error that becomes a response carries the toasts too.
FlashWriteAlways(r) ==
  /\ "flash" \in layers
  /\ Leaving(r, "flash")
  /\ IF toasts[r] # {} THEN SetCookie(r, "flash", toasts[r]) ELSE UNCHANGED hdr
  /\ Give(r, out[r])
  /\ UNCHANGED <<tx, wire, ctxVars, logVars, rows, browserVars, turned>>

\* A redirect carries the toasts to the next page.
FlashWrite(r) ==
  /\ "flash" \in layers
  /\ Leaving(r, "flash")
  /\ IF out[r].kind # "error" /\ Redirects(out[r].code) /\ toasts[r] # {}
     THEN SetCookie(r, "flash", toasts[r])
     ELSE UNCHANGED hdr
  /\ Give(r, out[r])
  /\ UNCHANGED <<tx, wire, ctxVars, logVars, rows, browserVars, turned>>

\* CSRF keeps the token of the cookie or makes one, named r.  An unsafe request
\* must carry the token of a cookie that it already had.
CheckToken(r) ==
  /\ "csrf" \in layers
  /\ Entering(r, "csrf")
  /\ LET valid == sentWith[r].cookies.csrf # {}
     IN  /\ token' = [token EXCEPT ![r] = IF valid THEN sentWith[r].cookies.csrf ELSE {r}]
         /\ IF valid THEN UNCHANGED hdr ELSE SetCookie(r, "csrf", r)
         /\ IF r \in Unsafe /\ ~(valid /\ sentWith[r].field = sentWith[r].cookies.csrf)
            THEN Give(r, [kind |-> "response", code |-> 419])
            ELSE CallNext(r)
  /\ UNCHANGED <<tx, wire, toasts, sentWith, logVars, rows, browserVars, turned>>

\* The transaction opens, or it does not and the request fails.
Begin(r) ==
  /\ "transaction" \in layers
  /\ Entering(r, "transaction")
  /\ \/ tx' = [tx EXCEPT ![r] = "open"] /\ CallNext(r)
     \/ Give(r, [kind |-> "error", code |-> 500]) /\ UNCHANGED tx
  /\ UNCHANGED <<wire, hdr, ctxVars, logVars, rows, browserVars, turned>>

Commits(o) == o.kind # "error" /\ Success(o.code)

\* Mutant: the fault of the commit is dropped.
CommitUnchecked(r) ==
  /\ Leaving(r, "transaction")
  /\ tx[r] = "open"
  /\ Commits(out[r])
  /\ \/ tx' = [tx EXCEPT ![r] = "committed"] /\ rows' = rows \cup {r}
     \/ tx' = [tx EXCEPT ![r] = "rolledBack"] /\ UNCHANGED rows
  /\ Give(r, out[r])
  /\ UNCHANGED <<wire, hdr, ctxVars, logVars, browserVars, turned>>

\* A 2xx or a 3xx commits.  A commit that fails is an error of its own.
Commit(r) ==
  /\ Leaving(r, "transaction")
  /\ tx[r] = "open"
  /\ Commits(out[r])
  /\ \/ /\ tx' = [tx EXCEPT ![r] = "committed"]
        /\ rows' = rows \cup {r}
        /\ Give(r, out[r])
     \/ /\ tx' = [tx EXCEPT ![r] = "rolledBack"]
        /\ Give(r, [kind |-> "error", code |-> 500])
        /\ UNCHANGED rows
  /\ UNCHANGED <<wire, hdr, ctxVars, logVars, browserVars, turned>>

\* Every other result, and a panic, rolls back.
Rollback(r) ==
  /\ at[r] = "transaction"
  /\ tx[r] = "open"
  /\ \/ dir[r] = "out" /\ ~Commits(out[r]) /\ Give(r, out[r])
     \/ dir[r] = "panic" /\ Unwind(r)
  /\ tx' = [tx EXCEPT ![r] = "rolledBack"]
  /\ UNCHANGED <<wire, hdr, ctxVars, logVars, rows, browserVars, turned>>

\* An adapted middleware sends its status, the first of which is on the wire.
Sends(r, code) ==
  wire' = [wire EXCEPT ![r] =
    IF @.by = "nobody" THEN [by |-> "middleware", code |-> code] ELSE [@ EXCEPT !.by = "both"]]

MaySend(r) == UNCHANGED wire \/ (r \in Meddled /\ \E code \in Strays : Sends(r, code))

\* External: the middleware behind Adapt writes the whole answer itself, or it
\* calls next or panics, and may have written before.  One that writes no
\* status answers 200.
Adapted(r) ==
  /\ dir[r] = "in"
  /\ at[r] \in {"session", "auth"} \cap layers
  /\ \/ MaySend(r) /\ (CallNext(r) \/ Unwind(r))
     \/ \E code \in SelfAnswers : Sends(r, code) /\ Give(r, [kind |-> "written", code |-> code])
  /\ UNCHANGED <<tx, hdr, ctxVars, logVars, rows, browserVars, turned>>

\* External: what an adapted middleware does after next.  It may write, and
\* panic.  Adapt returns what next gave, whatever the middleware wrote: after a
\* panic that the middleware recovered, the nil response.
AdaptedReturns(r) ==
  /\ at[r] \in {"session", "auth"} \cap layers
  /\ MaySend(r)
  /\ \/ dir[r] = "out" /\ Give(r, out[r])
     \/ dir[r] = "out" /\ r \in Meddled /\ Unwind(r)
     \/ dir[r] = "panic" /\ Unwind(r)
     \/ dir[r] = "panic" /\ r \in Meddled /\ Give(r, [kind |-> "response", code |-> 204])
  /\ turned' = IF at[r] = "session" /\ dir'[r] # dir[r] THEN turned \cup {r} ELSE turned
  /\ UNCHANGED <<tx, hdr, ctxVars, logVars, rows, browserVars>>

\* External: the handler stages its rows, may add a toast, and returns a
\* response, a problem or a panic.
Handler(r) ==
  /\ Entering(r, "handler")
  /\ \E t \in {{}, {r}} : toasts' = [toasts EXCEPT ![r] = @ \cup t]
  /\ \/ \E code \in {200, 302, 404} : Give(r, [kind |-> "response", code |-> code])
     \/ Give(r, [kind |-> "error", code |-> 404])
     \/ Unwind(r)
  /\ UNCHANGED <<tx, wire, hdr, token, sentWith, logVars, rows, browserVars, turned>>

\* serve of the router: an error becomes the problem that it carries, and the
\* response is written.  A response of Adapt writes nothing more.  What comes
\* after an adapted middleware has written is appended.  Nothing recovers the
\* write: it may break off after the status, or panic before anything is sent.
Write(r) ==
  /\ dir[r] = "out"
  /\ at[r] = "router"
  /\ \/ /\ \E d \in {"sent", "cut"} : dir' = [dir EXCEPT ![r] = d]
        /\ wire' = [wire EXCEPT ![r] =
             CASE @.by = "nobody" -> [by |-> "router", code |-> out[r].code]
               [] @.by # "nobody" /\ out[r].kind = "written" -> @
               [] OTHER -> [@ EXCEPT !.by = "both"]]
     \/ dir' = [dir EXCEPT ![r] = "broken"] /\ UNCHANGED wire
  /\ UNCHANGED <<at, out, tx, hdr, ctxVars, logVars, rows, browserVars, turned>>

\* External: net/http recovers a panic that leaves the router, and closes the
\* connection.
Abort(r) ==
  /\ Panicking(r, "router")
  /\ dir' = [dir EXCEPT ![r] = "aborted"]
  /\ UNCHANGED <<at, out, tx, wire, hdr, ctxVars, logVars, rows, browserVars, turned>>

\* External: the browser takes the cookies of the header.  A whole page shows
\* its toasts and carries its token, also below what a middleware has written.
Receive(r) ==
  /\ dir[r] \in {"sent", "cut"}
  /\ dir' = [dir EXCEPT ![r] = "received"]
  /\ jar' = [flash |-> IF hdr[r].flash = {} THEN jar.flash ELSE hdr[r].flash \ {{}},
             csrf |-> IF hdr[r].csrf = {} THEN jar.csrf ELSE hdr[r].csrf]
  /\ LET page == dir[r] = "sent" /\ out[r] = [kind |-> "response", code |-> 200] /\ wire[r].code = 200
     IN  /\ pages' = IF page THEN pages \cup token[r] ELSE pages
         /\ shown' = IF page THEN shown \cup (toasts[r] \X {r}) ELSE shown
  /\ UNCHANGED <<at, out, tx, wire, hdr, ctxVars, logVars, rows, turned>>

Step(r) ==
  /\ UNCHANGED layers
  /\ \/ Pass(r) \/ Recover(r) \/ AccessLog(r) \/ Trace(r)
     \/ FlashRead(r) \/ FlashWrite(r) \/ CheckToken(r)
     \/ Begin(r) \/ Commit(r) \/ Rollback(r)
     \/ Adapted(r) \/ AdaptedReturns(r) \/ Handler(r) \/ Write(r) \/ Abort(r)

Browse(r) == (Send(r) \/ Receive(r)) /\ UNCHANGED layers

Next ==
  \/ \E r \in Requests : Browse(r) \/ Step(r)
  \/ (\A r \in Requests : dir[r] \in {"received", "broken", "aborted"}) /\ UNCHANGED vars

Spec == Init /\ [][Next]_vars

\* The goroutine of a request runs, and no handler hangs.
FairSpec == Spec /\ \A r \in Requests : WF_vars(Step(r))

-----------------------------------------------------------------------------
(* Safety. *)

\* The status that the client reads tells whether its rows are in the
\* database, for every answer that the router alone writes: after an error, a
\* panic, a rejected form, a commit that failed, and after an adapted middleware
\* that panics inside of the transaction.  A session middleware sits outside of
\* it.  One that panics after a commit is answered 500 over rows that are kept,
\* and one that recovers the panic behind a rollback is answered 204.
StatusTellsCommit ==
  "transaction" \in layers =>
    \A r \in Requests \ turned : wire[r].by = "router" => (Success(wire[r].code) <=> r \in rows)

\* A toast never tells of work that was rolled back, on this page or on the
\* page after a redirect: Flash sits outside the transaction.
ToastsAreTrue ==
  "transaction" \in layers =>
    \A t \in Requests : t \in UNION jar.flash \/ (\E r \in Requests : <<t, r>> \in shown) => t \in rows

\* Once the toasts are read, the browser never carries them again after the
\* answer of that request alone, even when its handler panicked: the answer
\* clears the cookie, or replaces it on a redirect.
ReadToastsAreCleared ==
  "flash" \in layers =>
    \A r \in Requests : dir[r] \in {"sent", "cut"} /\ Carried(r) # {} => hdr[r].flash # {}

\* A form whose token is not the token of the cookie opens no transaction.
ForgedFormOpensNothing ==
  "csrf" \in layers =>
    \A r \in Unsafe :
      tx[r] # "none" \/ r \in rows =>
        sentWith[r].field # {} /\ sentWith[r].field = sentWith[r].cookies.csrf

\* No transaction outlives its request, whatever the handler, the middleware
\* or the commit did.
NoOpenTransaction ==
  \A r \in Requests : tx[r] = "open" =>
    (dir[r] = "in" /\ at[r] \in {"auth", "handler"}) \/ (dir[r] \in {"out", "panic"} /\ at[r] \in {"auth", "transaction"})

\* The line of the access log and the span have the status that the client
\* reads: the handler's, the rejection of the token, or the one that an adapted
\* middleware answered.  A handler error is left out, of which the log says 204
\* and the span 500 whatever problem is sent, and so is an answer that a
\* middleware and another layer both wrote.  A panic reaches neither.
ObserversAgree ==
  \A r \in Requests :
    dir[r] = "sent" /\ out[r].kind # "error" /\ wire[r].by # "both" =>
      {logged[r], span[r]} \subseteq {0, wire[r].code}

\* Liveness under FairSpec: a request whose handler returns or panics is
\* answered, or its answer breaks off while it is written.  Only without a
\* logger can a panic close its connection.
EveryRequestEnds ==
  \A r \in Requests :
    dir[r] = "in" ~> \/ dir[r] \in {"sent", "cut", "received", "broken"}
                     \/ dir[r] = "aborted" /\ "accessLog" \notin layers

\* The status that a client reads of an answer tells whether the work was kept,
\* and the log and the span have the same one.  Each part names what it leaves
\* out.
StatusIsTrue == StatusTellsCommit /\ ObserversAgree

\* What the browser holds of its own, a toast or a token, speaks of this
\* browser's work and opens nothing that it did not ask for.
BrowserIsTrue == ToastsAreTrue /\ ReadToastsAreCleared /\ ForgedFormOpensNothing

\* Under FairSpec: every request ends, and its transaction ends before it.
RequestsEnd == []NoOpenTransaction /\ EveryRequestEnds
=============================================================================
