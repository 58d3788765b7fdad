------------------------------ MODULE HookChain ------------------------------
(***************************************************************************)
(* One request through HookChain.execute (middleware.ts) with its          *)
(* RequestContext (ctx.ts), and the way its Response takes to the client   *)
(* (app.ts).                                                               *)
(*                                                                         *)
(* A stage is a call of a hook or of the handler: code of the application, *)
(* which may call anything of ctx, await its parsers, and return or throw. *)
(* While a stage runs the client sends its body or goes away, and the      *)
(* application may register further hooks: the lists are iterated live.    *)
(* Between two stages the event loop runs no I/O, so that all of this      *)
(* happens while a stage runs.                                             *)
(***************************************************************************)
EXTENDS Naturals, Sequences

CONSTANTS
  MaxHooks,      \* bound: hooks registered, of all kinds together
  MaxCalls,      \* bound: calls on ctx that are not the return of a stage
  ErrorStatuses, \* the statuses HttpErrors are thrown with
  ShapeStatuses, \* the statuses ctx.status() is called with
  Null

\* Responses and errors carry the stage they come from, a number in log.
Responses == [by : Nat, body : BOOLEAN, marks : SUBSET Nat]
Errors == [by : Nat, http : BOOLEAN, status : Nat]

ASSUME HooksAssumption ==
  /\ MaxHooks \in Nat /\ MaxCalls \in Nat
  /\ ErrorStatuses \subseteq Nat /\ ShapeStatuses \subseteq Nat
  /\ Null \notin Nat /\ Null \notin Responses /\ Null \notin Errors

VARIABLES
  platform,  \* "node" or "bun"
  content,   \* the client's body: "json" (or empty: null for body()) or "form"
  stream,    \* how much of it has come: "open", "ended", "aborted"
  hooks,     \* HookChain: how many hooks of each kind are registered
  phase,     \* the stages execute is at, then the fate of the request
  at,        \* the stages of this phase that have been called
  running,   \* a stage has been called and has not ended
  waiting,   \* the parsers it awaits, each with the promise it waits for
  response,  \* execute's response, Null before there is one
  spent,     \* a hook has read the body of that response
  error,     \* runErrorHooks' currentError, Null before there is one
  pending,   \* RequestContext.pending
  text,      \* RequestContext._bodyTextPromise
  webUsed,   \* Bun: the body of the web request has been taken
  direct,    \* Node: a stage has answered through ctx.nodeRes itself
  calls,     \* calls of this request so far
  log,       \* history: what each stage ended with
  asked,     \* history: the parsers called, in order
  told       \* history: what each parser awaited said

bodyVars == <<stream, text, webUsed, asked, told>>
chainVars == <<phase, at, running, response, spent, error, log>>
given == <<platform, content>>
vars == <<given, bodyVars, chainVars, hooks, waiting, pending, direct, calls>>

Kinds == {"request", "response", "error"}
Lists ==
  {h \in [Kinds -> 0 .. MaxHooks] : h["request"] + h["response"] + h["error"] <= MaxHooks}
Fates == {"done", "rejected", "sent", "crashed", "failed"}
Parsers == {"text", "json", "form"}

\* What a stage throws: an HttpError, or anything else.
This == Len(log) + 1
HttpErrorOf(status) == [by |-> This, http |-> TRUE, status |-> status]
PlainError == [by |-> This, http |-> FALSE, status |-> 500]

\* The Response constructor: it throws for statuses out of range, and for a body
\* where the status allows none.
Constructible(status, body) ==
  /\ status \in 200 .. 599
  /\ body => status \notin {204, 205, 304}

\* The builders of ctx: json (html, raw), json with a status, notFound,
\* noContent, redirect.  "fixed" ones ignore the pending status.
Builders ==
  { [default |-> 200, fixed |-> FALSE, body |-> TRUE],
    [default |-> 400, fixed |-> TRUE,  body |-> TRUE],
    [default |-> 404, fixed |-> FALSE, body |-> TRUE],
    [default |-> 204, fixed |-> FALSE, body |-> FALSE],
    [default |-> 302, fixed |-> TRUE,  body |-> FALSE] }

EmptyShape == [status |-> Null, marks |-> {}]

Init ==
  /\ platform \in {"node", "bun"} /\ content \in {"json", "form"}
  /\ stream = "open" /\ text = "none" /\ webUsed = FALSE
  /\ hooks \in Lists
  /\ phase = "request" /\ at = 0 /\ running = FALSE /\ waiting = {}
  /\ response = Null /\ spent = FALSE /\ error = Null
  /\ pending = EmptyShape /\ direct = FALSE /\ calls = 0
  /\ log = <<>> /\ asked = <<>> /\ told = {}

-----------------------------------------------------------------------------
\* How a stage ends

Ends(how, marks) ==
  /\ running' = FALSE /\ waiting' = {}
  /\ log' = Append(log, [phase |-> phase, at |-> at, of |-> hooks, end |-> how, marks |-> marks])

GoTo(next) == phase' = next /\ at' = 0

\* A request hook that returns a Response skips the rest and the handler.
AfterRequestHook_Ends(r) == GoTo("done") /\ response' = r
AfterRequestHook(r) == GoTo("response") /\ response' = r

Returns(r) ==
  /\ Ends("response", r.marks)
  /\ CASE phase = "request" -> AfterRequestHook(r)
       [] phase = "handler" -> GoTo("response") /\ response' = r
       [] phase = "response" -> UNCHANGED <<phase, at>> /\ response' = r
       [] phase = "error" -> GoTo("done") /\ response' = r
  /\ spent' = FALSE
  /\ UNCHANGED error

\* An error hook's own exception replaces the error in flight.
InErrorHook_Keeps(e) == UNCHANGED <<phase, at, error>>
InErrorHook(e) == UNCHANGED <<phase, at>> /\ error' = e

Throws(e) ==
  /\ Ends("error", {})
  /\ IF phase = "error" THEN InErrorHook(e) ELSE GoTo("error") /\ error' = e
  /\ UNCHANGED <<response, spent>>

\* A stage may catch what a call on ctx throws.
Catches == waiting' = {} /\ UNCHANGED chainVars

Calls ==
  /\ running /\ calls < MaxCalls
  /\ calls' = calls + 1

-----------------------------------------------------------------------------
\* Shapers and builders

SetStatus ==
  /\ Calls /\ waiting = {}
  /\ \E s \in ShapeStatuses : pending' = [status |-> s, marks |-> pending.marks \union {calls'}]
  /\ UNCHANGED <<given, bodyVars, chainVars, hooks, waiting, direct>>

SetHeader ==
  /\ Calls /\ waiting = {}
  /\ pending' = [pending EXCEPT !.marks = @ \union {calls'}]
  /\ UNCHANGED <<given, bodyVars, chainVars, hooks, waiting, direct>>

StatusOf(b) == IF b.fixed \/ pending.status = Null THEN b.default ELSE pending.status
BodyOf(b) == b.body /\ StatusOf(b) \notin {204, 304}

Response(body, marks) == [by |-> This, body |-> body, marks |-> marks]
Built(b) == Response(BodyOf(b), pending.marks)

\* finalize empties the shape before it calls the constructor, which may throw.
Finalized_Keeps == pending' = pending
Finalized == pending' = EmptyShape

\* The return of a stage: return ctx.json(...).
ReturnBuilt ==
  /\ running /\ waiting = {}
  /\ \E b \in Builders :
       IF Constructible(StatusOf(b), BodyOf(b)) THEN Returns(Built(b)) ELSE Throws(PlainError)
  /\ Finalized
  /\ UNCHANGED <<given, bodyVars, hooks, direct, calls>>

\* return new Response(...), without the shapers.
ReturnOwn ==
  /\ running /\ waiting = {}
  /\ Returns(Response(TRUE, {}))
  /\ UNCHANGED <<given, bodyVars, hooks, pending, direct, calls>>

\* An error hook: return error.toResponse().
ReturnErrorResponse ==
  /\ running /\ waiting = {} /\ phase = "error" /\ error.http
  /\ IF Constructible(error.status, TRUE)
     THEN Returns(Response(TRUE, {}))
     ELSE Throws(PlainError)
  /\ UNCHANGED <<given, bodyVars, hooks, pending, direct, calls>>

\* A response that is built and not returned takes the shape with it.
Discard ==
  /\ Calls /\ waiting = {}
  /\ Finalized
  /\ UNCHANGED <<given, bodyVars, chainVars, hooks, waiting, direct>>

ReturnVoid ==
  /\ running /\ waiting = {} /\ phase # "handler"
  /\ Ends("void", {})
  /\ UNCHANGED <<given, bodyVars, hooks, phase, at, response, spent, error, pending, direct, calls>>

\* Also JSON.stringify inside ctx.json, which leaves the shape as it is.
Throw ==
  /\ running /\ waiting = {}
  /\ \E e \in {PlainError} \union {HttpErrorOf(s) : s \in ErrorStatuses} : Throws(e)
  /\ UNCHANGED <<given, bodyVars, hooks, pending, direct, calls>>

\* A response hook: await response.text().
Inspect ==
  /\ Calls /\ waiting = {} /\ phase = "response" /\ response.body /\ ~spent
  /\ spent' = TRUE
  /\ UNCHANGED <<given, bodyVars, phase, at, running, response, error, log, hooks, waiting, pending, direct>>

AnswerDirectly ==
  /\ Calls /\ waiting = {} /\ platform = "node"
  /\ direct' = TRUE
  /\ UNCHANGED <<given, bodyVars, chainVars, hooks, waiting, pending>>

-----------------------------------------------------------------------------
\* The request body

\* text(): one promise, shared by all calls.  On Node a body that was aborted
\* before has no events left to settle it.
ReadsText_Again == text # "reading"
ReadsText == text = "none"
TextStarts ==
  IF ReadsText
  THEN /\ text' = CASE platform = "node" /\ stream = "aborted" -> "silent"
                    [] platform = "bun" /\ webUsed -> "failed"
                    [] OTHER -> "reading"
       /\ webUsed' = (platform = "bun")
  ELSE UNCHANGED <<text, webUsed>>

\* Parsers called while others are awaited: Promise.all.
Parse ==
  /\ Calls
  /\ \E p \in Parsers :
       /\ asked' = Append(asked, p)
       /\ IF p = "form" /\ platform = "bun"
          THEN /\ waiting' = waiting \union {[parser |-> p, on |-> IF webUsed THEN "used" ELSE "web"]}
               /\ webUsed' = TRUE /\ text' = text
          ELSE TextStarts /\ waiting' = waiting \union {[parser |-> p, on |-> "text"]}
  /\ UNCHANGED <<given, stream, told, chainVars, hooks, pending, direct>>

\* The events that settle it: "end", and "aborted" or "error".
Heard_NoAbort == stream = "ended"
Heard == stream # "open"

TextSettles ==
  /\ running /\ text = "reading" /\ Heard
  /\ text' = IF stream = "ended" THEN "read" ELSE "failed"
  /\ UNCHANGED <<given, stream, webUsed, asked, told, chainVars, hooks, waiting, pending, direct, calls>>

Settled(w) ==
  CASE w.on = "text" -> text \in {"read", "failed"}
    [] w.on = "web" -> stream # "open"
    [] w.on = "used" -> TRUE

\* What the parser makes of the body.
Parses(p) ==
  CASE p = "text" -> TRUE
    [] p = "json" -> content = "json"
    [] p = "form" -> content = "form"

Fulfilled(w) ==
  /\ Parses(w.parser)
  /\ CASE w.on = "text" -> text = "read"
       [] w.on = "web" -> stream = "ended"
       [] w.on = "used" -> FALSE

\* Every failure of a parser is an HttpError 400; validate()'s own 422 is a Throw.
Await ==
  /\ \E w \in waiting :
       /\ Settled(w)
       /\ told' = told \union {[parser |-> w.parser, ok |-> Fulfilled(w)]}
       /\ IF Fulfilled(w)
          THEN waiting' = waiting \ {w} /\ UNCHANGED chainVars
          ELSE Throws(HttpErrorOf(400)) \/ Catches
  /\ UNCHANGED <<given, stream, text, webUsed, asked, hooks, pending, direct, calls>>

-----------------------------------------------------------------------------
\* HookChain

Called == running' = TRUE /\ at' = at + 1

NextHook ==
  /\ ~running /\ phase \in Kinds /\ at < hooks[phase]
  /\ Called
  /\ UNCHANGED <<given, bodyVars, hooks, phase, response, spent, error, log, waiting, pending, direct, calls>>

CallHandler ==
  /\ ~running /\ phase = "request" /\ at = hooks["request"]
  /\ phase' = "handler" /\ running' = TRUE /\ at' = 1
  /\ UNCHANGED <<given, bodyVars, hooks, response, spent, error, log, waiting, pending, direct, calls>>

ResponseHooksEnd ==
  /\ ~running /\ phase = "response" /\ at = hooks["response"]
  /\ GoTo("done")
  /\ UNCHANGED <<given, bodyVars, hooks, running, response, spent, error, log, waiting, pending, direct, calls>>

\* defaultErrorResponse, outside every try: what its constructor throws rejects
\* the promise of execute.
DefaultErrorResponse ==
  /\ ~running /\ phase = "error" /\ at = hooks["error"]
  /\ IF Constructible(error.status, TRUE)
     THEN /\ GoTo("done") /\ spent' = FALSE
          /\ response' = [by |-> error.by, body |-> TRUE, marks |-> {}]
     ELSE GoTo("rejected") /\ UNCHANGED <<response, spent>>
  /\ UNCHANGED <<given, bodyVars, hooks, running, error, log, waiting, pending, direct, calls>>

\* onRequest, onResponse, onError, at any time.
Register ==
  /\ running
  /\ \E k \in Kinds : hooks' = [hooks EXCEPT ![k] = @ + 1]
  /\ hooks' \in Lists
  /\ UNCHANGED <<given, bodyVars, chainVars, waiting, pending, direct, calls>>

\* writeWebResponseToNode: arrayBuffer() of a body that was read rejects.
WriteToNode ==
  /\ phase = "done" /\ platform = "node"
  /\ GoTo(IF ~direct /\ response.body /\ spent THEN "crashed" ELSE "sent")
  /\ UNCHANGED <<given, bodyVars, hooks, running, response, spent, error, log, waiting, pending, direct, calls>>

\* On Bun such a body can neither be sent nor wrapped: the fetch handler fails.
ReturnToBun ==
  /\ phase = "done" /\ platform = "bun"
  /\ GoTo(IF response.body /\ spent THEN "failed" ELSE "sent")
  /\ UNCHANGED <<given, bodyVars, hooks, running, response, spent, error, log, waiting, pending, direct, calls>>

\* handleNodeRequest is not awaited: Node ends the process.  Bun answers for
\* the fetch handler.
Rejected ==
  /\ phase = "rejected"
  /\ GoTo(IF platform = "node" THEN "crashed" ELSE "failed")
  /\ UNCHANGED <<given, bodyVars, hooks, running, response, spent, error, log, waiting, pending, direct, calls>>

-----------------------------------------------------------------------------
\* The client.  Node destroys a request whose client leaves, also one whose body
\* has come and was not read; Bun has that body in memory.
ClientEnds ==
  /\ running /\ stream = "open"
  /\ stream' = "ended"
  /\ UNCHANGED <<given, text, webUsed, asked, told, chainVars, hooks, waiting, pending, direct, calls>>

ClientAborts ==
  /\ running
  /\ \/ stream = "open"
     \/ stream = "ended" /\ platform = "node" /\ text \in {"none", "reading"}
  /\ stream' = "aborted"
  /\ UNCHANGED <<given, text, webUsed, asked, told, chainVars, hooks, waiting, pending, direct, calls>>

Stage ==
  \/ ReturnBuilt \/ ReturnOwn \/ ReturnErrorResponse \/ ReturnVoid \/ Throw

Chain ==
  \/ NextHook \/ CallHandler \/ ResponseHooksEnd \/ DefaultErrorResponse
  \/ WriteToNode \/ ReturnToBun \/ Rejected

Next ==
  \/ Stage \/ Chain
  \/ SetStatus \/ SetHeader \/ Discard \/ Inspect \/ AnswerDirectly
  \/ Parse \/ TextSettles \/ Await
  \/ Register \/ ClientEnds \/ ClientAborts

Spec == Init /\ [][Next]_vars

\* Stages return or throw, the event loop turns, the client sends or leaves.
FairSpec ==
  /\ Spec
  /\ WF_vars(Stage) /\ WF_vars(Chain) /\ WF_vars(Await) /\ WF_vars(TextSettles)
  /\ WF_vars(ClientEnds \/ ClientAborts)

-----------------------------------------------------------------------------
Threw(e) == e.end = "error"
Answered(e) == e.end = "response"

\* Who may be called after the stage e, and whether execute may end with it.
Follows(e, f) ==
  /\ Threw(e) => f.phase = "error" /\ f.at = IF e.phase = "error" THEN e.at + 1 ELSE 1
  /\ Answered(e) =>
       e.phase # "error" /\ f.phase = "response" /\ f.at = IF e.phase = "response" THEN e.at + 1 ELSE 1
  /\ ~Threw(e) /\ ~Answered(e) =>
       \/ f.phase = e.phase /\ f.at = e.at + 1
       \/ e.phase = "request" /\ e.at >= e.of["request"] /\ f.phase = "handler"

Completes(e) ==
  /\ e.phase = "error" => Answered(e) \/ e.at >= e.of["error"]
  /\ e.phase # "error" /\ Threw(e) => e.of["error"] = 0
  /\ e.phase = "response" /\ ~Threw(e) => e.at >= e.of["response"]
  /\ e.phase \in {"request", "handler"} /\ ~Threw(e) => Answered(e) /\ e.of["response"] = 0

\* Hooks run in registration order, each once, none of those registered in time
\* is left out, also when hooks are added meanwhile; a short circuit skips the
\* handler and not the response hooks; after an exception only error hooks run,
\* until one recovers (middleware.ts:49-99).
InOrder ==
  /\ log # <<>> => log[1].at = 1 /\ log[1].phase \in {"request", "handler"}
  /\ \A i \in 1 .. Len(log) - 1 : Follows(log[i], log[i + 1])
  /\ phase \in Fates => Completes(log[Len(log)])

\* The stage that decides: the one that recovered, else the latest that threw,
\* else the latest that answered.
Decides(i) ==
  LET errors == {j \in DOMAIN log : Threw(log[j])}
      candidates == IF log[Len(log)].phase = "error" /\ Answered(log[Len(log)]) THEN {Len(log)}
                    ELSE IF errors # {} THEN errors
                    ELSE {j \in DOMAIN log : Answered(log[j])}
  IN i \in candidates /\ \A j \in candidates : j <= i

\* The response of execute is the last one a stage returned or, after an
\* exception, that of the error hook which recovered, or else the default one of
\* the latest exception: nothing built before the exception survives
\* (middleware.ts:52-62, 84-99).  Where there is none, the process goes down for
\* one of two reasons: a default response that cannot be constructed, or a
\* response whose body a hook has read (middleware.ts:8-10, app.ts:986).
Outcome ==
  /\ phase \in {"done", "sent"} => Decides(response.by)
  /\ phase = "crashed" =>
       \/ error # Null /\ ~Constructible(error.status, TRUE)
       \/ response # Null /\ response.body /\ spent

\* A status or header set on ctx goes into one response at most, and is gone
\* from ctx then, whichever stage set it and whichever builds (ctx.ts:208-286).
AppliedOnce ==
  \A i \in DOMAIN log :
      /\ log[i].marks \intersect pending.marks = {}
      /\ \A j \in DOMAIN log : log[i].marks \intersect log[j].marks # {} => i = j

\* On Bun formData() takes the body from text() and from a second formData().
TakenByForm ==
  platform = "bun" /\ Len(asked) > 1 /\ \E i \in DOMAIN asked : asked[i] = "form"

\* A parser fails only for a body it cannot parse, for one that did not arrive,
\* or on Bun for one taken by another parser; and text() never changes what it
\* said (ctx.ts:147-197).
ParsersTruthful ==
  /\ \A t \in told :
       IF t.ok THEN Parses(t.parser)
       ELSE ~Parses(t.parser) \/ stream = "aborted" \/ TakenByForm
  /\ {t.ok : t \in {u \in told : u.parser = "text"}} # BOOLEAN

\* Every request is answered or takes the process down, unless a stage awaits the
\* body of a client that had left before (ctx.ts:55-67, middleware.ts:49).
Settles == <>(phase \in {"sent", "crashed", "failed"} \/ (waiting # {} /\ text = "silent"))
==============================================================================
