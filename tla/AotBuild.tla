------------------------------- MODULE AotBuild -------------------------------
(***************************************************************************)
(* The build of an app: what the analyzer and the transpiler make of its   *)
(* route calls in the sessions of BuildSession, and how what they emit     *)
(* compares with the source.                                               *)
(***************************************************************************)
EXTENDS BuildSession, AotTranspiler, TemplateResponse, TLC

CONSTANTS
  Requests,   \* what clients send to a handler, see AotHandler
  Rows,       \* what a handle answers: a row, null or an error
  TemplateRequests  \* what clients send to a template, see TemplateResponse

\* A call that registers a route: a handler written in place, a reference to one
\* (any x.get("text", y) looks like it), or a template.  The build sees the kind and
\* the body of app.json(path, body, options), and never the options.
Route(sort, method, path, handler, template) ==
  [sort |-> sort, method |-> method, path |-> path, handler |-> handler, template |-> template]
NoTemplate == Template("", Lit("null"), "", FALSE, FALSE)
Synthesized(t) == Arrow(Ctx(t.kind, <<t.body>>))

\* discoverHandlerRoute and synthesizeTemplateAsAot
Discover(call, decls) ==
  LET handles == IF call.sort = "template" THEN <<>> ELSE DiscoverHandles(decls)
      reasons == IF call.sort = "reference" THEN {"handler-shape"} ELSE Reasons(call.handler, handles)
      program == IF reasons = {} THEN Transpile(call.handler, handles) ELSE NoProgram
      kind == IF ~Fails(program) THEN "aot" ELSE IF call.sort = "template" THEN "template" ELSE "bun"
  IN [call |-> call, kind |-> kind, program |-> program]

-----------------------------------------------------------------------------
\* Where a compiled handler is known to differ from its source.

Calls(h, m) == {x \in OfKind(h, {"call"}) : x.v = m /\ Root(x) = Id("ctx")}
BuilderCalls(h) == UNION {Calls(h, m) : m \in Builders}
\* A branch the transpiler leaves out: an if it cannot render, or a return inside
\* a statement it does not read.
LosesBranch(h) ==
  \/ \E x \in OfKind(h, {"if"}) : ~RendersCondition(x.kids[1])
  \/ \E x \in OfKind(h, {"try", "switch"}) : \E y \in Range(Nodes(x, {})) : y.k = "return"
\* The second argument of json and html, every header, every status but the first,
\* and a status before a redirect are read differently or not at all.
LosesShape(h) ==
  \E x \in BuilderCalls(h) :
    \/ x.v \in {"json", "html"} /\ Len(Args(x)) > 1
    \/ x.v = "json" /\ Args(x) = <<>>
    \/ \E s \in Range(Shapers(x)) : s.v \in {"header", "setHeaders"}
    \/ Cardinality({i \in DOMAIN Shapers(x) : Shapers(x)[i].v = "status"}) > 1
    \/ x.v = "redirect" /\ Len(Args(x)) = 1 /\ Shapers(x) # <<>>
    \/ \E s \in Range(Shapers(x)) : s.v = "status" /\ Args(s)[1].v \in {"204", "304"}
\* ctx.text is a body parser of Ctx, a builder for the analyzer.
UsesText(h) == Calls(h, "text") # {}
\* The text of a template inside JSON is not escaped.
EscapedTemplate(h) ==
  \E x \in OfKind(h, {"template"}) : \E p \in Range(x.kids) : p.k = "str" /\ Esc(p.v) # p.v
UpperHeader(h) == \E x \in OfKind(h, {"headers"}) : Lower(x.v) # x.v
\* Some path returns nothing: the compiled handler answers 500.
RECURSIVE Exhausts(_)
Exhausts(ss) ==
  /\ ss # <<>>
  /\ \/ Head(ss).k = "return"
     \/ Head(ss).k = "if" /\ Exhausts(Head(ss).kids[2].kids) /\ Exhausts(Head(ss).kids[3].kids)
     \/ Exhausts(Tail(ss))
FallsThrough(h) == ~Exhausts(h.body.kids)
\* A template's tokens go out as they stand, and with status 200.
LosesTemplate(t) == ContainsToken(t.body) \/ StatusOf(t) # "200"
Diverges(h) ==
  \/ LosesBranch(h) \/ LosesShape(h) \/ UsesText(h) \/ EscapedTemplate(h)
  \/ UpperHeader(h) \/ FallsThrough(h)

PlainGet == Request("GET", FALSE, <<>>, <<>>, <<>>)
Same(a, b) ==
  /\ a.status = b.status /\ a.headers = b.headers /\ a.body = b.body
  /\ a.body # <<>> => a.type = b.type

\* The route the build has just discovered.
New(kind) ==
  IF phase = "visit" /\ routes # <<>> /\ Last(routes).program.kind = kind THEN {Last(routes)} ELSE {}

\* A sync handler compiled to Rust gives every request the answer its source
\* gives, where none of the named differences is in it.
CompiledAnswers ==
  \A r \in New("sync") :
    LET h == r.call.handler IN
    IF r.call.sort = "template"
    THEN LosesTemplate(r.call.template) \/ \A req \in Requests :
           Same(RunSync(r.program, req), NodeAnswer(r.call.template, PlainGet))
    ELSE CompilesInRust(r.program) => Diverges(h) \/ \A req \in Requests :
           Same(RunSync(r.program, req), Source(h, req, Null))

\* The shape the documentation gives for async handlers: await, null check, json.
DocumentedShape(h) ==
  LET ss == h.body.kids IN
  /\ Len(ss) = 3
  /\ ss[1].k = "let" /\ ss[1].kids[1].k = "await"
  /\ ss[2] = If(Bin("==", Id(ss[1].v), Lit("null")), <<Ret(Ctx("notFound", <<>>))>>, <<>>)
  /\ ss[3].k = "return" /\ ss[3].kids[1].k = "call" /\ Callee(ss[3].kids[1]) = Id("ctx")
\* A compiled async handler of the documented shape answers a row and the lack of
\* one with the status of its source, a row with its body as well.
AsyncAnswers ==
  \A r \in New("async") :
    DocumentedShape(r.call.handler) /\ CompilesInRust(r.program) =>
      \A req \in Requests, db \in Rows :
        LET rust == RunAsync(r.program, req, db)
            source == Source(r.call.handler, req, db)
        IN (rust.status # "400" /\ db.t # "error") =>
             /\ rust.status = source.status
             /\ db.t = "row" => Same(rust, source)

\* A template route the app registers is answered alike on the three runtimes;
\* its body is a value here, not an expression.
TemplatesAgree ==
  phase = "visit" /\ routes # <<>> /\ Last(routes).call.sort = "template" =>
    LET t == Last(routes).call.template IN
    (\A x \in Range(Nodes(t.body, {})) : x.k # "id") =>
      \A req \in TemplateRequests : (req.params # <<>>) = t.hasParams => SameOnAllRuntimes(t, req)

\* index.ts of the transpiler: when a condition is too complex the transpile fails
\* for the handler, which falls back to Bun.  It does not: the branch is left out.
ComplexConditionFails ==
  \A r \in New("sync") :
    \A x \in OfKind(r.call.handler, {"if"}) : RendersCondition(x.kids[1])
===============================================================================
