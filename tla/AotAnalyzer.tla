------------------------------ MODULE AotAnalyzer -----------------------------
(***************************************************************************)
(* @fearless/aot-analyzer: which handlers may be compiled to Rust.  Every  *)
(* rule reads the whole tree on its own; Reasons is the set of the rules a *)
(* handler breaks, and a handler that breaks none is compilable.           *)
(*                                                                         *)
(* handles maps the variable of each handle the file declares to           *)
(* [kind, name]: const db = fearless.sql("primary").                       *)
(***************************************************************************)
EXTENDS AotHandler

Builders == {"json", "text", "html", "raw", "redirect", "notFound", "noContent"}
Chains == {"status", "header", "setHeaders"}
Inputs == {"method", "path", "url", "params", "query", "headers", "ip", "state"}
Globals == {"ctx", "undefined", "Infinity", "NaN", "Math"}

\* The declarations of a file, [var, of, kind, name]; name is "" when the first
\* argument is not a literal.  A variable declared twice is its last declaration.
IsHandle(d) == d.of = "fearless" /\ d.kind \in {"sql", "kv", "http"} /\ d.name # ""
DiscoverHandles(decls) ==
  LET found == SelectSeq(decls, IsHandle)
      last(x) == Last(SelectSeq(found, LAMBDA d : d.var = x))
  IN [x \in {d.var : d \in Range(found)} |-> [kind |-> last(x).kind, name |-> last(x).name]]

\* db.m(..) on a handle, and the awaits no other await is around.
OnHandle(call, handles) ==
  call.k = "call" /\ Callee(call).k = "id" /\ Callee(call).v \in DOMAIN handles
OuterAwaits(h) == {x \in Range(Nodes(h.body, {"await"})) : x.k = "await"}
AwaitsHandles(h, handles) == \A x \in OuterAwaits(h) : OnHandle(x.kids[1], handles)

Locals(h) == {x.v : x \in OfKind(h, {"let"})}
Allowed(h, handles) ==
  Globals \cup Locals(h) \cup DOMAIN handles \cup (IF DOMAIN handles = {} THEN {} ELSE {"sql"})
UsedNames(h) ==
  {x.v : x \in OfKind(h, {"id"})} \cup {"sql" : x \in OfKind(h, {"sql"})}

FromCtx(call, methods) ==
  Root(call) = Id("ctx") /\ \A s \in Range(Shapers(call)) : s.v \in methods
AllowedCall(call, handles) ==
  (FromCtx(call, Builders \cup Chains) /\ call.v \in Builders \cup Chains) \/ OnHandle(call, handles)

ValidReturn(e, handles) ==
  \/ e.k = "call" /\ FromCtx(e, Chains) /\ e.v \in Builders
  \/ e.k = "await" /\ OnHandle(e.kids[1], handles)

Substitutable(e) ==
  e.k \in Collections \cup {"random", "str"} \/ (e.k = "input" /\ e.v \in Inputs)

HandlerShape(h, handles) == (h.async => AwaitsHandles(h, handles)) /\ h.param = "ctx"
NoAwait(h, handles) == AwaitsHandles(h, handles)
NoPromise(h) ==
  \A x \in OfKind(h, {"id", "call"}) :
    x # Id("Promise") /\ ~(x.k = "call" /\ x.v \in {"then", "catch", "finally"})
NoExternalIdentifiers(h, handles) == UsedNames(h) \subseteq Allowed(h, handles)
NoDynamicProperty(h) == OfKind(h, {"index"}) = {}
NoThrow(h) == OfKind(h, {"throw"}) = {}
NoLoops(h) == OfKind(h, {"loop"}) = {}
NoDisallowedCalls(h, handles) == \A x \in OfKind(h, {"call"}) : AllowedCall(x, handles)
ReturnShape(h, handles) ==
  /\ OfKind(h, {"return"}) # {}
  /\ \A x \in OfKind(h, {"return"}) : ValidReturn(x.kids[1], handles)
TemplateSubstitutions(h) ==
  \A x \in OfKind(h, {"template", "sql"}) : \A e \in Range(x.kids) : Substitutable(e)

\* PHASE_0_RULES
Reasons(h, handles) ==
  {r \in {"handler-shape", "no-await", "no-promise", "no-external-identifiers",
          "no-dynamic-property", "no-throw", "no-loops", "no-disallowed-calls",
          "return-shape", "template-substitutions"} :
     CASE r = "handler-shape" -> ~HandlerShape(h, handles)
       [] r = "no-await" -> ~NoAwait(h, handles)
       [] r = "no-promise" -> ~NoPromise(h)
       [] r = "no-external-identifiers" -> ~NoExternalIdentifiers(h, handles)
       [] r = "no-dynamic-property" -> ~NoDynamicProperty(h)
       [] r = "no-throw" -> ~NoThrow(h)
       [] r = "no-loops" -> ~NoLoops(h)
       [] r = "no-disallowed-calls" -> ~NoDisallowedCalls(h, handles)
       [] r = "return-shape" -> ~ReturnShape(h, handles)
       [] r = "template-substitutions" -> ~TemplateSubstitutions(h)}
Compilable(h, handles) == Reasons(h, handles) = {}
===============================================================================
