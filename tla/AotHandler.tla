------------------------------ MODULE AotHandler ------------------------------
(***************************************************************************)
(* The handlers an app registers, as syntax trees, and what they answer    *)
(* when TypeScript runs them on a Ctx: the reference the compiled handlers *)
(* are compared with.                                                      *)
(*                                                                         *)
(* Every node of a tree is [k, v, kids]: its kind, a text, its children in *)
(* source order.  A text is a token; Quoted is one with characters JSON    *)
(* escapes.  A body is a sequence of tokens.                               *)
(***************************************************************************)
EXTENDS Naturals, Sequences, SequencesExt

Node(k, v, kids) == [k |-> k, v |-> v, kids |-> kids]

-----------------------------------------------------------------------------
\* Expressions

Str(t) == Node("str", t, <<>>)
Lit(t) == Node("lit", t, <<>>)             \* a number, true, false, null
Id(n) == Node("id", n, <<>>)
Read(c, n) == Node(c, n, <<>>)             \* ctx.params.n, ctx.headers["n"], ...
Input(n) == Node("input", n, <<>>)         \* ctx.n
Index(e) == Node("index", "", <<e>>)       \* ctx.params[e]
Tmpl(parts) == Node("template", "", parts) \* `text${e}text`, its texts as Str nodes
Prop(key, e) == Node("prop", key, <<e>>)
Shorthand(n) == Node("shorthand", n, <<Id(n)>>)
Obj(props) == Node("object", "", props)
Arr(es) == Node("array", "", es)
Bin(op, l, r) == Node(op, "", <<l, r>>)    \* op is "==", "!=", "&&" or "||"
Not(e) == Node("!", "", <<e>>)
Call(o, m, args) == Node("call", m, <<o>> \o args)
Ctx(m, args) == Call(Id("ctx"), m, args)
Await(e) == Node("await", "", <<e>>)
Sql(text, params) == Node("sql", text, params)
Member(x, col) == Node("member", col, <<Id(x)>>)
Random == Node("random", "", <<>>)         \* Math.floor(Math.random() * N) + M

\* Statements
Ret(e) == Node("return", "", <<e>>)
Let(n, e) == Node("let", n, <<e>>)
Block(ss) == Node("block", "", ss)
If(c, then, else) == Node("if", "", <<c, Block(then), Block(else)>>)
Other(k, ss) == Node(k, "", ss)            \* "try", "switch", "loop", "throw"

\* A handler: is it async, the name of its parameter, its body.
Handler(async, ss) == [async |-> async, param |-> "ctx", body |-> Block(ss)]
Arrow(e) == Handler(FALSE, <<Ret(e)>>)

Args(call) == Tail(call.kids)
Callee(call) == call.kids[1]
Collections == {"params", "query", "headers"}

\* The nodes of a tree in source order; below a node of the kinds stop only
\* when it is the root.
RECURSIVE Nodes(_, _)
Nodes(x, stop) ==
  <<x>> \o FlattenSeq([i \in DOMAIN x.kids |->
                        IF x.kids[i].k \in stop THEN <<x.kids[i]>>
                        ELSE Nodes(x.kids[i], stop)])
AllNodes(h) == Nodes(h.body, {})
OfKind(h, ks) == {x \in Range(AllNodes(h)) : x.k \in ks}

\* ctx.status(404).header(..).json(..): the shapers before the builder, first to last.
RECURSIVE Shapers(_)
Shapers(call) ==
  IF Callee(call).k = "call" THEN Append(Shapers(Callee(call)), Callee(call)) ELSE <<>>
\* What a header or setHeaders shaper sets, as properties.
Settings(s) ==
  IF s.v = "header" THEN <<Prop(Args(s)[1].v, Args(s)[2])>>
  ELSE IF s.v = "setHeaders" THEN Args(s)[1].kids ELSE <<>>
RECURSIVE Root(_)
Root(call) == IF Callee(call).k = "call" THEN Root(Callee(call)) ELSE Callee(call)

-----------------------------------------------------------------------------
\* Texts

Quoted == "a\"b"
Esc(t) ==
  CASE t = Quoted -> "a\\\"b" [] t = "\"" -> "\\\"" [] t = "a\\\"b" -> "a\\\\\\\"b" [] OTHER -> t
Text(t) == IF t = "" THEN <<>> ELSE <<t>>
EscAll(ts) == [i \in DOMAIN ts |-> Esc(ts[i])]
InQuotes(ts) == <<"\"">> \o ts \o <<"\"">>
Lower(n) == IF n = "X-Id" THEN "x-id" ELSE n
Between(open, parts, close) ==
  <<open>> \o FlattenSeq([i \in DOMAIN parts |-> IF i = 1 THEN parts[i] ELSE <<",">> \o parts[i]]) \o <<close>>

Answer(status, type, headers, body) ==
  [status |-> status, type |-> type, headers |-> headers, body |-> body]

-----------------------------------------------------------------------------
\* The meaning of a handler in TypeScript.  A request gives every collection a
\* token for every name, "" for one it lacks: a compiled handler cannot tell the
\* two apart (AotRequest::param returns "" for a missing one), so the comparison
\* starts from there.  env binds the local variables.  A column of a row is
\* written with its name; a redirect has its location where a body would be.

Value(t, ts) == [t |-> t, ts |-> ts]
Null == Value("null", <<>>)
Undefined == Value("undefined", <<>>)

RECURSIVE Eval(_, _, _)
Eval(e, req, env) ==
  CASE e.k = "str" -> Value("string", Text(e.v))
    [] e.k = "lit" -> IF e.v = "null" THEN Null ELSE Value("literal", <<e.v>>)
    [] e.k = "template" ->
         Value("string", FlattenSeq([i \in DOMAIN e.kids |-> Eval(e.kids[i], req, env).ts]))
    [] e.k = "headers" /\ Lower(e.v) # e.v -> Value("string", <<>>)
    [] e.k \in Collections \cup {"input"} -> Value("string", Text(req[e.k][e.v]))
    [] e.k = "id" -> env[e.v]
    [] e.k = "member" -> Value("literal", <<e.v>>)
    [] OTHER -> Undefined

Holds(v) == v.t \in {"row", "literal"} \/ (v.t = "string" /\ v.ts # <<>>)
RECURSIVE True(_, _, _)
True(e, req, env) ==
  CASE e.k = "==" -> Eval(e.kids[1], req, env) = Eval(e.kids[2], req, env)
    [] e.k = "!=" -> Eval(e.kids[1], req, env) # Eval(e.kids[2], req, env)
    [] e.k = "&&" -> True(e.kids[1], req, env) /\ True(e.kids[2], req, env)
    [] e.k = "||" -> True(e.kids[1], req, env) \/ True(e.kids[2], req, env)
    [] e.k = "!" -> ~True(e.kids[1], req, env)
    [] OTHER -> Holds(Eval(e, req, env))

\* JSON.stringify
RECURSIVE Json(_, _, _)
Json(e, req, env) ==
  CASE e.k = "object" ->
         Between("{", [i \in DOMAIN e.kids |->
           InQuotes(<<e.kids[i].v>>) \o <<":">> \o Json(e.kids[i].kids[1], req, env)], "}")
    [] e.k = "array" -> Between("[", [i \in DOMAIN e.kids |-> Json(e.kids[i], req, env)], "]")
    [] e.k = "lit" -> <<e.v>>
    [] OTHER -> LET v == Eval(e, req, env) IN
                IF v.t = "string" THEN InQuotes(EscAll(v.ts)) ELSE v.ts

Status(args, i, default) == IF Len(args) >= i THEN args[i].v ELSE default
\* A builder of Ctx after its shapers: the last status stands.
Built(call, req, env) ==
  LET args == Args(call)
      named(m) == SelectSeq(Shapers(call), LAMBDA s : s.v = m)
      pending(default) == IF named("status") = <<>> THEN default
                          ELSE Args(Last(named("status")))[1].v
      headers == {p.v : p \in UNION {Range(Settings(s)) : s \in Range(Shapers(call))}}
      body(default) == IF args = <<>> THEN default ELSE Eval(args[1], req, env).ts
      bodyless(a) == IF a.status \in {"204", "304"} THEN [a EXCEPT !.body = <<>>] ELSE a
      made == CASE call.v = "json" ->
                     Answer(Status(args, 2, pending("200")), "json", headers,
                            IF args = <<>> THEN <<>> ELSE Json(args[1], req, env))
                [] call.v = "html" -> Answer(Status(args, 2, pending("200")), "html", headers, body(<<>>))
                [] call.v = "raw" -> Answer(pending("200"), "", headers, body(<<>>))
                [] call.v = "redirect" ->
                     Answer(Status(args, 2, "302"), "redirect", headers, Text(args[1].v))
                [] call.v = "notFound" -> Answer(pending("404"), "text", headers, body(<<"Not Found">>))
                [] call.v = "noContent" -> Answer(pending("204"), "", headers, <<>>)
  IN bodyless(made)

\* ctx.text() reads the request's body: what it resolves to is no Response.
NoAnswer == Answer("none", "", {}, <<>>)
Failure == Answer("500", "json", {}, <<"error">>)
\* The handler's statements in order; row is what its await resolves to.
RECURSIVE Exec(_, _, _, _)
Exec(ss, req, row, env) ==
  IF ss = <<>> THEN NoAnswer
  ELSE LET s == Head(ss)
           x == s.kids[1]
           then(more) == Exec(more \o Tail(ss), req, row, env)
       IN CASE s.k = "return" -> IF x.k = "call" /\ Root(x) = Id("ctx") /\ x.v # "text"
                                 THEN Built(x, req, env) ELSE NoAnswer
            [] s.k = "if" -> then(IF True(x, req, env) THEN s.kids[2].kids ELSE s.kids[3].kids)
            [] s.k = "let" ->
                 IF x.k = "await" /\ row.t = "error" THEN Failure
                 ELSE Exec(Tail(ss), req, row,
                           (s.v :> IF x.k = "await" THEN row ELSE Eval(x, req, env)) @@ env)
            [] s.k = "throw" -> Failure
            [] s.k \in {"try", "switch", "loop"} -> then(s.kids)
            [] OTHER -> then(<<>>)
Source(h, req, row) == Exec(h.body.kids, req, row, <<>>)

===============================================================================
