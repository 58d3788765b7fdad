----------------------------- MODULE AotTranspiler ----------------------------
(***************************************************************************)
(* @fearless/aot-transpiler: the Rust function a compilable handler is     *)
(* emitted as, and what it answers.                                        *)
(*                                                                         *)
(*  - A sync handler is a list of branches, each a response behind a guard *)
(*    (a conjunction of conditions); the first whose guard holds answers.  *)
(*  - An async handler binds its parameters as integers, calls the one     *)
(*    handle it awaits and writes columns of the row it gets.              *)
(***************************************************************************)
EXTENDS AotAnalyzer

CONSTANTS
  Columns,    \* the SELECT list of each SQL text, <<>> when it has none
  Hash        \* the first characters of the SHA-256 of each SQL text

\* What the transpiler returns; NoProgram is its failure, the route is Bun's.
NoProgram == [kind |-> "none"]
Fails(program) == program.kind = "none"

-----------------------------------------------------------------------------
\* Responses

Bytes(t) == [c |-> "bytes", v |-> t, json |-> FALSE]
BytesOf(t) == IF t = "" THEN <<>> ELSE <<Bytes(t)>>

\* matchCtxRead: the value a chunk or a condition may read, by its Rust getter.
IsRead(e) == e.k \in Collections \/ (e.k = "input" /\ e.v \in {"method", "path", "url", "ip"})
Chunk(e, json) == [c |-> e.k, v |-> IF e.k = "headers" THEN Lower(e.v) ELSE e.v, json |-> json]

\* The text of a template goes out as it stands, in JSON as well.
TemplateText(t, json) == BytesOf(t)
RendersTemplate(e) == \A x \in Range(e.kids) : x.k = "str" \/ IsRead(x)
TemplateChunks(e, json) ==
  FlattenSeq([i \in DOMAIN e.kids |->
    IF e.kids[i].k = "str" THEN TemplateText(e.kids[i].v, json) ELSE <<Chunk(e.kids[i], json)>>])

RECURSIVE RendersJson(_)
RendersJson(e) ==
  CASE e.k \in {"str", "lit"} -> TRUE
    [] e.k = "template" -> RendersTemplate(e)
    [] e.k \in {"object", "array", "prop"} -> \A i \in DOMAIN e.kids : RendersJson(e.kids[i])
    [] OTHER -> IsRead(e)

RECURSIVE JsonChunks(_)
JsonChunks(e) ==
  LET quoted(cs) == <<Bytes("\"")>> \o cs \o <<Bytes("\"")>>
      between(open, parts, close) ==
        <<Bytes(open)>>
          \o FlattenSeq([i \in DOMAIN parts |-> IF i = 1 THEN parts[i] ELSE <<Bytes(",")>> \o parts[i]])
          \o <<Bytes(close)>>
      kids == [i \in DOMAIN e.kids |-> JsonChunks(e.kids[i])]
  IN CASE e.k = "str" -> quoted(BytesOf(Esc(e.v)))
       [] e.k = "lit" -> <<Bytes(e.v)>>
       [] e.k = "template" -> quoted(TemplateChunks(e, TRUE))
       [] e.k = "prop" -> quoted(<<Bytes(e.v)>>) \o <<Bytes(":")>> \o kids[1]
       [] e.k = "object" -> between("{", kids, "}")
       [] e.k = "array" -> between("[", kids, "]")
       [] OTHER -> quoted(<<Chunk(e, TRUE)>>)

RendersText(args) ==
  \/ args = <<>> \/ args[1].k = "str" \/ (args[1].k = "template" /\ RendersTemplate(args[1]))
TextChunks(args) ==
  IF args = <<>> THEN <<>>
  ELSE IF args[1].k = "str" THEN BytesOf(args[1].v) ELSE TemplateChunks(args[1], FALSE)

\* unwrapCtxChain: the shapers are read from the builder back to ctx, the
\* status nearest to ctx is the last one read.
StringArgs(call) == \A i \in {1, 2} : i \in DOMAIN Args(call) /\ Args(call)[i].k = "str"
Unwraps(call) ==
  /\ call.k = "call" /\ FromCtx(call, Chains)
  /\ \A s \in Range(Shapers(call)) :
       CASE s.v = "status" -> Args(s) # <<>> /\ Args(s)[1].k = "lit"
         [] s.v = "header" -> StringArgs(s)
         [] s.v = "setHeaders" -> Args(s) # <<>> /\ Args(s)[1].k = "object"
ChainStatus(call, default) ==
  LET set == SelectSeq(Shapers(call), LAMBDA s : s.v = "status")
  IN IF set = <<>> THEN default ELSE Args(set[1])[1].v
ChainType(call, default) ==
  LET types(s) == SelectSeq(Settings(s), LAMBDA p : p.v = "content-type" /\ p.kids[1].k = "str")
      set == SelectSeq(Shapers(call), LAMBDA s : types(s) # <<>>)
  IN IF set = <<>> THEN default ELSE Last(types(set[1])).kids[1].v

Renders(e) ==
  /\ Unwraps(e)
  /\ LET args == Args(e) IN
     CASE e.v = "json" -> args = <<>> \/ RendersJson(args[1])
       [] e.v \in {"text", "html", "notFound"} -> RendersText(args)
       [] e.v = "redirect" -> args # <<>> /\ args[1].k = "str"
       [] OTHER -> e.v = "noContent"

Response(status, type, chunks) == [status |-> status, type |-> type, chunks |-> chunks]
Shape(e) ==
  LET args == Args(e)
      typed(type) == ChainType(e, type)
  IN CASE e.v = "json" -> Response(ChainStatus(e, "200"), typed("json"),
                                   IF args = <<>> THEN <<Bytes("{}")>> ELSE JsonChunks(args[1]))
       [] e.v \in {"text", "html"} -> Response(ChainStatus(e, "200"), typed(e.v), TextChunks(args))
       [] e.v = "notFound" -> Response(ChainStatus(e, "404"), "text",
                                       IF args = <<>> THEN <<Bytes("Not Found")>> ELSE TextChunks(args))
       [] e.v = "noContent" -> Response(ChainStatus(e, "204"), "text", <<>>)
       [] e.v = "redirect" ->
            Response(IF Len(args) > 1 /\ args[2].k = "lit" THEN args[2].v ELSE ChainStatus(e, "302"),
                     "redirect", BytesOf(args[1].v))

-----------------------------------------------------------------------------
\* Sync handlers

Numbers == {"5", "200", "201", "304", "404", "302", "301"}
IsNumber(e) == e.k = "lit" /\ e.v \in Numbers
RendersValue(e) == e.k = "str" \/ IsNumber(e) \/ IsRead(e)
RECURSIVE RendersCondition(_)
RendersCondition(e) ==
  CASE e.k \in {"==", "!="} -> RendersValue(e.kids[1]) /\ RendersValue(e.kids[2])
    [] e.k \in {"&&", "||"} -> RendersCondition(e.kids[1]) /\ RendersCondition(e.kids[2])
    [] OTHER -> FALSE

\* walkStatements: the returns of a block in order, each behind the conditions
\* that lead to it.  An if whose condition cannot be rendered is left out with
\* all below it, and so is every other statement.
RECURSIVE Returns(_, _)
Returns(ss, guard) ==
  IF ss = <<>> THEN <<>>
  ELSE LET s == Head(ss) IN
       CASE s.k = "return" -> <<[guard |-> guard, e |-> s.kids[1]]>>
         [] s.k = "if" /\ RendersCondition(s.kids[1]) ->
              Returns(s.kids[2].kids, Append(guard, s.kids[1]))
                \o Returns(s.kids[3].kids, Append(guard, Not(s.kids[1])))
                \o Returns(Tail(ss), guard)
         [] OTHER -> Returns(Tail(ss), guard)

TranspileSync(h) ==
  LET rs == Returns(h.body.kids, <<>>)
  IN IF rs = <<>> \/ \E r \in Range(rs) : ~Renders(r.e) THEN NoProgram
     ELSE [kind |-> "sync",
           branches |-> [i \in DOMAIN rs |-> [guard |-> rs[i].guard, response |-> Shape(rs[i].e)]]]

\* The emitted function on a request.  A Rust comparison of a text with a number
\* does not compile.
RustValue(e, req) ==
  IF e.k \in {"str", "lit"} THEN e.v ELSE LET c == Chunk(e, FALSE) IN req[c.c][c.v]
RECURSIVE RustTrue(_, _)
RustTrue(e, req) ==
  CASE e.k = "==" -> RustValue(e.kids[1], req) = RustValue(e.kids[2], req)
    [] e.k = "!=" -> RustValue(e.kids[1], req) # RustValue(e.kids[2], req)
    [] e.k = "&&" -> RustTrue(e.kids[1], req) /\ RustTrue(e.kids[2], req)
    [] e.k = "||" -> RustTrue(e.kids[1], req) \/ RustTrue(e.kids[2], req)
    [] e.k = "!" -> ~RustTrue(e.kids[1], req)
RECURSIVE RustTypes(_)
RustTypes(e) ==
  IF e.k \in {"==", "!="} THEN IsNumber(e.kids[1]) = IsNumber(e.kids[2])
  ELSE \A i \in DOMAIN e.kids : RustTypes(e.kids[i])

Written_Raw(c, req) == IF c.c = "bytes" THEN <<c.v>> ELSE Text(req[c.c][c.v])
Written(c, req) ==
  IF c.c = "bytes" THEN <<c.v>>
  ELSE LET t == req[c.c][c.v] IN Text(IF c.json THEN Esc(t) ELSE t)
Respond(r, req) ==
  Answer(r.status, r.type, {}, FlattenSeq([i \in DOMAIN r.chunks |-> Written(r.chunks[i], req)]))
RunSync(program, req) ==
  LET taken == SelectSeq(program.branches, LAMBDA b : \A c \in Range(b.guard) : RustTrue(c, req))
  IN IF taken = <<>> THEN Answer("500", "", {}, <<>>) ELSE Respond(taken[1].response, req)

-----------------------------------------------------------------------------
\* Async handlers

AwaitNodes(h) == SelectSeq(AllNodes(h), LAMBDA x : x.k = "await")
\* The one await of the handler, when it is a call of a handle with a sql template.
AwaitsOnce(h, handles) ==
  /\ Len(AwaitNodes(h)) = 1
  /\ LET call == AwaitNodes(h)[1].kids[1] IN
     OnHandle(call, handles) /\ Args(call) # <<>> /\ Args(call)[1].k = "sql"
\* const row = await ...; a result without a name is called row.
ResultName(h) ==
  LET lets == SelectSeq(AllNodes(h), LAMBDA x : x.k = "let" /\ x.kids[1].k = "await")
  IN IF lets = <<>> THEN "row" ELSE lets[1].v

\* makeStatementKey
StatementKey(var, text) == <<var, Hash[text]>>
Methods == {"queryOne", "queryMany", "execute"}
BindsParam(e) == e.k \in {"params", "query", "random"}

\* The first ctx.json({name: row.column, ...}) of the handler, wherever it is.
ResponseCalls(h) ==
  LET member(p) == p.k = "prop" /\ p.kids[1].k = "member" /\ p.kids[1].kids[1].v = ResultName(h)
      fits(x) == /\ x.k = "call" /\ Callee(x) = Id("ctx") /\ x.v = "json"
                 /\ Args(x) # <<>> /\ Args(x)[1].k = "object"
                 /\ \A p \in Range(Args(x)[1].kids) : member(p)
  IN SelectSeq(AllNodes(h), fits)
Fields(h) ==
  LET props == Args(ResponseCalls(h)[1])[1].kids
  IN [i \in DOMAIN props |-> [key |-> props[i].v, column |-> props[i].kids[1].v]]

TranspileAsync(h, handles) ==
  IF ~AwaitsOnce(h, handles) THEN NoProgram
  ELSE LET call == AwaitNodes(h)[1].kids[1]
           var == Callee(call).v
           template == Args(call)[1]
           cols == Columns[template.v]
       IN IF \/ \E p \in Range(template.kids) : ~BindsParam(p)
             \/ handles[var].kind # "sql" \/ call.v \notin Methods
             \/ ResponseCalls(h) = <<>> \/ cols = <<>>
             \/ \E f \in Range(Fields(h)) : f.column \notin Range(cols)
          THEN NoProgram
          ELSE [kind |-> "async", method |-> call.v, params |-> template.kids,
                handle |-> handles[var].name, key |-> StatementKey(var, template.v),
                statement |-> template.v, fields |-> Fields(h)]

\* The emitted function on a request, when the handle answers db: a row, null
\* (the rows were empty) or an error.
Parses(p, req) == p.k = "random" \/ req[p.k][p.v] \in Numbers
RunAsync_Empty(program, req, db) ==
  IF db.t = "error" THEN Answer("503", "text", {}, <<"database error">>)
  ELSE Answer("200", "json", {}, <<"{}">>)
RunAsync(program, req, db) ==
  CASE \E p \in Range(program.params) : ~Parses(p, req) -> Answer("400", "text", {}, <<"invalid param">>)
    [] db.t = "error" -> Answer("503", "text", {}, <<"database error">>)
    [] db.t = "null" /\ program.method = "queryOne" -> Answer("404", "", {}, <<>>)
    [] OTHER -> Answer("200", "json", {},
                       Between("{", [i \in DOMAIN program.fields |->
                         InQuotes(<<program.fields[i].key>>) \o <<":", program.fields[i].column>>], "}"))

-----------------------------------------------------------------------------
\* transpileHandler
Transpile(h, handles) == IF h.async THEN TranspileAsync(h, handles) ELSE TranspileSync(h)

\* Only the row of queryOne has columns the emitted code can read.
CompilesInRust(program) ==
  IF program.kind = "sync"
  THEN \A b \in Range(program.branches) : \A c \in Range(b.guard) : RustTypes(c)
  ELSE program.method = "queryOne" \/ program.fields = <<>>
===============================================================================
