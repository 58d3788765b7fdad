------------------------------ MODULE MCAotBuild ------------------------------
(***************************************************************************)
(* Model values for AotBuild: handlers that combine every builder, shaper  *)
(* and statement the analyzer accepts with conditions it accepts and the   *)
(* transpiler cannot render, handlers each rule rejects, async handlers,   *)
(* templates, and sessions of two builds over apps of two routes.          *)
(***************************************************************************)
EXTENDS AotBuild

MCColumns == [by_id |-> <<"id", "n">>, all |-> <<"id">>, touch |-> <<>>, twin |-> <<"id">>]
MCHash == [by_id |-> "h1", all |-> "h2", touch |-> "h3", twin |-> "h2"]
MCSanitized ==
  [x \in {"/a-b", "/a_b", "/c", "/:id"} |-> IF x = "/c" THEN "_c" ELSE IF x = "/:id" THEN "__id" ELSE "_a_b"]

Tokens == {"", "5", Quoted}
MCRequests ==
  {[params |-> [id |-> p], query |-> [k |-> q], headers |-> ("x-id" :> x), input |-> [method |-> "GET"]] :
     p \in Tokens, q \in Tokens, x \in Tokens}
MCRows == {Value("row", <<"row">>), Null, Value("error", <<>>)}

P == Read("params", "id")
Q == Read("query", "k")
X == Read("headers", "x-id")
Five == Lit("5")
WithStatus(n, m, args) == Call(Ctx("status", <<Lit(n)>>), m, args)
Hello == Ctx("html", <<Str("hello")>>)

Results ==
  { Ctx("json", <<Obj(<<Prop("id", P), Prop("n", Five)>>)>>),
    Ctx("json", <<Arr(<<Str(Quoted), Q, Lit("null")>>)>>),
    Ctx("json", <<Obj(<<Prop("in", Obj(<<Prop("x", X)>>))>>)>>),
    Ctx("json", <<Tmpl(<<Str("v-"), Q, Str("-"), Input("method")>>)>>),
    Ctx("json", <<Tmpl(<<Str(Quoted), P>>)>>),
    Ctx("json", <<Obj(<<Shorthand("a")>>)>>), Ctx("json", <<P, Lit("404")>>), Ctx("json", <<>>),
    Ctx("html", <<Tmpl(<<Str("hi "), X>>)>>), Ctx("html", <<P>>), Ctx("html", <<>>), Hello,
    Ctx("text", <<Str("hello")>>), Ctx("raw", <<Str("hello")>>),
    Ctx("notFound", <<>>), Ctx("notFound", <<Tmpl(<<P, Str(" lost")>>)>>), Ctx("noContent", <<>>),
    Ctx("redirect", <<Str("/to")>>), Ctx("redirect", <<Str("/to"), Lit("301")>>),
    WithStatus("302", "redirect", <<Str("/to")>>), WithStatus("201", "redirect", <<Str("/to")>>),
    WithStatus("201", "json", <<Obj(<<Prop("q", Q)>>)>>), WithStatus("404", "notFound", <<Str("gone")>>),
    WithStatus("200", "noContent", <<>>), WithStatus("304", "html", <<Str("hello")>>),
    Call(Call(Ctx("status", <<Lit("201")>>), "status", <<Lit("404")>>), "html", <<Str("hello")>>),
    Call(Ctx("header", <<Str("content-type"), Str("csv")>>), "html", <<Str("hello")>>),
    Call(Ctx("setHeaders", <<Obj(<<Prop("x-a", Str("1"))>>)>>), "json", <<Five>>),
    Call(Ctx("status", <<P>>), "html", <<Str("hello")>>),
    Ctx("json", <<Read("headers", "X-Id")>>), Ctx("json", <<Input("state")>>) }

Conditions ==
  { Bin("==", P, Str("5")), Bin("!=", Q, Str(Quoted)), Bin("==", P, Five), Bin("==", Five, Five),
    Bin("&&", Bin("==", P, Str("5")), Bin("!=", X, Str(""))),
    Bin("||", Bin("==", Q, X), Bin("==", P, Str(""))), Bin("==", Input("method"), Str("GET")),
    P, Not(Bin("==", P, Str("5"))), Bin("&&", Q, Bin("==", P, Str("5"))), Bin("==", Id("a"), P),
    Bin("==", P, Lit("null")) }

Ok == Ctx("json", <<Obj(<<Prop("k", Q)>>)>>)
No == WithStatus("404", "json", <<P>>)
Guarded(c) ==
  { <<If(c, <<Ret(No)>>, <<>>), Ret(Ok)>>,
    <<If(c, <<Ret(No)>>, <<Ret(Ok)>>)>>,
    <<If(c, <<If(Bin("!=", Q, Str("")), <<Ret(Hello)>>, <<>>), Ret(No)>>, <<>>), Ret(Ok)>>,
    <<If(Bin("==", Q, Str("5")), <<Ret(Hello)>>, <<If(c, <<Ret(No)>>, <<>>)>>), Ret(Ok)>>,
    <<If(c, <<>>, <<Ret(No)>>), Ret(Ok), Ret(Hello)>>,
    <<If(c, <<Ret(No)>>, <<>>)>> }

Rejected ==
  { <<>>, <<Ret(P)>>, <<Ret(Call(Id("reply"), "json", <<>>))>>, <<Ret(Ctx("json", <<Id("db")>>))>>,
    <<Ret(Ctx("json", <<Index(P)>>))>>, <<Other("loop", <<Ret(Ok)>>), Ret(Ok)>>,
    <<Other("throw", <<>>), Ret(Ok)>>, <<Let("a", Call(Id("Math"), "max", <<>>)), Ret(Ok)>>,
    <<Ret(Ctx("html", <<Tmpl(<<Read("state", "u")>>)>>))>>, <<Let("a", Await(Ctx("body", <<>>))), Ret(Ok)>>,
    <<Ret(Call(Call(Id("db"), "queryOne", <<>>), "then", <<>>))>> }
Accepted ==
  { <<Let("a", P), Ret(Ok)>>, <<Let("a", P), If(Bin("==", Id("a"), Str("5")), <<Ret(No)>>, <<>>), Ret(Ok)>>,
    <<Other("try", <<Ret(No)>>), Ret(Ok)>>, <<Ret(Ok)>> }

Query(m, text, params) == Call(Id("db"), m, <<Sql(text, params)>>)
RowJson == Ctx("json", <<Obj(<<Prop("id", Member("row", "id"))>>)>>)
Checked(m, text, params) ==
  <<Let("row", Await(Query(m, text, params))),
    If(Bin("==", Id("row"), Lit("null")), <<Ret(Ctx("notFound", <<>>))>>, <<>>), Ret(RowJson)>>
AsyncBodies ==
  { Checked("queryOne", "by_id", <<P>>), Checked("queryOne", "by_id", <<Random>>),
    Checked("queryOne", "all", <<>>), Checked("queryOne", "touch", <<>>), Checked("queryOne", "by_id", <<X>>),
    Checked("query", "by_id", <<P>>), Checked("queryMany", "all", <<>>),
    <<Let("n", Await(Query("execute", "all", <<>>))), Ret(Ctx("json", <<Obj(<<>>)>>))>>,
    <<If(Bin("!=", Q, Str("5")), <<Ret(No)>>, <<>>)>> \o Checked("queryOne", "by_id", <<P>>),
    <<Let("row", Await(Query("queryOne", "all", <<>>))), Let("b", Await(Query("queryOne", "all", <<>>))), Ret(RowJson)>>,
    <<Let("row", Await(Query("queryOne", "all", <<>>))),
      Ret(Ctx("json", <<Obj(<<Prop("n", Member("row", "n"))>>)>>))>>,
    <<Let("row", Await(Query("queryOne", "all", <<>>))), Ret(Ok)>>, <<Ret(Ok)>>, <<Ret(Await(Query("queryOne", "all", <<>>)))>> }

Db(kind) == [var |-> "db", of |-> "fearless", kind |-> kind, name |-> "primary"]
Decls == <<Db("sql"), [var |-> "x", of |-> "other", kind |-> "sql", name |-> "x"]>>
App(calls) == [decls |-> Decls, calls |-> calls]
Get(path, h) == Route("handler", "GET", path, h, NoTemplate)
Serve(t) == Route("template", "GET", IF t.hasParams THEN "/:id" ELSE "/a-b", Synthesized(t), t)
Plain(kind, body) == Serve(Template(kind, body, "", FALSE, FALSE))

\* Every token, in a string by itself and inside values; templates of every kind,
\* with a status or without, that may be prebaked and that may not.
MCAlphabet == <<"a", "b", "connection", "id", "k", "n", "x", "x-id", "y">>
Braced ==
  {"{{method}}", "{{path}}", "{{ip}}", "{{params}}", "{{query}}", "{{params.id}}", "{{query.k}}",
   "{{headers.X-Id}}", "{{headers.connection}}", "{{unknown}}", "{{}}", "{{open"}
TemplateBodies ==
  {Str(t) : t \in Braced}
    \cup {Str("hello"), Str(Quoted), Lit("null"), Id("body"), Arr(<<Str("{{unknown}}"), Str(Quoted)>>),
          Obj(<<Prop("x", Str("{{headers.X-Id}}")), Prop("y", Five)>>),
          Obj(<<Prop("b", Five), Prop("a", Str("{{params.id}}"))>>),
          Obj(<<Prop("a", Arr(<<Lit("null"), Obj(<<Prop("n", Str("{{query}}"))>>)>>)), Prop("b", Str(Quoted))>>),
          Arr(<<Str(Quoted), Obj(<<Prop("x", Five)>>)>>)}
MCTemplates ==
  {Template(kind, b, status, hasParams, FALSE) :
     kind \in {"text", "json"}, b \in TemplateBodies, status \in {"", "201", "204"}, hasParams \in BOOLEAN}
  \cup {Template("html", b, "", FALSE, braces) : b \in TemplateBodies, braces \in BOOLEAN}

Plainly(n, v) == Pair(n, v, "plain")
Queries ==
  {<<>>, <<Plainly("k", "5")>>, <<Plainly("k", Quoted)>>, <<Pair("k", "", "bare")>>, <<Pair("k", "5", "odd")>>,
   <<Plainly("k", "5"), Plainly("k", "")>>, <<Pair("a", "", "bare"), Plainly("k", "5")>>,
   <<Plainly("k", "5"), Plainly("a", Quoted), Plainly("k", Quoted)>>}
HeaderLists ==
  {<<>>, <<Plainly("X-Id", Quoted)>>, <<Plainly("x-id", "5"), Plainly("X-Id", "")>>,
   <<Plainly("connection", "close"), Plainly("x-id", "5")>>}
MCTemplateRequests ==
  {Request(m, slash, ps, q, <<>>) :
     m \in {"GET", "HEAD"}, slash \in BOOLEAN, q \in Queries,
     ps \in {<<>>, <<Plainly("id", "5")>>, <<Plainly("id", Quoted), Plainly("a", "5")>>}}
  \cup {Request("GET", FALSE, ps, <<>>, hs) : ps \in {<<>>, <<Plainly("a", ""), Plainly("id", Quoted)>>}, hs \in HeaderLists}

Bodies == {<<Ret(e)>> : e \in Results} \cup UNION {Guarded(c) : c \in Conditions} \cup Accepted \cup Rejected
Single ==
  {App(<<Get("/c", Handler(FALSE, b))>>) : b \in Bodies}
    \cup {App(<<Get("/c", Handler(TRUE, b))>>) : b \in AsyncBodies}
    \cup {App(<<Get("/c", [Handler(FALSE, <<Ret(Ok)>>) EXCEPT !.param = "c"])>>),
          [decls |-> <<Db("kv")>>, calls |-> <<Get("/c", Handler(TRUE, Checked("queryOne", "all", <<>>)))>>]}
    \cup {App(<<Serve(t)>>) : t \in MCTemplates}
Simple == Arrow(Ok)
Row(text) == Handler(TRUE, Checked("queryOne", text, <<>>))
Several ==
  { App(<<>>), App(<<Route("reference", "GET", "/c", Simple, NoTemplate)>>),
    App(<<Get("/a-b", Simple), Get("/a_b", Simple)>>),
    App(<<Plain("text", Str("hello")), Plain("text", Str("hello"))>>),
    App(<<Get("/a-b", Arrow(Hello)), Get("/c", Row("by_id"))>>),
    App(<<Get("/a_b", Row("all")), Get("/c", Row("twin"))>>),
    App(<<Get("/a_b", Row("twin"))>>),
    App(<<Get("/c", Handler(FALSE, <<If(Bin("==", P, Five), <<Ret(No)>>, <<>>), Ret(Ok)>>)), Get("/a_b", Simple)>>) }
MCSessions == {<<a>> : a \in Single} \cup {<<a, b>> : a \in Several, b \in Several}
===============================================================================
